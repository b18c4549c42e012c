------------------------------ MODULE ChargeOnly ------------------------------
(***************************************************************************)
(* The program that shows the battery while the phone is off and charging:  *)
(* one thread that runs due alarms, then waits for a key or a uevent.       *)
(*                                                                          *)
(* Time passes in ticks, also while the thread is busy; the four delays     *)
(* keep their order.  Drawing, LEDs and the levels drawn are left out.      *)
(***************************************************************************)
EXTENDS Integers, SequencesExt

CONSTANTS
  Animation, Hold, Bright, Dim,  \* delays: 0.5 s, 1 s, 5 s and 10 s
  MaxLate,     \* bound: ticks an alarm may be late
  MaxKeys,     \* bound: keys pressed
  MaxQueue,    \* bound: uevents unread
  Fails        \* system calls that may fail: subset of {"poweroff", "restart"}

ASSUME ChargeAssumption ==
  /\ {Animation, Hold, Bright, Dim} \subseteq Nat \ {0}
  /\ Animation <= Hold /\ Hold <= Bright /\ Bright <= Dim
  /\ {MaxLate, MaxKeys, MaxQueue} \subseteq Nat
  /\ Fails \subseteq {"poweroff", "restart"}

Handlers == {"animation", "alarm1", "alarm2", "power_key"}
Display  == {"animation", "alarm1", "alarm2"}

VARIABLES
  alarms,      \* the list alarms: [f, in], in ticks from now, soonest first
  brightness,  \* "off" (display blanked), "dim" or "bright"
  shutdown, powerup,   \* the flags of main.c
  phone,       \* "starting", "on", "off" or "restarting"
  plugged,     \* into ac or usb
  pressed,     \* the power key
  keys, uevents,       \* events unread in the input devices and in the socket
  pressedKeys, \* how many there were
  lost         \* history: a battery uevent was dropped since the charger was looked at

flags == <<shutdown, powerup>>
world == <<plugged, pressed, pressedKeys>>
vars  == <<alarms, brightness, flags, phone, keys, uevents, world, lost>>

Init ==
  /\ alarms = <<>> /\ brightness = "off" /\ shutdown = FALSE /\ powerup = FALSE
  /\ phone = "starting" /\ plugged \in BOOLEAN /\ pressed = FALSE
  /\ keys = <<>> /\ uevents = <<>> /\ pressedKeys = 0 /\ lost = FALSE
-----------------------------------------------------------------------------
(* The list of alarms.                                                      *)

\* Mutant: a new alarm goes to the end of the list.
alarm_set_relative_Last(list, f, ticks) == Append(list, [f |-> f, in |-> ticks])

\* alarm_set_relative: behind the alarms that are due no later.
alarm_set_relative(list, f, ticks) ==
  LET place == CHOOSE p \in 1 .. Len(list) + 1 :
                 /\ \A i \in 1 .. p - 1 : list[i].in <= ticks
                 /\ p <= Len(list) => list[p].in > ticks
  IN  InsertAt(list, place, [f |-> f, in |-> ticks])

\* alarm_cancel of each of a set of handlers: the others stay, in their order.
alarm_cancel(list, fs) ==
  LET stay   == {i \in DOMAIN list : list[i].f \notin fs}
      nth(n) == CHOOSE i \in stay : Cardinality({j \in stay : j <= i}) = n
  IN  [n \in 1 .. Cardinality(stay) |-> list[nth(n)]]

Pending(f) == {i \in DOMAIN alarms : alarms[i].f = f}
-----------------------------------------------------------------------------
(* The handlers, given the list of alarms they find.                        *)

\* screen_brightness_animation_alarm2: the screen goes dark; switch off if that is due.
DisplayEnds(list, off) ==
  /\ brightness' = "off"
  /\ alarms' = alarm_cancel(list, {"animation"})
  /\ IF off THEN phone' = "off" \/ ("poweroff" \in Fails /\ phone' = "on") ELSE phone' = "on"

\* screen_brightness_animation_start.
Animated(list) ==
  alarm_set_relative(alarm_set_relative(list, "alarm1", Bright), "animation", Animation)

\* Mutant: the charger is looked at only while the display is on.
power_event_Lit(list) ==
  /\ powerup' \in {powerup, TRUE} /\ lost' = FALSE
  /\ IF ~ shutdown /\ ~ plugged /\ brightness # "off"
     THEN shutdown' = TRUE /\ DisplayEnds(alarm_cancel(list, {"alarm1", "alarm2"}), TRUE)
     ELSE alarms' = list /\ phone' = "on" /\ UNCHANGED <<shutdown, brightness>>

\* power_event: note a voltage that is high enough to start; when the charger is
\* unplugged switch off, once.
power_event(list) ==
  /\ powerup' \in {powerup, TRUE} /\ lost' = FALSE
  /\ IF ~ shutdown /\ ~ plugged
     THEN shutdown' = TRUE /\ DisplayEnds(alarm_cancel(list, {"alarm1", "alarm2"}), TRUE)
     ELSE alarms' = list /\ phone' = "on" /\ UNCHANGED <<shutdown, brightness>>
-----------------------------------------------------------------------------
(* main: the start, ...                                                     *)

Started ==
  /\ powerup' \in {powerup, TRUE} /\ lost' = FALSE
  /\ shutdown' = ~ plugged
  /\ \/ /\ plugged \/ "poweroff" \in Fails
        /\ phone' = "on" /\ brightness' = "bright" /\ alarms' = Animated(alarms)
     \/ ~ plugged /\ phone' = "off" /\ UNCHANGED <<brightness, alarms>>

start == phone = "starting" /\ Started /\ UNCHANGED <<keys, uevents, world>>

(* ... alarms that are due, ...                                             *)
Due(f) == phone = "on" /\ alarms # <<>> /\ Head(alarms).in < 1 /\ Head(alarms).f = f

animation_alarm ==
  /\ Due("animation")
  /\ power_event(alarm_set_relative(Tail(alarms), "animation", Animation))
  /\ UNCHANGED <<keys, uevents, world>>

\* Mutant: the display stays bright.
alarm1_Again ==
  /\ Due("alarm1")
  /\ alarms' = alarm_set_relative(Tail(alarms), "alarm1", Bright)
  /\ UNCHANGED <<brightness, flags, phone, keys, uevents, world, lost>>

\* screen_brightness_animation_alarm1.
alarm1 ==
  /\ Due("alarm1")
  /\ brightness' = "dim"
  /\ alarms' = alarm_set_relative(Tail(alarms), "alarm2", Dim)
  /\ UNCHANGED <<flags, phone, keys, uevents, world, lost>>

\* screen_brightness_animation_alarm2.
alarm2 ==
  /\ Due("alarm2")
  /\ DisplayEnds(Tail(alarms), shutdown)
  /\ UNCHANGED <<flags, keys, uevents, world, lost>>

power_key_alarm ==
  /\ Due("power_key")
  /\ alarms' = alarm_cancel(Tail(alarms), Display)
  /\ phone' = "restarting" \/ ("restart" \in Fails /\ phone' = "on")
  /\ UNCHANGED <<brightness, flags, keys, uevents, world, lost>>

(* ... and events: ev_get looks at the keys first.                          *)
Waiting == phone = "on" /\ \A a \in ToSet(alarms) : a.in >= 1

Key(k) == Waiting /\ keys # <<>> /\ Head(keys) = k /\ keys' = Tail(keys)

power_key_down ==
  /\ Key("down")
  /\ alarms' = IF powerup THEN alarm_set_relative(alarms, "power_key", Hold) ELSE alarms
  /\ UNCHANGED <<brightness, flags, phone, uevents, world, lost>>

\* update_screen_on_wakeup_key: a bright display ends, any other starts again.
Wakeup(list) ==
  IF \E a \in ToSet(list) : a.f = "alarm1"
  THEN DisplayEnds(alarm_cancel(list, Display), shutdown)
  ELSE /\ brightness' = "bright"
       /\ alarms' = Animated(alarm_cancel(list, Display))
       /\ UNCHANGED phone

\* Mutant: a key that is let go does not cancel the restart.
power_key_up_Restarts ==
  Key("up") /\ Wakeup(alarms) /\ UNCHANGED <<flags, uevents, world, lost>>

power_key_up ==
  /\ Key("up")
  /\ Wakeup(alarm_cancel(alarms, {"power_key"}))
  /\ UNCHANGED <<flags, uevents, world, lost>>

\* Mutant: a key that lights the display again lets the old animation go on.
other_key_Animates ==
  /\ Key("other")
  /\ brightness' = "bright"
  /\ alarms' = Animated(alarm_cancel(alarms, {"alarm1", "alarm2"}))
  /\ UNCHANGED <<flags, phone, uevents, world, lost>>

\* Volume and camera keys: update_screen_on_wakeup_key2.
other_key ==
  /\ Key("other")
  /\ brightness' = "bright"
  /\ alarms' = Animated(alarm_cancel(alarms, Display))
  /\ UNCHANGED <<flags, phone, uevents, world, lost>>

\* ev_get reads all uevents into one buffer and looks at the last.
uevent ==
  /\ Waiting /\ keys = <<>> /\ uevents # <<>>
  /\ uevents' = <<>>
  /\ IF Last(uevents) = "battery" THEN power_event(alarms)
     ELSE /\ lost' = (lost \/ "battery" \in ToSet(uevents))
          /\ UNCHANGED <<alarms, brightness, flags, phone>>
  /\ UNCHANGED <<keys, world>>
-----------------------------------------------------------------------------
(* The world: time, the charger, what reports on the battery, and the keys. *)
Alive == phone \in {"starting", "on"}

tick ==
  /\ phone = "on"
  /\ \A a \in ToSet(alarms) : a.in > - MaxLate
  /\ alarms' = [i \in DOMAIN alarms |-> [alarms[i] EXCEPT !.in = @ - 1]]
  /\ UNCHANGED <<brightness, flags, phone, keys, uevents, world, lost>>

Sent(e) == Len(uevents) < MaxQueue /\ uevents' = Append(uevents, e)

\* A uevent of the battery comes whenever the charger changes,
plug ==
  /\ Alive /\ plugged' = ~ plugged /\ Sent("battery")
  /\ UNCHANGED <<alarms, brightness, flags, phone, pressed, keys, pressedKeys, lost>>

\* and may come at any time; nobody promises the next one.
battery_uevent ==
  /\ Alive /\ Sent("battery")
  /\ UNCHANGED <<alarms, brightness, flags, phone, keys, world, lost>>

other_uevent ==
  /\ Alive /\ Sent("other")
  /\ UNCHANGED <<alarms, brightness, flags, phone, keys, world, lost>>

press ==
  /\ Alive /\ pressedKeys < MaxKeys /\ pressedKeys' = pressedKeys + 1
  /\ \/ ~ pressed /\ pressed' = TRUE /\ keys' = Append(keys, "down")
     \/ keys' = Append(keys, "other") /\ UNCHANGED pressed
  /\ UNCHANGED <<alarms, brightness, flags, phone, plugged, uevents, lost>>

release ==
  /\ Alive /\ pressed /\ pressed' = FALSE /\ keys' = Append(keys, "up")
  /\ UNCHANGED <<alarms, brightness, flags, phone, plugged, uevents, pressedKeys, lost>>
-----------------------------------------------------------------------------
Loop ==
  \/ animation_alarm \/ alarm1 \/ alarm2 \/ power_key_alarm
  \/ power_key_down \/ power_key_up \/ other_key \/ uevent

Next ==
  \/ start \/ Loop
  \/ tick \/ plug \/ battery_uevent \/ other_uevent \/ press \/ release

Spec == Init /\ [][Next]_vars

\* The thread runs and time passes; nothing is assumed of what sends uevents.
FairSpec == Spec /\ WF_vars(start \/ Loop) /\ WF_vars(tick)
-----------------------------------------------------------------------------
\* The list of alarms is in order, so that waiting for its first waits for none too long.
TypeOK ==
  /\ alarms \in Seq([f : Handlers, in : (- MaxLate) .. Dim])
  /\ \A i, j \in DOMAIN alarms : i < j => alarms[i].in <= alarms[j].in
  /\ brightness \in {"off", "dim", "bright"} /\ shutdown \in BOOLEAN /\ powerup \in BOOLEAN
  /\ phone \in {"starting", "on", "off", "restarting"}
  /\ plugged \in BOOLEAN /\ pressed \in BOOLEAN
  /\ keys \in Seq({"down", "up", "other"}) /\ uevents \in Seq({"battery", "other"})
  /\ pressedKeys \in 0 .. MaxKeys /\ lost \in BOOLEAN

\* The power key is down, or its release has not been read.
HeldAsRead == pressed \/ "up" \in ToSet(keys)

\* A lit display has one animation and one alarm that dims it or ends it, whatever
\* keys and uevents came in between, or the program would flicker or never end the
\* display; a dark one has neither.  Only a restart that fails leaves a lit display
\* without alarms, until the release of the key that asked for it is read.
DisplayCycle ==
  phone = "on" =>
    LET ends == Pending("alarm1") \cup Pending("alarm2")
    IN  \/ brightness = "off" /\ ends \cup Pending("animation") = {}
        \/ /\ brightness # "off"
           /\ Cardinality(Pending("animation")) = 1
           /\ Cardinality(ends) = 1
           /\ Pending("alarm1") # {} <=> brightness = "bright"
        \/ brightness # "off" /\ ends \cup Pending("animation") = {} /\ HeldAsRead

\* The restart is due only while the power key, as far as the program has read, is
\* down, once for each press, and after the battery has had the voltage to start.
LongPress ==
  Pending("power_key") # {} =>
    powerup /\ HeldAsRead /\ Cardinality(Pending("power_key")) = 1

\* Of an unplugged charger the program knows, or a uevent that will tell it waits in
\* the socket, unless ev_get has dropped one: through unpluggings and pluggings that
\* cross handlers which look at the charger, and read their uevents later.
UnplugReported ==
  phone = "on" /\ ~ plugged => shutdown \/ "battery" \in ToSet(uevents) \/ lost

\* A phone that is unplugged notices it, also when the display is dark, without any
\* further report, unless ev_get drops the one that told so.
UnplugNoticed ==
  (phone = "on" /\ ~ plugged) ~> (shutdown \/ plugged \/ phone # "on" \/ lost)

\* The display does not stay lit unless the user keeps the power key down.
ScreenGoesDark ==
  (phone = "on" /\ brightness # "off") ~> (brightness = "off" \/ phone # "on" \/ pressed)

\* "When the charger is unplugged the device shall shutdown at once" (main.c:120): a
\* program that has read every event and has no animation to run, so that it looks at
\* the charger no more until another uevent comes, knows it is plugged in, or has
\* decided to shut down.
ShutdownAtOnce ==
  Waiting /\ keys = <<>> /\ uevents = <<>> /\ brightness = "off" /\ ~ plugged => shutdown

=============================================================================
