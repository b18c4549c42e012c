------------------------------- MODULE BpPanic -------------------------------
(***************************************************************************)
(* DefyParts' answer to a panic of the baseband processor: the script that *)
(* panic_daemon's restart runs, BpPanicHandlerService, whose intents come  *)
(* from the script, two alarms and the dialog, and BpPanicReceiver.        *)
(*                                                                         *)
(* Times are in seconds.  A deadline is kept as the time that is left of   *)
(* it; an overdue one is 0.                                                *)
(***************************************************************************)
EXTENDS Integers, Sequences, SequencesExt

CONSTANTS
  RebootTimeout,  \* REBOOT_TIMEOUT
  SnoozeDelay,    \* SNOOZE_DELAY
  UpdateDelay,    \* the time between updates, and where they get more frequent
  Word,           \* the seconds that an int of milliseconds can tell apart
  Jumps,          \* by what the wall clock may be set
  MaxSets,        \* bound: how often it is set
  MaxInbox        \* bound: intents under way

None == -1

ASSUME PanicAssumption ==
  /\ RebootTimeout \in Nat \ {0} /\ SnoozeDelay \in Nat /\ UpdateDelay \in Nat \ {0}
  /\ Word \in Nat \ {0} /\ Jumps \subseteq Int /\ MaxSets \in Nat /\ MaxInbox \in Nat

Actions == {"HANDLE", "REBOOT", "SNOOZE", "DISMISS", "TIMER_UPDATE"}

VARIABLES
  now, sets,       \* the wall clock, and how often it was set
  power,           \* down, boot (until BOOT_COMPLETED) or on
  panicked,        \* the daemon has been stopped after a panic
  inbox,           \* the service's intents, in the order of startService
  mRebootTimeout,  \* the time until it; None is the code's -1
  mTimerUpdate,    \* the time until each alarm
  mPanicHandle,
  sticky,          \* the sticky broadcast of the timeout
  dialog, notification,  \* what the user sees
  notice,          \* need_bppanic_reboot_notice, on flash
  answer,          \* history: open, snooze or dismiss since the last panic
  cause,           \* history: why the phone went down
  noticed          \* history: the reboot notice was shown since the boot

clock   == <<now, sets>>
service == <<mRebootTimeout, mTimerUpdate, mPanicHandle, sticky>>
screen  == <<dialog, notification>>
boots   == <<power, panicked, notice, cause, noticed>>
vars    == <<clock, boots, inbox, service, screen, answer>>

Init ==
  /\ now \in 0 .. Word - 1 /\ sets = 0
  /\ power = "boot" /\ panicked = FALSE /\ notice = FALSE /\ cause = "none" /\ noticed = FALSE
  /\ inbox = <<>>
  /\ mRebootTimeout = None /\ mTimerUpdate = None /\ mPanicHandle = None /\ sticky = None
  /\ dialog = FALSE /\ notification = FALSE
  /\ answer = "none"

-----------------------------------------------------------------------------
(* Time, and the wall clock that all deadlines refer to.                   *)
Later(t, d) == IF t = None THEN None ELSE IF t > d THEN t - d ELSE 0

Advance(d) ==
  /\ now' = (now + d) % Word
  /\ mRebootTimeout' = Later(mRebootTimeout, d)
  /\ mTimerUpdate' = Later(mTimerUpdate, d)
  /\ mPanicHandle' = Later(mPanicHandle, d)
  /\ UNCHANGED <<sticky, boots, inbox, screen, answer>>

\* An alarm goes off, and an intent is served, in the second it is due: both take
\* milliseconds, and a second is what the service counts in.
Prompt == inbox = <<>> /\ mTimerUpdate # 0 /\ mPanicHandle # 0

tick == Prompt /\ Advance(1) /\ UNCHANGED sets

set_clock(d) == sets < MaxSets /\ sets' = sets + 1 /\ Advance(d)

-----------------------------------------------------------------------------
(* What sends intents to the service.                                      *)
Up == power # "down"

startService(action) ==
  /\ Up /\ Len(inbox) < MaxInbox
  /\ inbox' = Append(inbox, action)

\* handle_bp_panic.sh: the daemon is stopped, and am may fail to start the service.
panic ==
  /\ Up /\ ~panicked
  /\ panicked' = TRUE
  /\ startService("HANDLE") \/ UNCHANGED inbox
  /\ UNCHANGED <<clock, power, notice, cause, noticed, service, screen, answer>>

alarm_update ==
  /\ mTimerUpdate = 0 /\ mTimerUpdate' = None
  /\ startService("TIMER_UPDATE")
  /\ UNCHANGED <<clock, boots, mRebootTimeout, mPanicHandle, sticky, screen, answer>>

alarm_handle ==
  /\ mPanicHandle = 0 /\ mPanicHandle' = None
  /\ startService("HANDLE")
  /\ UNCHANGED <<clock, boots, mRebootTimeout, mTimerUpdate, sticky, screen, answer>>

\* BpPanicNotifyActivity: a button, and another way out of the dialog.
onClick(action) ==
  /\ dialog /\ dialog' = FALSE
  /\ startService(action)
  /\ UNCHANGED <<clock, boots, service, notification, answer>>

onPause ==
  /\ dialog /\ dialog' = FALSE
  /\ UNCHANGED <<clock, boots, inbox, service, notification, answer>>

\* The notification opens the dialog again; nothing takes the notification away.
touch ==
  /\ notification /\ ~dialog /\ dialog' = TRUE
  /\ UNCHANGED <<clock, boots, inbox, service, notification, answer>>

-----------------------------------------------------------------------------
(* The service                                                             *)

\* All that does not survive a reboot.
Down(why) ==
  /\ power' = "down" /\ cause' = why
  /\ inbox' = <<>>
  /\ mRebootTimeout' = None /\ mTimerUpdate' = None /\ mPanicHandle' = None /\ sticky' = None
  /\ dialog' = FALSE /\ notification' = FALSE /\ answer' = "none"
  /\ UNCHANGED <<clock, panicked, noticed>>

\* Mutant: the notice is asked for the wrong way round.
doReboot_Swapped(requireNotice) ==
  notice' = ~requireNotice /\ Down(IF requireNotice THEN "auto" ELSE "user")

doReboot(requireNotice) ==
  notice' = requireNotice /\ Down(IF requireNotice THEN "auto" ELSE "user")

Signed(n) == LET m == n % Word IN IF 2 * m >= Word THEN m - Word ELSE m

\* The cast takes all of mRebootTimeout - now, also when mRebootTimeout is -1.
Timeout(deadline) == IF deadline = None THEN Signed(0 - now) ELSE deadline

\* Mutant: the update alarm is not set again.
updateTimeout_Once(deadline) ==
  /\ mRebootTimeout' = deadline /\ sticky' = Timeout(deadline)
  /\ UNCHANGED mTimerUpdate

\* The part of updateTimeout that goes on counting down.
updateTimeout(deadline) ==
  /\ mRebootTimeout' = deadline /\ sticky' = Timeout(deadline)
  /\ mTimerUpdate' = IF Timeout(deadline) <= UpdateDelay THEN 1 ELSE UpdateDelay

\* Mutant: the sticky broadcast stays.
cancelTimeout_KeepsSticky == mRebootTimeout' = None /\ mTimerUpdate' = None /\ UNCHANGED sticky

cancelTimeout == mRebootTimeout' = None /\ mTimerUpdate' = None /\ sticky' = None

Received(action) == Up /\ inbox # <<>> /\ Head(inbox) = action

handle_panic ==
  /\ Received("HANDLE") /\ inbox' = Tail(inbox)
  /\ updateTimeout(RebootTimeout)
  /\ dialog' = TRUE /\ notification' = TRUE
  /\ answer' = "open"
  /\ UNCHANGED <<clock, boots, mPanicHandle>>

reboot == Received("REBOOT") /\ doReboot(FALSE)

\* Mutant: no reminder.
snooze_Forever ==
  /\ Received("SNOOZE") /\ inbox' = Tail(inbox)
  /\ cancelTimeout
  /\ answer' = "snooze"
  /\ UNCHANGED <<clock, boots, mPanicHandle, screen>>

snooze ==
  /\ Received("SNOOZE") /\ inbox' = Tail(inbox)
  /\ cancelTimeout
  /\ mPanicHandle' = SnoozeDelay
  /\ answer' = "snooze"
  /\ UNCHANGED <<clock, boots, screen>>

dismiss ==
  /\ Received("DISMISS") /\ inbox' = Tail(inbox)
  /\ cancelTimeout
  /\ answer' = "dismiss"
  /\ UNCHANGED <<clock, boots, mPanicHandle, screen>>

TimerUpdate(expired) ==
  /\ Received("TIMER_UPDATE")
  /\ IF expired THEN doReboot(TRUE)
     ELSE /\ updateTimeout(mRebootTimeout)
          /\ inbox' = Tail(inbox)
          /\ UNCHANGED <<clock, boots, mPanicHandle, screen, answer>>

\* Mutant: < for <=.
timer_update_Late == TimerUpdate(Timeout(mRebootTimeout) < 0)

timer_update == TimerUpdate(Timeout(mRebootTimeout) <= 0)

serve == handle_panic \/ reboot \/ snooze \/ dismiss \/ timer_update

\* The process, with the dialog and the member variables, dies.  Android starts the
\* service again (START_STICKY) and delivers what is left of the inbox; if that is
\* nothing, it delivers null, on which onStartCommand throws and the process dies again.
killed ==
  /\ Up
  /\ mRebootTimeout' = None /\ dialog' = FALSE
  /\ notification' \in {FALSE, notification}
  /\ UNCHANGED <<clock, boots, inbox, mTimerUpdate, mPanicHandle, sticky, answer>>

-----------------------------------------------------------------------------
(* The phone                                                               *)
power_loss == Up /\ Down("loss") /\ UNCHANGED notice

boot ==
  /\ power = "down" /\ power' = "boot"
  /\ panicked' = FALSE /\ noticed' = FALSE
  /\ UNCHANGED <<clock, notice, cause, inbox, service, screen, answer>>

\* BpPanicReceiver, on BOOT_COMPLETED.
onReceive ==
  /\ power = "boot" /\ power' = "on"
  /\ noticed' = notice /\ notice' = FALSE
  /\ UNCHANGED <<clock, panicked, cause, inbox, service, screen, answer>>

Next ==
  \/ tick \/ \E d \in Jumps : set_clock(d)
  \/ panic \/ alarm_update \/ alarm_handle
  \/ \E action \in {"REBOOT", "SNOOZE", "DISMISS"} : onClick(action)
  \/ onPause \/ touch
  \/ serve \/ killed
  \/ power_loss \/ boot \/ onReceive

Spec == Init /\ [][Next]_vars

\* Time passes, alarms go off, the main thread serves its queue and the phone
\* comes up again, if often enough tried; the user owes nothing.
FairSpec ==
  Spec /\ WF_vars(tick) /\ WF_vars(alarm_update) /\ WF_vars(alarm_handle) /\ WF_vars(serve)
       /\ WF_vars(boot) /\ SF_vars(onReceive)

-----------------------------------------------------------------------------
Times == {None} \cup Nat

\* The shape of the state; nobody is told of a reboot in no time.
TypeOK ==
  /\ now \in 0 .. Word - 1 /\ sets \in 0 .. MaxSets
  /\ power \in {"down", "boot", "on"} /\ panicked \in BOOLEAN
  /\ notice \in BOOLEAN /\ cause \in {"none", "auto", "user", "loss"} /\ noticed \in BOOLEAN
  /\ inbox \in Seq(Actions)
  /\ mRebootTimeout \in Times /\ mTimerUpdate \in Times /\ mPanicHandle \in Times
  /\ sticky \in {None} \cup (Nat \ {0})
  /\ dialog \in BOOLEAN /\ notification \in BOOLEAN
  /\ answer \in {"none", "open", "snooze", "dismiss"}

\* "If no action is selected, the device will reboot in ... seconds": as long as
\* the dialog would say so, an update is due, although the updates, the answers
\* and the panics overtake each other and the service may lose its countdown.
PromiseKept ==
  sticky # None => mTimerUpdate # None \/ \E n \in DOMAIN inbox : inbox[n] = "TIMER_UPDATE"

\* Unless the user answers, the phone reboots, also if the service was killed or
\* the clock was set.
UnansweredReboots == answer = "open" ~> answer # "open"

\* "Remind again later": a snoozed panic comes up again, unless the user answers
\* otherwise, or the same again, or the phone goes down.
SnoozeReminds ==
  answer = "snooze" ~> (answer # "snooze" \/ \E n \in DOMAIN inbox : inbox[n] = "SNOOZE")

\* After a reboot that nobody asked for the user is told why, however often the
\* phone loses its power before; unless the next reboot is asked for.
NoticeGiven == (power = "down" /\ cause = "auto") ~> (noticed \/ cause = "user")

=============================================================================
