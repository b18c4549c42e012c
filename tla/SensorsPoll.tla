----------------------------- MODULE SensorsPoll -----------------------------
(***************************************************************************)
(* libsensors: the thread of the sensor service that calls poll() on the   *)
(* sensors HAL, the binder thread that calls activate(), and the kernel    *)
(* drivers that queue input events on the data files, which are open       *)
(* without O_NONBLOCK.                                                     *)
(*                                                                         *)
(* The drivers are numbered as in mSensors.  KXTF9 reports one sensor, and *)
(* events of Orientation that the HAL has no sensor for; AK8973, the        *)
(* Compass, and ISL29030, where proximity and light share a queue, report  *)
(* several and keep a mask of those with something pending.  AK8973 has an *)
(* event of Temperature pending once that is enabled.  Per sensor an input *)
(* event carries the number of its sample.                                 *)
(***************************************************************************)
EXTENDS InputEventReader, SequencesExt, FiniteSets

CONSTANTS
  Sensors,      \* per driver the sensors it reports, in the order of its bits
  Masked,       \* the drivers with an mPendingMask
  Compass,      \* the number of the driver AK8973
  Temperature,  \* its temperature sensor
  Orientation,  \* KXTF9's events of ABS_MISC, as if they were a sensor's
  Toggled,      \* the sensors the service switches; the others stay on
  Rooms,        \* how many events the service polls for
  MaxSamples,   \* bound: samples of each sensor
  MaxQueue,     \* bound: input events on a data file
  MaxWake       \* bound: bytes in the wake pipe

Drivers   == DOMAIN Sensors
All       == UNION {ToSet(Sensors[d]) : d \in Drivers}
Driver(s) == CHOOSE d \in Drivers : s \in ToSet(Sensors[d])

ASSUME SensorsAssumption ==
  /\ Sensors \in Seq(Seq(All)) /\ Size \in Nat \ {0} /\ Masked \subseteq Drivers /\ Compass \in Masked
  /\ Temperature \in ToSet(Sensors[Compass]) /\ Toggled \subseteq All \ {Orientation}
  /\ Orientation \in All /\ Masked = Drivers \ {Driver(Orientation)}
  /\ \E s \in All : ToSet(Sensors[Driver(Orientation)]) \ {Orientation} = {s}
  /\ \A d, e \in Drivers : d # e => ToSet(Sensors[d]) \cap ToSet(Sensors[e]) = {}
  /\ Rooms \subseteq Nat \ {0} /\ MaxSamples \in [All -> Nat] /\ {MaxQueue, MaxWake} \subseteq Nat

VARIABLES
  file,      \* the input events queued on each data file
  partial,   \* the sensors in the sample a driver has not ended with SYN
  made,      \* the samples each sensor has taken
  reader,    \* mInputReader of each driver
  value,     \* mPendingEvent(s)
  mask,      \* mPendingMask of all drivers
  enabled,   \* mEnabled of all drivers
  pending,   \* AK8973's mHasPendingEvent
  revents,   \* the drivers with POLLIN in mPollFds[i].revents
  wake,      \* bytes in the wake pipe
  pc,        \* where the thread in pollEvents is
  i, count, nbEvents,  \* its variables
  nb,        \* readEvents' numEventReceived
  act,       \* where the thread in activate is, and with what
  got        \* history: the values delivered, per sensor, and those of Orientation dropped

kernel == <<file, partial, made>>
hal    == <<reader, value, mask>>
thread == <<pc, i, count, nbEvents, nb, revents>>
vars   == <<kernel, hal, thread, enabled, pending, wake, act, got>>

NoCall == [at |-> "idle", s |-> Temperature, err |-> FALSE]

Init ==
  /\ file = [d \in Drivers |-> <<>>] /\ partial = [d \in Drivers |-> {}]
  /\ made = [s \in All |-> 0]
  /\ reader = [d \in Drivers |-> NewReader] /\ value = [s \in All |-> 0]
  /\ mask = {} /\ enabled = All \ Toggled /\ pending = FALSE
  /\ revents = {} /\ wake = 0
  /\ pc = "idle" /\ i = 1 /\ count = 0 /\ nbEvents = 0 /\ nb = 0
  /\ act = NoCall /\ got = [s \in All |-> <<>>]

-----------------------------------------------------------------------------
(* The kernel: a sample is an event for each sensor that changed, then SYN. *)

PositionOf(d, s) == CHOOSE k \in DOMAIN Sensors[d] : Sensors[d][k] = s

report(d, s) ==
  /\ s \in enabled /\ made[s] < MaxSamples[s] /\ Len(file[d]) + 1 < MaxQueue
  /\ \A t \in partial[d] : PositionOf(d, t) < PositionOf(d, s)
  /\ made' = [made EXCEPT ![s] = @ + 1]
  /\ partial' = [partial EXCEPT ![d] = @ \cup {s}]
  /\ file' = [file EXCEPT ![d] = Append(@, [type |-> "abs", s |-> s, v |-> made[s] + 1])]
  /\ UNCHANGED <<hal, thread, enabled, pending, wake, act, got>>

sync(d) ==
  /\ partial[d] # {}
  /\ partial' = [partial EXCEPT ![d] = {}]
  /\ file' = [file EXCEPT ![d] = Append(@, [type |-> "syn"])]
  /\ UNCHANGED <<made, hal, thread, enabled, pending, wake, act, got>>

-----------------------------------------------------------------------------
(* activate: a call of enable() of the driver, then the wake message.      *)

\* May enable change mEnabled?  If it fails, by the ioctl or by the setting of the
\* delay after it, it may or may not have; KXTF9 takes being switched off for
\* granted.
Changes(s, on, err) ==
  IF on = (s \in enabled) THEN {FALSE}
  ELSE IF err /\ (on \/ Driver(s) \in Masked) THEN BOOLEAN ELSE {TRUE}

\* enable, up to mEnabled.
activate(s, on, err) ==
  LET change == on # (s \in enabled)
  IN  /\ act.at = "idle" /\ (err => change) /\ (on => wake < MaxWake)
      /\ \E done \in Changes(s, on, err) :
           enabled' = IF ~done THEN enabled ELSE IF on THEN enabled \cup {s} ELSE enabled \ {s}
      /\ act' = IF ~on THEN act
                ELSE [at |-> IF change /\ s = Temperature THEN "pend" ELSE "wake",
                      s |-> s, err |-> err]
      /\ UNCHANGED <<kernel, hal, thread, pending, wake, got>>

\* The end of SensorAK8973::enable, which does not look at err.
set_pending ==
  /\ act.at = "pend"
  /\ pending' = TRUE
  /\ act' = [act EXCEPT !.at = "wake"]
  /\ UNCHANGED <<kernel, hal, thread, enabled, wake, got>>

\* Mutant: no wake message.
send_wake_None ==
  /\ act.at = "wake" /\ act' = NoCall
  /\ UNCHANGED <<kernel, hal, thread, enabled, pending, wake, got>>

send_wake ==
  /\ act.at = "wake"
  /\ wake' = IF act.err THEN wake ELSE wake + 1
  /\ act' = NoCall
  /\ UNCHANGED <<kernel, hal, thread, enabled, pending, got>>

-----------------------------------------------------------------------------
(* pollEvents                                                              *)

pollEvents(room) ==
  /\ pc = "idle"
  /\ pc' = "scan" /\ i' = 1 /\ count' = room /\ nbEvents' = 0
  /\ UNCHANGED <<kernel, hal, nb, revents, enabled, pending, wake, act, got>>

\* What the for loop goes on with, from i: a driver with something to read.
Due == {d \in Drivers : d >= i /\ (d \in revents \/ (d = Compass /\ pending))}

scan ==
  /\ pc = "scan"
  /\ IF count = 0 THEN pc' = "idle" /\ UNCHANGED i
     ELSE IF Due = {} THEN pc' = "poll" /\ UNCHANGED i
     ELSE pc' = "read" /\ i' = CHOOSE d \in Due : \A e \in Due : d <= e
  /\ UNCHANGED <<kernel, hal, count, nbEvents, nb, revents, enabled, pending, wake, act, got>>

\* Mutant: revents is cleared even if there was no room for more.
Counted_Clears(n) ==
  /\ revents' = revents \ {i}
  /\ count' = count - n /\ nbEvents' = nbEvents + n
  /\ nb' = 0 /\ i' = i + 1 /\ pc' = "scan"

\* pollEvents with the n events readEvents has returned.
Counted(n) ==
  /\ revents' = IF n < count THEN revents \ {i} ELSE revents
  /\ count' = count - n /\ nbEvents' = nbEvents + n
  /\ nb' = 0 /\ i' = i + 1 /\ pc' = "scan"

\* readEvents of AK8973 while mHasPendingEvent: one event, of mPendingEvents.
read_pending ==
  /\ pc = "read" /\ i = Compass /\ pending
  /\ pending' = FALSE /\ Counted(1)
  /\ UNCHANGED <<kernel, hal, enabled, wake, act, got>>

\* readEvents: mInputReader.fill; the read waits for an event.
read_fill ==
  LET n == IF reader[i].free < Len(file[i]) THEN reader[i].free ELSE Len(file[i])
  IN  /\ pc = "read" /\ ~(i = Compass /\ pending)
      /\ reader[i].free = 0 \/ file[i] # <<>>
      /\ reader' = [reader EXCEPT ![i] = fill(@, SubSeq(file[i], 1, n))]
      /\ file' = [file EXCEPT ![i] = SubSeq(@, n + 1, Len(@))]
      /\ nb' = 0 /\ pc' = "drain"
      /\ UNCHANGED <<partial, made, value, mask, i, count, nbEvents, revents,
                     enabled, pending, wake, act, got>>

More == available(reader[i]) > 0 /\ count > nb

\* EV_ABS: processEvent, which drops what is of ABS_MISC.
read_abs ==
  LET event == readEvent(reader[i])
  IN  /\ pc = "drain" /\ More /\ event.type = "abs"
      /\ IF event.s = Orientation
         THEN got' = [got EXCEPT ![Orientation] = Append(@, event.v)] /\ UNCHANGED value
         ELSE value' = [value EXCEPT ![event.s] = event.v] /\ UNCHANGED got
      /\ mask' = IF i \in Masked THEN mask \cup {event.s} ELSE mask
      /\ reader' = [reader EXCEPT ![i] = next(@)]
      /\ UNCHANGED <<kernel, thread, enabled, pending, wake, act>>

\* The sensors that the loop over the bits takes from mPendingMask, with room for
\* this many events: those that are switched off take no room.
Pending == mask \cap ToSet(Sensors[i])
Taken(left) ==
  {s \in Pending : Cardinality({t \in Pending \cap enabled :
                                  PositionOf(i, t) < PositionOf(i, s)}) < left}

Deliver(set) == got' = [s \in All |-> IF s \in set THEN Append(got[s], value[s]) ELSE got[s]]

\* EV_SYN of a driver with one sensor: mPendingEvent is delivered, whether the sensor is
\* switched on or not and whatever the SYN ends.
read_syn ==
  /\ pc = "drain" /\ i \notin Masked /\ More /\ readEvent(reader[i]).type = "syn"
  /\ Deliver(ToSet(Sensors[i]) \ {Orientation}) /\ nb' = nb + 1
  /\ reader' = [reader EXCEPT ![i] = next(@)]
  /\ UNCHANGED <<kernel, value, mask, pc, i, count, nbEvents, revents, enabled, pending,
                 wake, act>>

SynOfMasked(taken, done) ==
  /\ pc = "drain" /\ i \in Masked /\ More /\ readEvent(reader[i]).type = "syn"
  /\ mask' = mask \ taken
  /\ Deliver(taken \cap enabled) /\ nb' = nb + Cardinality(taken \cap enabled)
  /\ reader' = IF done THEN [reader EXCEPT ![i] = next(@)] ELSE reader
  /\ UNCHANGED <<kernel, value, pc, i, count, nbEvents, revents, enabled, pending, wake, act>>

\* Mutants: the loop does not stop when the room is used up; SYN is done with
\* even if events of the sample are still to deliver.
read_syn_masked_NoCount == SynOfMasked(Pending, TRUE)
read_syn_masked_Dropped == SynOfMasked(Taken(count - nb), TRUE)

\* EV_SYN of a driver with a mask, which stays at the front of the ring until all of its
\* sample is delivered.
read_syn_masked ==
  LET taken == Taken(count - nb) IN SynOfMasked(taken, Pending \subseteq taken)

\* readEvents returns.
read_done ==
  /\ pc = "drain" /\ ~More
  /\ Counted(nb)
  /\ UNCHANGED <<kernel, hal, enabled, pending, wake, act, got>>

Ready == {d \in Drivers : file[d] # <<>>}

PollWith(consumed) ==
  /\ pc = "poll" /\ (nbEvents > 0 \/ Ready # {} \/ wake > 0)
  /\ revents' = Ready /\ wake' = wake - consumed
  /\ IF Ready = {} /\ wake = 0 THEN pc' = "idle" /\ UNCHANGED i ELSE pc' = "scan" /\ i' = 1
  /\ UNCHANGED <<kernel, hal, count, nbEvents, nb, enabled, pending, act, got>>

\* Mutant: the wake message is left in the pipe.
poll_KeepsMessage == PollWith(0)

\* poll, which waits only if there is nothing to return, and the wake message.
poll == PollWith(IF wake > 0 THEN 1 ELSE 0)

\* A signal ends poll.
poll_failed ==
  /\ pc = "poll" /\ nbEvents = 0 /\ Ready = {} /\ wake = 0
  /\ pc' = "idle"
  /\ UNCHANGED <<kernel, hal, i, count, nbEvents, nb, revents, enabled, pending, wake, act, got>>

-----------------------------------------------------------------------------
Collect ==
  \/ scan \/ read_pending \/ read_fill \/ read_abs \/ read_syn \/ read_syn_masked
  \/ read_done \/ poll

Next ==
  \/ \E d \in Drivers : sync(d) \/ \E s \in ToSet(Sensors[d]) : report(d, s)
  \/ \E s \in Toggled, on, err \in BOOLEAN : activate(s, on, err)
  \/ set_pending \/ send_wake
  \/ \E room \in Rooms : pollEvents(room)
  \/ Collect \/ poll_failed

Spec == Init /\ [][Next]_vars

\* The service polls again and again, and neither thread stops half-way.
FairSpec ==
  /\ Spec
  /\ WF_vars(Collect) /\ WF_vars(\E room \in Rooms : pollEvents(room))
  /\ WF_vars(set_pending \/ send_wake)

-----------------------------------------------------------------------------
Events == {NoEvent, [type |-> "syn"]} \cup [type : {"abs"}, s : All, v : Nat]

\* The shape of the state.
TypeOK ==
  /\ file \in [Drivers -> Seq(Events)] /\ partial \in [Drivers -> SUBSET All]
  /\ \A s \in All : made[s] \in 0 .. MaxSamples[s] /\ value[s] \in 0 .. made[s]
  /\ \A d \in Drivers :
       /\ reader[d].buffer \in [0 .. 2 * Size - 1 -> Events]
       /\ reader[d].head \in 0 .. Size /\ reader[d].curr \in 0 .. Size - 1
       /\ reader[d].free \in 0 .. Size
  /\ mask \subseteq All /\ enabled \subseteq All
  /\ pending \in BOOLEAN /\ revents \subseteq Drivers /\ wake \in 0 .. MaxWake
  /\ pc \in {"idle", "scan", "read", "drain", "poll"}
  /\ i \in 1 .. Len(Sensors) + 1
  /\ act.at \in {"idle", "pend", "wake"}

\* Nothing is stored behind the buffer the service passed: what a driver adds
\* fits in the room that is left, however the events of a sample fall.
RoomRespected == pc = "drain" => nb <= count

\* The input events a driver has in its ring and in its data file.
Queue(d) == Held(reader[d]) \o file[d]

\* The input events of a sensor.
Abs(s, events) == {k \in DOMAIN events : events[k].type = "abs" /\ events[k].s = s}

\* The samples of a sensor in these events are m and up to n, each once and in order.
Numbered(s, events, m, n) ==
  /\ m <= n + 1
  /\ {events[k].v : k \in Abs(s, events)} = m .. n
  /\ \A j, k \in Abs(s, events) : j < k => events[j].v < events[k].v

\* The value delivered last; 0 if there is none, which is also what mPendingEvent has
\* before the first.
Latest(s) == IF got[s] = <<>> THEN 0 ELSE got[s][Len(got[s])]

\* A sample of a sensor has left the ring and is not delivered.
Undelivered(s) == IF Driver(s) \in Masked THEN s \in mask ELSE value[s] > Latest(s)

\* How many deliveries of it brought nothing new at most: as many as it was made to
\* deliver by the SYN of events dropped.
Repeats(s) == IF Driver(s) \in Masked THEN 0 ELSE Len(got[Orientation])

\* A sensor that stays switched on has each of its samples delivered in order and
\* none skipped, through short polls, a ring that wraps and a sample that is delivered
\* in two polls: what is delivered, held and queued is all it has measured.  And
\* none is delivered twice, except that KXTF9's is again for an orientation event,
\* although SensorKXTF9.cpp:153 says that it drops these.
SamplesInOrder ==
  \A s \in All \ (Toggled \cup {Orientation}) :
    /\ \A k \in DOMAIN got[s] : got[s][k] - (IF k = 1 THEN 0 ELSE got[s][k - 1]) \in {0, 1}
    /\ Len(got[s]) <= Latest(s) + Repeats(s)
    /\ Undelivered(s) => value[s] = Latest(s) + 1
    /\ Numbered(s, Queue(Driver(s)), Latest(s) + (IF Undelivered(s) THEN 2 ELSE 1), made[s])

\* A driver other than AK8973 that holds events in its ring has POLLIN noted in revents,
\* so that the next pollEvents reads it though nothing more comes: revents is not
\* cleared before the ring is empty, and poll() does not run until it is.  AK8973 is
\* left out because nusensors.cpp:201, "no more data for this sensor", is not so of it:
\* it returns its pending event without a look at the ring, and the note is cleared.
HeldIsDue == \A d \in Drivers \ {Compass} : available(reader[d]) > 0 => d \in revents

\* The thread is in read() on a data file with nothing to read.
BlockedInRead ==
  pc = "read" /\ ~(i = Compass /\ pending) /\ file[i] = <<>> /\ reader[i].free > 0

\* Switching the temperature on has its event reported though no driver
\* measures anything, because activate wakes the thread in poll(); unless the
\* thread waits in read() for good.
ActivationReported ==
  (act.at = "wake" /\ act.s = Temperature /\ ~act.err /\ pending)
     ~> (~pending \/ []BlockedInRead)

\* pollEvents returns what it has collected, whatever the wake pipe holds, unless
\* sensors are switched on again and again while it looks.
EventsReturned ==
  nbEvents > 0 ~> (pc = "idle" \/ []BlockedInRead \/ []<>(act.at = "wake"))

=============================================================================
