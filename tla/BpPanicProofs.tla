----------------------------- MODULE BpPanicProofs ---------------------------
(***************************************************************************)
(* For all delays, any clock and any number of intents under way: while    *)
(* the sticky broadcast announces a reboot, an update of it is due.        *)
(***************************************************************************)
EXTENDS BpPanic, TLAPS

LEMMA LaterTime == ASSUME NEW t \in Times, NEW d \in Int PROVE Later(t, d) \in Times
BY DEF Times, Later, None

LEMMA SignedInt == ASSUME NEW n \in Int PROVE n % Word \in 0 .. Word - 1 /\ Signed(n) \in Int
<1>1. n % Word \in 0 .. Word - 1
  BY PanicAssumption
<1> QED
  BY <1>1, PanicAssumption DEF Signed

LEMMA InitTypeOK == Init => TypeOK
<1> SUFFICES ASSUME Init PROVE TypeOK
  OBVIOUS
<1>1. sets \in 0 .. MaxSets /\ inbox \in Seq(Actions)
  BY PanicAssumption DEF Init
<1>2. None \in Times /\ None \in {None} \cup (Nat \ {0})
  BY DEF Times
<1> QED
  BY <1>1, <1>2, Zenon DEF Init, TypeOK

LEMMA AdvanceTypeOK ==
  ASSUME TypeOK, NEW d \in Int, Advance(d), sets' \in 0 .. MaxSets PROVE TypeOK'
<1>1. now' \in 0 .. Word - 1
  BY SignedInt DEF Advance, TypeOK
<1>2. mRebootTimeout' \in Times /\ mTimerUpdate' \in Times /\ mPanicHandle' \in Times
  BY LaterTime DEF Advance, TypeOK
<1> QED
  BY <1>1, <1>2 DEF Advance, TypeOK, boots, screen

LEMMA DownTypeOK ==
  ASSUME TypeOK, NEW why \in {"auto", "user", "loss"}, Down(why), notice' \in BOOLEAN
  PROVE  TypeOK'
<1>1. inbox' \in Seq(Actions) /\ cause' \in {"none", "auto", "user", "loss"}
  BY DEF Down
<1>2. None \in Times /\ None \in {None} \cup (Nat \ {0})
  BY DEF Times
<1> QED
  BY <1>1, <1>2, Zenon DEF Down, TypeOK, clock

LEMMA ReceivedTypeOK ==
  ASSUME TypeOK, NEW action, Received(action)
  PROVE  Tail(inbox) \in Seq(Actions)
BY DEF Received, TypeOK

LEMMA SentTypeOK ==
  ASSUME TypeOK, NEW action \in Actions, startService(action) PROVE inbox' \in Seq(Actions)
BY DEF startService, TypeOK

LEMMA NextTypeOK == TypeOK /\ [Next]_vars => TypeOK'
<1> SUFFICES ASSUME TypeOK, [Next]_vars PROVE TypeOK'
  OBVIOUS
<1>1. CASE tick
  BY <1>1, AdvanceTypeOK DEF tick, TypeOK
<1>2. ASSUME NEW d \in Jumps, set_clock(d) PROVE TypeOK'
  BY <1>2, AdvanceTypeOK, PanicAssumption DEF set_clock, TypeOK
<1>3. CASE panic
  <2>1. inbox' \in Seq(Actions)
    BY <1>3, SentTypeOK DEF panic, Actions, TypeOK
  <2> QED
    BY <1>3, <2>1 DEF panic, TypeOK, clock, service, screen
<1>4. CASE alarm_update
  <2>1. inbox' \in Seq(Actions)
    BY <1>4, SentTypeOK DEF alarm_update, Actions
  <2> QED
    BY <1>4, <2>1 DEF alarm_update, TypeOK, Times, clock, boots, screen
<1>5. CASE alarm_handle
  <2>1. inbox' \in Seq(Actions)
    BY <1>5, SentTypeOK DEF alarm_handle, Actions
  <2> QED
    BY <1>5, <2>1 DEF alarm_handle, TypeOK, Times, clock, boots, screen
<1>6. ASSUME NEW action \in {"REBOOT", "SNOOZE", "DISMISS"}, onClick(action) PROVE TypeOK'
  <2>1. inbox' \in Seq(Actions)
    BY <1>6, SentTypeOK DEF onClick, Actions
  <2> QED
    BY <1>6, <2>1 DEF onClick, TypeOK, clock, boots, service
<1>7. CASE onPause \/ touch
  BY <1>7 DEF onPause, touch, TypeOK, clock, boots, service
<1>8. CASE handle_panic
  <2>1. inbox' \in Seq(Actions)
    BY <1>8, ReceivedTypeOK DEF handle_panic
  <2>2. mRebootTimeout' = RebootTimeout /\ sticky' = RebootTimeout /\ mTimerUpdate' \in Nat
    BY <1>8, PanicAssumption DEF handle_panic, updateTimeout, Timeout, None
  <2> QED
    BY <1>8, <2>1, <2>2, PanicAssumption DEF handle_panic, TypeOK, Times, clock, boots
<1>9. CASE reboot \/ power_loss
  BY <1>9, DownTypeOK DEF reboot, doReboot, power_loss, TypeOK
<1>10. CASE snooze \/ dismiss
  <2>1. inbox' \in Seq(Actions)
    BY <1>10, ReceivedTypeOK DEF snooze, dismiss
  <2> QED
    BY <1>10, <2>1, PanicAssumption
    DEF snooze, dismiss, cancelTimeout, TypeOK, Times, clock, boots, screen, None
<1>11. CASE timer_update
  <2>1. CASE Timeout(mRebootTimeout) <= 0
    BY <1>11, <2>1, DownTypeOK DEF timer_update, TimerUpdate, doReboot
  <2>2. CASE ~ (Timeout(mRebootTimeout) <= 0)
    <3>1. inbox' \in Seq(Actions)
      BY <1>11, <2>2, ReceivedTypeOK DEF timer_update, TimerUpdate
    <3>2. Timeout(mRebootTimeout) \in Int
      BY SignedInt DEF Timeout, TypeOK, Times, None
    <3>3. sticky' \in Nat \ {0} /\ mRebootTimeout' = mRebootTimeout /\ mTimerUpdate' \in Nat
      BY <1>11, <2>2, <3>2, PanicAssumption DEF timer_update, TimerUpdate, updateTimeout
    <3> QED
      BY <1>11, <2>2, <3>1, <3>3
      DEF timer_update, TimerUpdate, TypeOK, Times, clock, boots, screen
  <2> QED
    BY <2>1, <2>2
<1>12. CASE killed
  <2>1. mRebootTimeout' \in Times /\ dialog' \in BOOLEAN /\ notification' \in BOOLEAN
    BY <1>12, Zenon DEF killed, TypeOK, Times
  <2> QED
    BY <1>12, <2>1 DEF killed, TypeOK, clock, boots
<1>13. CASE boot \/ onReceive
  BY <1>13 DEF boot, onReceive, TypeOK, clock, service, screen
<1>14. CASE UNCHANGED vars
  BY <1>14 DEF vars, TypeOK, clock, boots, service, screen
<1> QED
  BY <1>1, <1>2, <1>3, <1>4, <1>5, <1>6, <1>7, <1>8, <1>9, <1>10, <1>11, <1>12, <1>13, <1>14
  DEF Next, serve

\* The variables of the service and of its alarms keep their types.
THEOREM TypesHold == Spec => []TypeOK
BY InitTypeOK, NextTypeOK, PTL DEF Spec

-----------------------------------------------------------------------------
Queued(box, action) == \E n \in DOMAIN box : box[n] = action

LEMMA SentQueued ==
  ASSUME NEW box \in Seq(Actions), NEW action \in Actions
  PROVE  /\ Queued(Append(box, action), action)
         /\ \A other : Queued(box, other) => Queued(Append(box, action), other)
<1>1. Append(box, action)[Len(box) + 1] = action
  OBVIOUS
<1>2. \A n \in DOMAIN box : n \in DOMAIN Append(box, action) /\ Append(box, action)[n] = box[n]
  OBVIOUS
<1> QED
  BY <1>1, <1>2 DEF Queued

LEMMA RestQueued ==
  ASSUME NEW box \in Seq(Actions), box # <<>>, NEW other, other # Head(box), Queued(box, other)
  PROVE  Queued(Tail(box), other)
<1>1. PICK n \in DOMAIN box : box[n] = other
  BY DEF Queued
<1>2. n # 1
  BY <1>1
<1>3. n - 1 \in DOMAIN Tail(box) /\ Tail(box)[n - 1] = other
  BY <1>1, <1>2
<1> QED
  BY <1>3 DEF Queued

LEMMA LaterArmed == ASSUME NEW t \in Times, t # None, NEW d \in Int PROVE Later(t, d) # None
BY DEF Times, Later, None

LEMMA NextPromise == TypeOK /\ PromiseKept /\ [Next]_vars => PromiseKept'
<1> DEFINE Due == mTimerUpdate # None \/ Queued(inbox, "TIMER_UPDATE")
<1> SUFFICES ASSUME TypeOK, PromiseKept, [Next]_vars, sticky' # None PROVE Due'
  BY DEF PromiseKept, Queued
<1>0. sticky # None => Due
  BY DEF PromiseKept, Queued
<1>1. ASSUME NEW d \in Int, Advance(d) PROVE Due'
  <2>1. mTimerUpdate # None => mTimerUpdate' # None
    BY <1>1, LaterArmed DEF Advance, TypeOK, Times
  <2> QED
    BY <1>0, <1>1, <2>1 DEF Advance
<1>2. ASSUME NEW action \in Actions, inbox' = Append(inbox, action), sticky' = sticky,
             mTimerUpdate' = mTimerUpdate
      PROVE  Due'
  BY <1>0, <1>2, SentQueued DEF TypeOK
<1>3. ASSUME inbox' = inbox, sticky' = sticky, mTimerUpdate' = mTimerUpdate PROVE Due'
  BY <1>0, <1>3
<1>4. CASE panic
  BY <1>2, <1>3, <1>4 DEF panic, startService, Actions, service
<1>5. CASE alarm_update
  BY <1>5, SentQueued DEF alarm_update, startService, Actions, TypeOK
<1>6. CASE alarm_handle
  BY <1>2, <1>6 DEF alarm_handle, startService, Actions
<1>7. ASSUME NEW action \in {"REBOOT", "SNOOZE", "DISMISS"}, onClick(action) PROVE Due'
  BY <1>2, <1>7 DEF onClick, startService, Actions, service
<1>8. CASE onPause \/ touch \/ killed \/ boot \/ onReceive \/ UNCHANGED vars
  BY <1>3, <1>8 DEF onPause, touch, killed, boot, onReceive, vars, service
<1>9. CASE handle_panic
  BY <1>9, PanicAssumption DEF handle_panic, updateTimeout, None
<1>10. CASE reboot \/ power_loss
  BY <1>10 DEF reboot, doReboot, power_loss, Down
<1>11. CASE snooze \/ dismiss
  BY <1>11 DEF snooze, dismiss, cancelTimeout
<1>12. CASE timer_update
  BY <1>12, PanicAssumption DEF timer_update, TimerUpdate, updateTimeout, doReboot, Down, None
<1>13. CASE tick
  BY <1>1, <1>13 DEF tick
<1>14. ASSUME NEW d \in Jumps, set_clock(d) PROVE Due'
  BY <1>1, <1>14, PanicAssumption DEF set_clock
<1> QED
  BY <1>4, <1>5, <1>6, <1>7, <1>8, <1>9, <1>10, <1>11, <1>12, <1>13, <1>14 DEF Next, serve

\* While the dialog would announce a reboot there is an update alarm, or its
\* intent, that renews the announcement, carries it out or was overtaken by the
\* answer: no order of panics, answers, alarms and deaths of the service leaves
\* an announcement that nobody will look at again.
THEOREM AnnouncedRebootIsDue == Spec => []PromiseKept
<1>1. Init => PromiseKept
  BY DEF Init, PromiseKept
<1> QED
  BY <1>1, NextPromise, TypesHold, PTL DEF Spec

=============================================================================
