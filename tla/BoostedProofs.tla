---------------------------- MODULE BoostedProofs ----------------------------
(***************************************************************************)
(* For every frequency table, policy and tunables: while the calls of the   *)
(* core, of early suspend and of the work do not overlap, a CPU below its   *)
(* maximal frequency is watched, and a stopped governor is quiet.           *)
(***************************************************************************)
EXTENDS Boosted, TLAPS

LEMMA MaxMinIn ==
  ASSUME NEW S \in SUBSET Freqs, S # {}
  PROVE  Max(S) \in S /\ Min(S) \in S
<1>1. PICK lo \in S, hi \in S : \A f \in S : lo <= f /\ f <= hi
  BY TableAssumption
<1>2. \A f \in S : hi >= f
  BY <1>1, BoostedAssumption
<1> QED
  BY <1>1, <1>2 DEF Max, Min

LEMMA FreqsInt == \A f \in Freqs : f \in Int /\ 0 < f
BY BoostedAssumption

LEMMA LimitsInt ==
  ASSUME NEW p \in Limits
  PROVE  /\ p.min \in Freqs /\ p.max \in Freqs /\ p.min <= p.max
         /\ p.min \in Int /\ p.max \in Int /\ 0 < p.min /\ 0 < p.max
<1>1. p.min \in Freqs /\ p.max \in Freqs /\ p.min <= p.max
  BY BoostedAssumption
<1> QED
  BY <1>1, FreqsInt

LEMMA TableTargetIn ==
  ASSUME policy \in Limits, NEW f \in Int, NEW rel
  PROVE  TableTarget(f, rel) \in Freqs
<1> DEFINE fit   == {g \in Freqs : policy.min <= g /\ g <= policy.max}
           below == {g \in fit : g <= f}
           above == {g \in fit : g >= f}
<1>1. policy.min \in fit
  BY LimitsInt
<1>2. policy.min \in Int
  BY LimitsInt
<1>3. above = {} => below # {}
  <2>1. policy.min <= f \/ policy.min >= f
    BY <1>2
  <2> QED
    BY <1>1, <2>1
<1>4. below # {} => Max(below) \in Freqs
  BY MaxMinIn
<1>5. above # {} => Min(above) \in Freqs
  BY MaxMinIn
<1> QED
  BY <1>3, <1>4, <1>5 DEF TableTarget

LEMMA ValidFreq ==
  ASSUME policy \in Limits, NEW f \in Int
  PROVE  /\ validate_freq(f) \in Int
         /\ f \in Freqs => validate_freq(f) \in Freqs
         /\ policy.min <= validate_freq(f) /\ validate_freq(f) <= policy.max
BY LimitsInt DEF validate_freq, Clamp

LEMMA TargetIn ==
  ASSUME policy \in Limits, NEW new \in Int, NEW old \in Int, NEW rel
  PROVE  target_freq(new, old, rel) \in Freqs \cup {0}
<1>1. validate_freq(new) \in Int
  BY ValidFreq
<1>2. \A r : TableTarget(validate_freq(new), r) \in Freqs
  BY <1>1, TableTargetIn
<1> QED
  BY <1>2 DEF target_freq

LEMMA IdealIn ==
  ASSUME NEW p \in Limits, NEW t \in Tunables, NEW s \in BOOLEAN
  PROVE  IdealSpeed(s, t, p) \in Nat
<1>1. t.sleep \in Nat /\ t.awake \in Nat
  BY BoostedAssumption
<1> QED
  BY <1>1, LimitsInt DEF IdealSpeed, Clamp

LEMMA AskedInt ==
  ASSUME TypeOK, NEW ask \in Asked PROVE ask[1] \in Int
<1>1. policy.max \in Int
  BY LimitsInt DEF TypeOK
<1>2. tun.up \in Int /\ tun.down \in Int /\ ideal \in Int
  BY BoostedAssumption DEF TypeOK
<1>3. old_freq \in Int
  BY BoostedAssumption DEF TypeOK
<1> QED
  BY <1>1, <1>2, <1>3 DEF Asked
-----------------------------------------------------------------------------
\* Where the instances of the work and the caller of the governor can be.
Instances ==
  /\ queued # "none" => mask /\ queued = last
  /\ mask => queued # "none"
  /\ \A w \in Workers : wpc[w] = "jump" => last = w /\ queued = "none"
  /\ gpc = "clear" => queued = "none" /\ \A w \in Workers : wpc[w] = "none"

Callers ==
  /\ gpc # "none" => governed
  /\ governed /\ gpc \in {"none", "limits"} => enable
  /\ spc # "none" => enable /\ gpc = "none"

\* A timer of a governor in office samples; an instance that asked for no less than
\* the maximal frequency has got it.
Samples == governed /\ timer => sample # "never"

Jumped ==
  \A w \in Workers : wpc[w] = "rearm" /\ goal[w] >= policy.max => cur = policy.max

IInv == TypeOK /\ Instances /\ Callers /\ Samples /\ Jumped /\ Watched /\ QuietAfterStop

LEMMA DriverTarget ==
  ASSUME TypeOK, NEW f \in Freqs \cup {0}, driver_target(f)
  PROVE  cur' \in Freqs /\ cur' \in Int
<1>1. policy.min \in Freqs /\ policy.max \in Freqs /\ cur' = validate_freq(f)
  BY LimitsInt DEF TypeOK, driver_target
<1> QED
  BY <1>1, FreqsInt DEF validate_freq, Clamp

-----------------------------------------------------------------------------
\* TypeOK in two parts: the provers differ in what they do with Boolean values.
Flags ==
  /\ governed \in BOOLEAN /\ enable \in BOOLEAN /\ hooked \in BOOLEAN
  /\ timer \in BOOLEAN /\ mask \in BOOLEAN /\ suspended \in BOOLEAN

Frequencies ==
  /\ policy \in Limits /\ cur \in Freqs /\ tun \in Tunables
  /\ active \in Int /\ ideal \in Nat /\ old_freq \in Freqs \cup {0}
  /\ goal \in [Workers -> Freqs \cup {0}]
  /\ events \in 0 .. MaxEvents

Places ==
  /\ gpc \in {"none", "limits", "flush", "clear"} /\ spc \in {"none", "jump", "rearm"}
  /\ ramp_dir \in {-1, 0, 1} /\ sample \in {"never", "busy", "idled"}
  /\ queued \in Workers \cup {"none"} /\ last \in Workers
  /\ wpc \in [Workers -> {"none", "jump", "rearm"}]
  /\ cpu \in {"idle", "awake", "load"}

LEMMA Parts == TypeOK <=> Flags /\ Frequencies /\ Places
BY DEF TypeOK, Flags, Frequencies, Places

LEMMA InitTypeOK == Init => TypeOK
<1>1. Init => Flags
  BY Zenon DEF Init, Flags
<1>2. Init => Frequencies
  BY BoostedAssumption DEF Init, Frequencies
<1>3. Init => Places
  BY DEF Init, Places, Workers
<1> QED
  BY <1>1, <1>2, <1>3, Parts

LEMMA NextFlags == TypeOK /\ [Next]_vars => Flags'
<1> SUFFICES ASSUME Flags, [Next]_vars PROVE Flags'
  BY Parts
<1> USE DEF Flags, core, info, tmr, work
<1>1. CASE timer_stopped \/ timer_retry
  BY <1>1, Zenon DEF timer_stopped, timer_retry, reset_timer
<1>2. CASE cpufreq_boosted_timer
  <2>1. timer' \in BOOLEAN /\ mask' \in BOOLEAN
    BY <1>2, Zenon DEF cpufreq_boosted_timer, queue_work, reset_timer
  <2> QED
    BY <1>2, <2>1, Zenon DEF cpufreq_boosted_timer
<1>3. CASE idle_enter \/ idle_return \/ tasks
  <2>1. timer' \in BOOLEAN
    BY <1>3, Zenon DEF idle_enter, idle_return, reset_timer, tasks
  <2> QED
    BY <1>3, <2>1, Zenon DEF idle_enter, idle_return, tasks
<1>4. ASSUME NEW w \in Workers, work_take(w) \/ work_jump(w) \/ work_rearm(w) PROVE Flags'
  <2>1. timer' \in BOOLEAN /\ mask' \in BOOLEAN
    BY <1>4, Zenon DEF work_take, work_jump, work_rearm, reset_timer
  <2> QED
    BY <1>4, <2>1, Zenon DEF work_take, work_jump, work_rearm
<1>5. CASE gov_start
  <2>1. timer' \in BOOLEAN /\ governed' \in BOOLEAN /\ hooked' \in BOOLEAN
    BY <1>5, Zenon DEF gov_start, ResetBelowMax, reset_timer
  <2> QED
    BY <1>5, <2>1, Zenon DEF gov_start
<1>6. CASE set_policy \/ other_governor \/ store
  BY <1>6, Zenon DEF set_policy, other_governor, store
<1>7. CASE gov_limits
  <2>1. timer' \in BOOLEAN
    BY <1>7, Zenon DEF gov_limits, ResetBelowMax, reset_timer
  <2> QED
    BY <1>7, <2>1, Zenon DEF gov_limits
<1>8. CASE gov_stop \/ flush_work \/ gov_stopped
  BY <1>8, Zenon DEF gov_stop, flush_work, gov_stopped
<1>9. CASE early_suspend \/ late_resume \/ resume_jump \/ suspend_rearm
  BY <1>9, Zenon DEF early_suspend, late_resume, resume_jump, suspend_rearm, reset_timer
<1>10. CASE UNCHANGED vars
  BY <1>10, Zenon DEF vars
<1> QED
  BY <1>1, <1>2, <1>3, <1>4, <1>5, <1>6, <1>7, <1>8, <1>9, <1>10 DEF Next, Steps

LEMMA NextFrequencies == TypeOK /\ [Next]_vars => Frequencies'
<1> SUFFICES ASSUME TypeOK, [Next]_vars PROVE Frequencies'
  OBVIOUS
<1> USE DEF Frequencies, core, info, tmr, work
<1>0. Frequencies /\ suspended \in BOOLEAN
  BY Parts DEF TypeOK
<1>1. ASSUME Event PROVE events' \in 0 .. MaxEvents
  BY <1>0, <1>1, BoostedAssumption DEF Event
<1>2. CASE timer_stopped \/ timer_retry \/ cpufreq_boosted_timer
  BY <1>0, <1>2 DEF timer_stopped, timer_retry, cpufreq_boosted_timer
<1>3. CASE idle_enter \/ idle_return \/ tasks
  BY <1>0, <1>3 DEF idle_enter, idle_return, tasks
<1>4. ASSUME NEW w \in Workers, work_take(w) PROVE Frequencies'
  <2>1. goal' \in [Workers -> Freqs \cup {0}]
    <3>1. CASE mask
      <4>1. PICK ask \in Asked :
              goal' = [goal EXCEPT ![w] = target_freq(ask[1], old_freq, ask[2])]
        BY <1>4, <3>1 DEF work_take
      <4>2. old_freq \in Int
        BY <1>0, BoostedAssumption
      <4>3. target_freq(ask[1], old_freq, ask[2]) \in Freqs \cup {0}
        BY <1>0, <4>2, AskedInt, TargetIn
      <4> QED
        BY <1>0, <4>1, <4>3
    <3> QED
      BY <1>0, <1>4, <3>1 DEF work_take
  <2> QED
    BY <1>0, <1>4, <2>1 DEF work_take
<1>5. ASSUME NEW w \in Workers, work_jump(w) PROVE Frequencies'
  <2>1. goal[w] \in Freqs \cup {0}
    BY <1>0
  <2>2. cur' \in Freqs
    BY <1>5, <2>1, DriverTarget DEF work_jump
  <2> QED
    BY <1>0, <1>5, <2>2 DEF work_jump
<1>6. ASSUME NEW w \in Workers, work_rearm(w) PROVE Frequencies'
  BY <1>0, <1>6 DEF work_rearm
<1>7. CASE gov_start
  BY <1>0, <1>1, <1>7, IdealIn DEF gov_start
<1>8. CASE set_policy \/ gov_stop
  BY <1>0, <1>1, <1>8 DEF set_policy, gov_stop
<1>9. CASE gov_limits
  <2>1. cur' \in Freqs
    BY <1>0, <1>9, DriverTarget DEF gov_limits
  <2> QED
    BY <1>0, <1>9, <2>1, IdealIn DEF gov_limits
<1>10. CASE flush_work \/ gov_stopped
  BY <1>0, <1>10 DEF flush_work, gov_stopped
<1>11. CASE other_governor \/ store
  BY <1>0, <1>1, <1>11, IdealIn DEF other_governor, store
<1>12. CASE early_suspend
  BY <1>0, <1>1, <1>12, IdealIn DEF early_suspend
<1>13. CASE late_resume
  BY <1>0, <1>1, <1>13, IdealIn DEF late_resume
<1>14. CASE resume_jump
  <2>1. tun.wakeup \in Int
    BY <1>0, BoostedAssumption
  <2>2. TableTarget(validate_freq(tun.wakeup), "L") \in Freqs
    BY <1>0, <2>1, ValidFreq, TableTargetIn
  <2>3. cur' \in Freqs
    BY <1>14, <2>2, DriverTarget DEF resume_jump
  <2> QED
    BY <1>0, <1>14, <2>3 DEF resume_jump
<1>15. CASE suspend_rearm \/ UNCHANGED vars
  BY <1>0, <1>15 DEF suspend_rearm, vars
<1> QED
  BY <1>2, <1>3, <1>4, <1>5, <1>6, <1>7, <1>8, <1>9, <1>10, <1>11, <1>12, <1>13, <1>14, <1>15
  DEF Next, Steps

LEMMA NextPlaces == TypeOK /\ [Next]_vars => Places'
<1> SUFFICES ASSUME Places, [Next]_vars PROVE Places'
  BY Parts
<1> USE DEF Places, Workers, core, info, tmr, work
<1>1. CASE timer_stopped \/ timer_retry
  BY <1>1 DEF timer_stopped, timer_retry, reset_timer
<1>2. CASE cpufreq_boosted_timer
  BY <1>2 DEF cpufreq_boosted_timer, queue_work, reset_timer
<1>3. CASE idle_enter \/ idle_return \/ tasks
  BY <1>3 DEF idle_enter, Idled, idle_return, reset_timer, tasks
<1>4. ASSUME NEW w \in Workers, work_take(w) \/ work_jump(w) \/ work_rearm(w) PROVE Places'
  BY <1>4 DEF work_take, Decided, work_jump, work_rearm, reset_timer
<1>5. CASE gov_start \/ gov_limits
  BY <1>5 DEF gov_start, gov_limits, ResetBelowMax, reset_timer
<1>6. CASE set_policy \/ other_governor \/ store
  BY <1>6 DEF set_policy, other_governor, store
<1>7. CASE gov_stop \/ flush_work \/ gov_stopped
  BY <1>7 DEF gov_stop, flush_work, gov_stopped
<1>8. CASE early_suspend \/ late_resume \/ resume_jump \/ suspend_rearm
  BY <1>8 DEF early_suspend, late_resume, resume_jump, suspend_rearm, reset_timer
<1>9. CASE UNCHANGED vars
  BY <1>9 DEF vars
<1> QED
  BY <1>1, <1>2, <1>3, <1>4, <1>5, <1>6, <1>7, <1>8, <1>9 DEF Next, Steps

\* The state of the governor keeps to its types: it only ever asks for frequencies
\* of the table, whatever the table, the policy and the tunables.
THEOREM TypeCorrect == Spec => []TypeOK
<1>1. TypeOK /\ [Next]_vars => TypeOK'
  <2>1. Flags' /\ Frequencies' /\ Places' => TypeOK'
    BY DEF TypeOK, Flags, Frequencies, Places
  <2> QED
    BY <2>1, NextFlags, NextFrequencies, NextPlaces
<1> QED
  BY <1>1, InitTypeOK, PTL DEF Spec
-----------------------------------------------------------------------------
LEMMA InitIInv == Init => IInv
<1> SUFFICES ASSUME Init PROVE IInv
  OBVIOUS
<1>1. TypeOK
  BY InitTypeOK
<1>2. Instances /\ Callers /\ Samples
  BY DEF Init, Instances, Callers, Samples
<1>3. Jumped /\ Watched /\ QuietAfterStop
  BY DEF Init, Jumped, Watched, Rules, QuietAfterStop
<1> QED
  BY <1>1, <1>2, <1>3 DEF IInv

LEMMA NextInstances == Overlaps = {} /\ IInv /\ [Next]_vars => Instances'
<1> SUFFICES ASSUME Overlaps = {}, IInv, [Next]_vars PROVE Instances'
  OBVIOUS
<1> USE DEF Instances, Workers, core, info, tmr, work
<1>0. Instances /\ Places
  BY Parts DEF IInv
<1>1. CASE timer_stopped \/ timer_retry
  BY <1>0, <1>1 DEF timer_stopped, timer_retry
<1>2. CASE cpufreq_boosted_timer
  BY <1>0, <1>2 DEF cpufreq_boosted_timer, queue_work, Fires
<1>3. CASE idle_enter \/ idle_return \/ tasks
  BY <1>0, <1>3 DEF idle_enter, idle_return, tasks
<1>4. ASSUME NEW w \in Workers, work_take(w) PROVE Instances'
  BY <1>0, <1>4 DEF work_take, Decided, ThreadRuns, Places
<1>5. ASSUME NEW w \in Workers, work_jump(w) \/ work_rearm(w) PROVE Instances'
  BY <1>0, <1>5 DEF work_jump, work_rearm, Places
<1>6. CASE gov_start \/ set_policy \/ other_governor \/ store
  BY <1>0, <1>6 DEF gov_start, set_policy, other_governor, store
<1>7. CASE gov_limits \/ gov_stop \/ gov_stopped
  BY <1>0, <1>7 DEF gov_limits, gov_stop, gov_stopped
<1>8. CASE flush_work
  BY <1>0, <1>8 DEF flush_work, ThreadRuns, Places
<1>9. CASE early_suspend \/ late_resume \/ resume_jump \/ suspend_rearm
  <2>1. UNCHANGED <<gpc, work>>
    BY <1>9 DEF early_suspend, late_resume, resume_jump, suspend_rearm
  <2> QED
    BY <1>0, <2>1, Zenon
<1>10. CASE UNCHANGED vars
  BY <1>0, <1>10, Zenon DEF vars
<1> QED
  BY <1>1, <1>2, <1>3, <1>4, <1>5, <1>6, <1>7, <1>8, <1>9, <1>10 DEF Next, Steps

LEMMA NextCallers == Overlaps = {} /\ IInv /\ [Next]_vars => Callers'
<1> SUFFICES ASSUME Overlaps = {}, IInv, [Next]_vars PROVE Callers'
  OBVIOUS
<1> USE DEF Callers, core, info, tmr, work
<1>0. Callers
  BY DEF IInv
<1>1. CASE timer_stopped \/ timer_retry \/ cpufreq_boosted_timer
  BY <1>0, <1>1 DEF timer_stopped, timer_retry, cpufreq_boosted_timer
<1>2. CASE idle_enter \/ idle_return \/ tasks
  BY <1>0, <1>2 DEF idle_enter, idle_return, tasks
<1>3. ASSUME NEW w \in Workers, work_take(w) \/ work_jump(w) \/ work_rearm(w) PROVE Callers'
  BY <1>0, <1>3 DEF work_take, work_jump, work_rearm
<1>4. CASE gov_start
  BY <1>0, <1>4 DEF gov_start, CoreCalls
<1>9. CASE set_policy \/ gov_limits
  BY <1>0, <1>9 DEF set_policy, gov_limits, CoreCalls
<1>10. CASE gov_stop
  BY <1>0, <1>10, Zenon DEF gov_stop, CoreCalls
<1>5. CASE flush_work \/ gov_stopped
  BY <1>0, <1>5 DEF flush_work, gov_stopped
<1>6. CASE other_governor \/ store
  BY <1>0, <1>6 DEF other_governor, store
<1>7. CASE early_suspend
  BY <1>0, <1>7 DEF early_suspend
<1>12. CASE late_resume
  BY <1>0, <1>12 DEF late_resume
<1>8. CASE resume_jump \/ suspend_rearm
  BY <1>0, <1>8 DEF resume_jump, suspend_rearm
<1>11. CASE UNCHANGED vars
  BY <1>0, <1>11, Zenon DEF vars
<1> QED
  BY <1>1, <1>2, <1>3, <1>4, <1>5, <1>6, <1>7, <1>8, <1>9, <1>10, <1>11, <1>12 DEF Next, Steps

LEMMA NextSamples == Overlaps = {} /\ IInv /\ [Next]_vars => Samples'
<1> SUFFICES ASSUME Overlaps = {}, IInv, [Next]_vars PROVE Samples'
  OBVIOUS
<1> USE DEF Samples, core, info, tmr, work
<1>0. Samples
  BY DEF IInv
<1>1. CASE timer_stopped \/ timer_retry \/ cpufreq_boosted_timer
  BY <1>0, <1>1 DEF timer_stopped, timer_retry, cpufreq_boosted_timer, reset_timer
<1>2. CASE idle_enter \/ idle_return \/ tasks
  BY <1>0, <1>2 DEF idle_enter, Idled, idle_return, tasks, reset_timer
<1>3. ASSUME NEW w \in Workers, work_take(w) \/ work_jump(w) \/ work_rearm(w) PROVE Samples'
  BY <1>0, <1>3 DEF work_take, work_jump, work_rearm, reset_timer
<1>4. CASE gov_start \/ set_policy \/ gov_limits \/ gov_stop
  BY <1>0, <1>4 DEF gov_start, set_policy, gov_limits, gov_stop, ResetBelowMax, reset_timer
<1>5. CASE flush_work \/ gov_stopped
  BY <1>0, <1>5 DEF flush_work, gov_stopped
<1>6. CASE other_governor \/ store
  BY <1>0, <1>6 DEF other_governor, store
<1>7. CASE early_suspend \/ late_resume \/ resume_jump \/ suspend_rearm
  BY <1>0, <1>7 DEF early_suspend, late_resume, resume_jump, suspend_rearm, reset_timer
<1>8. CASE UNCHANGED vars
  BY <1>0, <1>8, Zenon DEF vars
<1> QED
  BY <1>1, <1>2, <1>3, <1>4, <1>5, <1>6, <1>7, <1>8 DEF Next, Steps

\* Nobody touches the frequency or the policy while an instance is on its way from
\* the jump to its end.
LEMMA NextJumped == Overlaps = {} /\ IInv /\ [Next]_vars => Jumped'
<1> SUFFICES ASSUME Overlaps = {}, IInv, [Next]_vars PROVE Jumped'
  OBVIOUS
<1> USE DEF Jumped, core, info, tmr, work
<1>0. Jumped /\ Places /\ Frequencies
  BY Parts DEF IInv
<1>1. CASE timer_stopped \/ timer_retry \/ cpufreq_boosted_timer
  BY <1>0, <1>1 DEF timer_stopped, timer_retry, cpufreq_boosted_timer
<1>2. CASE idle_enter \/ idle_return \/ tasks
  BY <1>0, <1>2 DEF idle_enter, idle_return, tasks
<1>3. ASSUME NEW w \in Workers, work_take(w) PROVE Jumped'
  <2>1. \A x \in Workers : wpc[x] # "rearm"
    BY <1>3 DEF work_take, ThreadRuns
  <2>2. CASE mask
    <3>1. PICK ask \in Asked :
            /\ goal' = [goal EXCEPT ![w] = target_freq(ask[1], old_freq, ask[2])]
            /\ Decided(w, target_freq(ask[1], old_freq, ask[2]))
      BY <1>3, <2>2 DEF work_take
    <3>2. \A x \in Workers : wpc'[x] = "rearm" => x = w /\ goal'[x] = 0
      BY <1>0, <2>1, <3>1 DEF Decided, Places, Frequencies
    <3>3. policy' = policy /\ ~ (0 >= policy.max)
      BY <1>0, <1>3, LimitsInt DEF work_take, Frequencies
    <3> QED
      BY <3>2, <3>3
  <2> QED
    BY <1>0, <1>3, <2>2 DEF work_take
<1>4. ASSUME NEW w \in Workers, work_jump(w) PROVE Jumped'
  <2>1. \A x \in Workers : wpc'[x] = "rearm" => x = w
    BY <1>0, <1>4 DEF work_jump, ThreadRuns, Places
  <2>2. policy' = policy /\ goal' = goal /\ cur' = validate_freq(goal[w])
    BY <1>4 DEF work_jump, driver_target
  <2>3. policy.min <= policy.max /\ policy.min \in Int /\ policy.max \in Int /\ goal[w] \in Int
    BY <1>0, LimitsInt, FreqsInt DEF Frequencies
  <2>4. goal[w] >= policy.max => cur' = policy.max
    BY <2>2, <2>3 DEF validate_freq, Clamp
  <2> QED
    BY <2>1, <2>2, <2>4
<1>5. ASSUME NEW w \in Workers, work_rearm(w) PROVE Jumped'
  BY <1>0, <1>5 DEF work_rearm, Places
<1>6. CASE gov_start \/ set_policy \/ gov_stop \/ other_governor \/ store \/ early_suspend \/ late_resume
  <2>1. ThreadRuns /\ wpc' = wpc
    BY <1>6 DEF gov_start, set_policy, gov_stop, other_governor, store, early_suspend, late_resume, Event
  <2> QED
    BY <2>1 DEF ThreadRuns
<1>7. CASE gov_limits \/ flush_work \/ gov_stopped \/ resume_jump \/ suspend_rearm
  <2>1. ThreadRuns /\ wpc' = wpc
    BY <1>7 DEF gov_limits, flush_work, gov_stopped, resume_jump, suspend_rearm
  <2> QED
    BY <2>1 DEF ThreadRuns
<1>8. CASE UNCHANGED vars
  BY <1>0, <1>8, Zenon DEF vars
<1> QED
  BY <1>1, <1>2, <1>3, <1>4, <1>5, <1>6, <1>7, <1>8 DEF Next, Steps

LEMMA NextWatched == Overlaps = {} /\ IInv /\ [Next]_vars => Watched'
<1> SUFFICES ASSUME Overlaps = {}, IInv, [Next]_vars PROVE Watched'
  OBVIOUS
<1> USE DEF Watched, Rules, core, info, tmr, work
<1>0. Watched /\ Instances /\ Callers /\ Samples /\ Jumped /\ Places /\ Frequencies
  BY Parts DEF IInv
<1>1. CASE timer_stopped \/ timer_retry
  BY <1>0, <1>1 DEF timer_stopped, timer_retry, reset_timer
<1>2. CASE cpufreq_boosted_timer
  <2>1. UNCHANGED <<policy, cur, core, wpc>> /\ sample # "never"
    BY <1>2 DEF cpufreq_boosted_timer
  <2>2. \/ mask' /\ queued' # "none"
        \/ ~ (cur < policy.max)
        \/ timer' /\ sample' # "never"
    BY <1>2 DEF cpufreq_boosted_timer, queue_work, reset_timer, Workers
  <2> QED
    BY <2>1, <2>2
<1>3. CASE idle_enter
  BY <1>3 DEF idle_enter
<1>4. CASE idle_return
  <2>1. UNCHANGED <<policy, cur, core, work, spc>>
    BY <1>4 DEF idle_return
  <2>2. governed /\ gpc = "none" => enable
    BY <1>0 DEF Callers
  <2>3. enable /\ hooked /\ governed => timer' /\ sample' # "never"
    BY <1>0, <1>4 DEF idle_return, reset_timer, Samples
  <2> QED
    BY <2>1, <2>2, <2>3
<1>5. CASE tasks
  BY <1>0, <1>5 DEF tasks
<1>6. ASSUME NEW w \in Workers, work_take(w) PROVE Watched'
  <2>1. mask
    BY <1>0, <1>6 DEF work_take, Instances, Workers
  <2>2. wpc'[w] # "none"
    BY <1>0, <1>6, <2>1 DEF work_take, Decided, Places
  <2> QED
    BY <2>2
<1>7. ASSUME NEW w \in Workers, work_jump(w) PROVE Watched'
  <2>1. wpc'[w] # "none"
    BY <1>0, <1>7 DEF work_jump, Places
  <2> QED
    BY <2>1
<1>8. ASSUME NEW w \in Workers, work_rearm(w) PROVE Watched'
  <2>1. UNCHANGED <<policy, cur>> /\ wpc[w] = "rearm"
    BY <1>8 DEF work_rearm
  <2>2. goal[w] < policy.max => timer' /\ sample' # "never"
    BY <1>8 DEF work_rearm, reset_timer
  <2>3. goal[w] \in Int /\ policy.max \in Int
    BY <1>0, LimitsInt, FreqsInt DEF Frequencies
  <2>4. ~ (goal[w] < policy.max) => ~ (cur' < policy'.max)
    BY <1>0, <2>1, <2>3 DEF Jumped
  <2> QED
    BY <2>2, <2>4
<1>9. CASE gov_start
  <2>1. UNCHANGED <<policy, cur>> /\ ~ timer
    BY <1>9 DEF gov_start
  <2>2. governed' /\ cur < policy.max => timer' /\ sample' # "never"
    BY <1>9, <2>1 DEF gov_start, ResetBelowMax, reset_timer
  <2> QED
    BY <2>1, <2>2
<1>10. CASE set_policy \/ gov_stop \/ flush_work \/ gov_stopped
  <2>1. ~ Rules'
    BY <1>10 DEF set_policy, gov_stop, flush_work, gov_stopped
  <2> QED
    BY <2>1
<1>11. CASE gov_limits
  <2>1. policy' = policy /\ cur' = validate_freq(cur) /\ governed' = governed
    BY <1>11 DEF gov_limits, driver_target
  <2>2. governed /\ cur' < policy.max => timer' /\ sample' # "never"
    BY <1>0, <1>11, <2>1 DEF gov_limits, ResetBelowMax, reset_timer, Samples
  <2> QED
    BY <2>1, <2>2
<1>12. CASE other_governor
  BY <1>12 DEF other_governor
<1>13. CASE store
  BY <1>0, <1>13 DEF store
<1>14. CASE early_suspend \/ late_resume
  BY <1>0, <1>14 DEF early_suspend, late_resume
<1>15. CASE resume_jump
  BY <1>15 DEF resume_jump
<1>16. CASE suspend_rearm
  BY <1>16 DEF suspend_rearm, reset_timer
<1>17. CASE UNCHANGED vars
  BY <1>0, <1>17, Zenon DEF vars
<1> QED
  BY <1>1, <1>2, <1>3, <1>4, <1>5, <1>6, <1>7, <1>8, <1>9, <1>10, <1>11, <1>12, <1>13, <1>14,
     <1>15, <1>16, <1>17 DEF Next, Steps

LEMMA NextQuiet == Overlaps = {} /\ IInv /\ [Next]_vars => QuietAfterStop'
<1> SUFFICES ASSUME Overlaps = {}, IInv, [Next]_vars PROVE QuietAfterStop'
  OBVIOUS
<1> USE DEF QuietAfterStop, core, info, tmr, work
<1>0. QuietAfterStop /\ Instances /\ Callers /\ Places
  BY Parts DEF IInv
<1>1. CASE timer_stopped
  BY <1>0, <1>1 DEF timer_stopped
<1>2. CASE timer_retry
  BY <1>0, <1>2 DEF timer_retry
<1>3. CASE cpufreq_boosted_timer
  <2>1. UNCHANGED <<enable, gpc, spc>> /\ sample # "never"
    BY <1>3 DEF cpufreq_boosted_timer
  <2> QED
    BY <1>0, <2>1
<1>4. CASE idle_enter
  BY <1>0, <1>4 DEF idle_enter, Idled
<1>5. CASE idle_return
  <2>1. UNCHANGED <<enable, gpc, spc, queued, wpc>> /\ (~ enable => sample' = sample)
    BY <1>5 DEF idle_return
  <2> QED
    BY <1>0, <2>1
<1>6. CASE tasks
  BY <1>0, <1>6 DEF tasks
<1>7. ASSUME NEW w \in Workers, work_take(w) PROVE QuietAfterStop'
  <2>1. UNCHANGED <<enable, gpc, spc>> /\ queued # "none"
    BY <1>7 DEF work_take, Workers
  <2> QED
    BY <1>0, <2>1
<1>8. ASSUME NEW w \in Workers, work_jump(w) \/ work_rearm(w) PROVE QuietAfterStop'
  <2>1. UNCHANGED <<enable, gpc, spc>> /\ wpc[w] # "none"
    BY <1>8 DEF work_jump, work_rearm
  <2> QED
    BY <1>0, <2>1
<1>9. CASE gov_start
  BY <1>9 DEF gov_start
<1>10. CASE set_policy \/ gov_stop \/ flush_work
  BY <1>10 DEF set_policy, gov_stop, flush_work
<1>11. CASE gov_limits
  <2>1. enable' = enable /\ enable
    BY <1>0, <1>11 DEF gov_limits, Callers
  <2> QED
    BY <2>1
<1>12. CASE gov_stopped
  BY <1>0, <1>12 DEF gov_stopped, Instances
<1>13. CASE other_governor \/ store
  BY <1>0, <1>13 DEF other_governor, store
<1>14. CASE early_suspend \/ late_resume
  BY <1>0, <1>14 DEF early_suspend, late_resume
<1>15. CASE resume_jump \/ suspend_rearm
  <2>1. enable' = enable /\ enable
    BY <1>0, <1>15 DEF resume_jump, suspend_rearm, Callers
  <2> QED
    BY <2>1
<1>16. CASE UNCHANGED vars
  BY <1>0, <1>16, Zenon DEF vars
<1> QED
  BY <1>1, <1>2, <1>3, <1>4, <1>5, <1>6, <1>7, <1>8, <1>9, <1>10, <1>11, <1>12, <1>13, <1>14,
     <1>15, <1>16 DEF Next, Steps

LEMMA Inductive == ASSUME Overlaps = {} PROVE Spec => []IInv
<1>1. IInv /\ [Next]_vars => IInv'
  <2>1. IInv /\ [Next]_vars => TypeOK'
    BY NextFlags, NextFrequencies, NextPlaces DEF IInv, TypeOK, Flags, Frequencies, Places
  <2> QED
    BY <2>1, NextInstances, NextCallers, NextSamples, NextJumped, NextWatched, NextQuiet DEF IInv
<1> QED
  BY <1>1, InitIInv, PTL DEF Spec

\* While no two calls overlap, a CPU that runs below the maximal frequency under the
\* governor has a timer that will sample it, or work that will set one.
THEOREM AlwaysWatched == ASSUME Overlaps = {} PROVE Spec => []Watched
<1>1. IInv => Watched
  BY DEF IInv
<1> QED
  BY <1>1, Inductive, PTL

\* While no two calls overlap, GOV_STOP leaves no work behind that could still change
\* the frequency, and no timer that would queue some.
THEOREM StopIsQuiet == ASSUME Overlaps = {} PROVE Spec => []QuietAfterStop
<1>1. IInv => QuietAfterStop
  BY DEF IInv
<1> QED
  BY <1>1, Inductive, PTL
=============================================================================
