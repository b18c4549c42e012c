------------------------------- MODULE Boosted -------------------------------
(***************************************************************************)
(* The boosted cpufreq governor on its one CPU: a deferrable timer samples  *)
(* the load and queues the work that changes the frequency, the idle loop   *)
(* restarts the timer, and the cpufreq core and the early-suspend chain     *)
(* call in from other threads.                                              *)
(*                                                                          *)
(* An action is what runs from one call that may sleep to the next; the     *)
(* timer and the idle loop run between any two of them.  Times are          *)
(* abstracted: of a sample the model keeps whether the CPU was idle since,  *)
(* and the timer chooses the load and whether a rate limit has passed.      *)
(***************************************************************************)
EXTENDS Integers, FiniteSetsExt

CONSTANTS
  Freqs,      \* the frequency table
  Limits,     \* policy limits the core may set: [min, max]
  Tunables,   \* sysfs settings: [awake, sleep, wakeup, up, down]
  Overlaps,   \* what may overlap: subset of Overlappings
  MaxEvents   \* bound: calls of the core, of early suspend and of sysfs

Workers == {"up", "down"}              \* up_wq and down_wq
Overlappings == {"instances", "preempt", "suspend", "restart"}

\* The table is finite: any part of it has a lowest and a highest frequency.
ASSUME TableAssumption ==
  \A S \in SUBSET Freqs : S = {} \/ \E lo, hi \in S : \A f \in S : lo <= f /\ f <= hi

ASSUME BoostedAssumption ==
  /\ Freqs \subseteq Nat \ {0}
  /\ Limits # {} /\ Limits \subseteq [min : Freqs, max : Freqs]
  /\ \A l \in Limits : l.min <= l.max
  /\ Tunables # {} /\ Tunables \subseteq [awake : Nat, sleep : Nat, wakeup : Nat, up : Nat, down : Nat]
  /\ Overlaps \subseteq Overlappings
  /\ MaxEvents \in Nat

VARIABLES
  policy,     \* policy->min and max
  cur,        \* policy->cur
  tun,        \* the tunables
  governed,   \* the core has started boosted and not stopped it
  gpc,        \* where the core's call into the governor is
  enable, active, hooked,     \* this_boosted->enable, active_count, pm_idle = cpufreq_idle
  ideal, ramp_dir, old_freq,  \* this_boosted
  timer,      \* the timer is pending
  sample,     \* "never": idle_exit_time = 0; else was the CPU idle since reset_timer?
  queued,     \* the workqueue freq_scale_work waits in
  last,       \* the workqueue it was last queued to
  mask,       \* work_cpumask
  wpc, goal,  \* where an instance of the work is, its new_freq
  suspended, spc,             \* and where the early-suspend handler is
  cpu,        \* "idle", "awake" or running tasks: "load"
  events

core == <<governed, gpc, enable, active, hooked>>
info == <<ideal, ramp_dir, old_freq>>
tmr  == <<timer, sample>>
work == <<queued, last, mask, wpc, goal>>
vars == <<policy, cur, tun, core, info, tmr, work, suspended, spc, cpu, events>>

Init ==
  /\ policy \in Limits /\ cur \in {f \in Freqs : policy.min <= f /\ f <= policy.max}
  /\ tun \in Tunables
  /\ governed = FALSE /\ gpc = "none" /\ enable = FALSE /\ active = 0 /\ hooked = FALSE
  /\ ideal = 0 /\ ramp_dir = 0 /\ old_freq = 0
  /\ timer = FALSE /\ sample = "never"
  /\ queued = "none" /\ last = "down" /\ mask = FALSE
  /\ wpc = [w \in Workers |-> "none"] /\ goal = [w \in Workers |-> 0]
  /\ suspended = FALSE /\ spc = "none" /\ cpu = "awake" /\ events = 0
-----------------------------------------------------------------------------
(* Frequencies.                                                             *)
Clamp(f, lo, hi) == IF f > hi THEN hi ELSE IF f < lo THEN lo ELSE f

validate_freq(f) == Clamp(f, policy.min, policy.max)

\* boosted_update_min_max: the ideal frequency, within the policy.
IdealSpeed(susp, t, pol) == Clamp(IF susp THEN t.sleep ELSE t.awake, pol.min, pol.max)

\* cpufreq_frequency_table_target: the table's answer to a frequency and a relation.
TableTarget(f, rel) ==
  LET fit   == {g \in Freqs : policy.min <= g /\ g <= policy.max}
      below == {g \in fit : g <= f}
      above == {g \in fit : g >= f}
  IN  IF (rel = "H" /\ below # {}) \/ above = {} THEN Max(below) ELSE Min(above)

\* Mutant: the table is not asked.
target_freq_Untabled(new, old, rel) ==
  LET v == validate_freq(new) IN IF new = old \/ v = old THEN 0 ELSE v

\* target_freq: where to jump to, 0 for a frequency change that makes none.
target_freq(new, old, rel) ==
  LET v == validate_freq(new)
      t == TableTarget(v, rel)
      u == IF t = old /\ v > old /\ rel = "H" THEN TableTarget(v, "L")
           ELSE IF t = old /\ v < old /\ rel = "L" THEN TableTarget(v, "H") ELSE t
  IN  IF new = old \/ v = old \/ u = old THEN 0 ELSE u

\* __cpufreq_driver_target keeps to the policy of the moment.
driver_target(f) == cur' = validate_freq(f)

\* A thread may run: the CPU is awake and, unless it may be preempted there, no
\* instance of the work is on its way from the jump, which sleeps, to its end.
ThreadRuns ==
  cpu # "idle" /\ ("preempt" \in Overlaps \/ \A w \in Workers : wpc[w] # "rearm")
-----------------------------------------------------------------------------
(* The timer.                                                               *)
reset_timer == timer' = TRUE /\ sample' = "busy"

queue_work(w) ==
  /\ mask' = TRUE
  /\ IF queued = "none" THEN queued' = w /\ last' = w ELSE UNCHANGED <<queued, last>>

\* The timer fires on a CPU that is awake.  Two jiffies are more than an instance of
\* the work needs, unless a second may be queued while it sleeps in the driver, and
\* more than STOP needs to end once its wait for the work is over, unless preempted.
Fires ==
  /\ timer /\ cpu # "idle"
  /\ (\E w \in Workers : wpc[w] = "jump") => "instances" \in Overlaps
  /\ gpc = "clear" => "preempt" \in Overlaps

\* It does nothing for a stopped governor.
timer_stopped ==
  /\ Fires /\ sample = "never"
  /\ timer' = FALSE
  /\ UNCHANGED <<policy, cur, tun, core, info, sample, work, suspended, spc, cpu, events>>

\* Less than 1 ms after the sample was started it tries again.
timer_retry ==
  /\ Fires /\ sample # "never"
  /\ reset_timer
  /\ UNCHANGED <<policy, cur, tun, core, info, work, suspended, spc, cpu, events>>

Loads == IF sample = "busy" THEN {"high"} ELSE {"low", "mid", "high"}

\* May it ramp up, or down, at this load?  elapsed: up_rate_us or down_rate_us is over.
RampUp(load, elapsed) ==
  load = "high" /\ cur < policy.max /\ (cur < ideal \/ sample = "busy" \/ elapsed)
RampDown(load, elapsed) ==
  load = "low" /\ cur > policy.min /\ (cur > ideal \/ elapsed)

\* cpufreq_boosted_timer: work it queues will set the timer again; at the maximal
\* frequency the idle loop will.
cpufreq_boosted_timer ==
  /\ Fires /\ sample # "never"
  /\ old_freq' = cur
  /\ \E load \in Loads, elapsed \in BOOLEAN :
       \/ RampUp(load, elapsed) /\ ramp_dir' = 1 /\ queue_work("up")
          /\ timer' = FALSE /\ UNCHANGED sample
       \/ RampDown(load, elapsed) /\ ramp_dir' = -1 /\ queue_work("down")
          /\ timer' = FALSE /\ UNCHANGED sample
       \/ /\ ~ RampUp(load, elapsed) /\ ~ RampDown(load, elapsed)
          /\ ramp_dir' = 0 /\ UNCHANGED <<queued, last, mask>>
          /\ IF cur < policy.max THEN reset_timer ELSE timer' = FALSE /\ UNCHANGED sample
  /\ UNCHANGED <<policy, cur, tun, core, ideal, wpc, goal, suspended, spc, cpu, events>>
-----------------------------------------------------------------------------
(* The idle loop and the tasks.                                             *)

\* Nothing is left to run but, perhaps, an instance that sleeps in the driver.
NothingRuns ==
  /\ cpu = "awake" /\ queued = "none" /\ spc # "rearm" /\ gpc \notin {"limits", "clear"}
  /\ \A w \in Workers : wpc[w] # "rearm"

Idled == IF sample = "never" THEN sample ELSE "idled"

\* cpufreq_idle up to pm_idle_old: at the minimal frequency no timer is needed.
idle_enter ==
  /\ NothingRuns
  /\ cpu' = "idle"
  /\ timer' = (timer /\ ~ (enable /\ hooked /\ cur = policy.min))
  /\ sample' = Idled
  /\ UNCHANGED <<policy, cur, tun, core, info, work, suspended, spc, events>>

\* An interrupt ends pm_idle_old: set the timer if it is not pending.
idle_return ==
  /\ cpu = "idle"
  /\ cpu' \in {"awake", "load"}
  /\ IF enable /\ hooked /\ ~ timer THEN reset_timer ELSE UNCHANGED tmr
  /\ UNCHANGED <<policy, cur, tun, core, info, work, suspended, spc, events>>

\* Tasks become runnable, or all sleep.
tasks ==
  /\ cpu \in {"awake", "load"}
  /\ cpu' = IF cpu = "load" THEN "awake" ELSE "load"
  /\ UNCHANGED <<policy, cur, tun, core, info, tmr, work, suspended, spc, events>>
-----------------------------------------------------------------------------
(* freq_scale_work: an instance may run on each workqueue.                  *)

\* The frequency is to change, or stays and only the timer is set.
Decided(w, new) == wpc' = [wpc EXCEPT ![w] = IF new = 0 THEN "rearm" ELSE "jump"]

\* The frequencies the work may ask for: one of the other tasks must want a ramp up.
Asked ==
  IF old_freq # cur THEN {<<old_freq, "L">>}
  ELSE IF ramp_dir > 0 /\ cpu = "load"
    THEN IF old_freq < ideal THEN {<<ideal, "L">>}
         ELSE IF tun.up # 0 THEN {<<old_freq + tun.up, "H">>} ELSE {<<policy.max, "H">>}
  ELSE IF ramp_dir < 0
    THEN IF old_freq > ideal THEN {<<ideal, "H">>}
         ELSE IF tun.down # 0 THEN {<<old_freq - tun.down, "L">>}
         ELSE {<<f, "L">> : f \in 0 .. old_freq}
  ELSE {<<old_freq, "L">>}

\* The work begins and takes the CPU out of the mask; for a mask that is clear it
\* has nothing to do.
work_take(w) ==
  /\ queued = w /\ wpc[w] = "none" /\ ThreadRuns
  /\ queued' = "none"
  /\ mask' = FALSE
  /\ IF mask
     THEN /\ ramp_dir' = 0
          /\ \E ask \in Asked :
               /\ goal' = [goal EXCEPT ![w] = target_freq(ask[1], old_freq, ask[2])]
               /\ Decided(w, target_freq(ask[1], old_freq, ask[2]))
     ELSE UNCHANGED <<ramp_dir, goal, wpc>>
  /\ UNCHANGED <<policy, cur, tun, core, ideal, old_freq, tmr, last, suspended, spc, cpu, events>>

work_jump(w) ==
  /\ wpc[w] = "jump" /\ ThreadRuns
  /\ driver_target(goal[w])
  /\ wpc' = [wpc EXCEPT ![w] = "rearm"]
  /\ UNCHANGED <<policy, tun, core, info, tmr, queued, last, mask, goal, suspended, spc, cpu, events>>

\* Mutant: the timer is stopped whether or not the frequency is the maximal one.
work_rearm_Never(w) ==
  /\ wpc[w] = "rearm" /\ cpu # "idle"
  /\ timer' = FALSE /\ UNCHANGED sample
  /\ wpc' = [wpc EXCEPT ![w] = "none"]
  /\ UNCHANGED <<policy, cur, tun, core, info, queued, last, mask, goal, suspended, spc, cpu, events>>

work_rearm(w) ==
  /\ wpc[w] = "rearm" /\ cpu # "idle"
  /\ IF goal[w] < policy.max THEN reset_timer ELSE timer' = FALSE /\ UNCHANGED sample
  /\ wpc' = [wpc EXCEPT ![w] = "none"]
  /\ UNCHANGED <<policy, cur, tun, core, info, queued, last, mask, goal, suspended, spc, cpu, events>>
-----------------------------------------------------------------------------
(* The cpufreq core: the calls below hold the policy's lock.                *)
Event == events < MaxEvents /\ events' = events + 1 /\ ThreadRuns
CoreCalls == gpc = "none" /\ ("suspend" \in Overlaps \/ spc = "none")

\* The reset at the end of GOV_START and GOV_LIMITS.
ResetBelowMax(f) == IF f < policy.max /\ ~ timer THEN reset_timer ELSE UNCHANGED tmr

\* GOV_START.  A group sysfs cannot create is an error that leaves the governor
\* enabled and counted.  Unless a restart may be quick, a timer that was set while
\* the governor was stopped has fired by then.
gov_start ==
  /\ Event /\ CoreCalls /\ ~ governed
  /\ timer => "restart" \in Overlaps
  /\ enable' = TRUE
  /\ active' = active + 1
  /\ ideal' = IdealSpeed(suspended, tun, policy)
  /\ \/ /\ governed' = TRUE
        /\ hooked' = (hooked \/ active = 0)
        /\ ResetBelowMax(cur)
     \/ active = 0 /\ UNCHANGED <<governed, hooked, tmr>>
  /\ UNCHANGED <<policy, cur, tun, gpc, ramp_dir, old_freq, work, suspended, spc, cpu>>

\* The core changes the policy, then calls GOV_LIMITS.
set_policy ==
  /\ Event /\ CoreCalls /\ governed
  /\ policy' \in Limits
  /\ gpc' = "limits"
  /\ UNCHANGED <<cur, tun, governed, enable, active, hooked, info, tmr, work, suspended, spc, cpu>>

\* Mutant: a raised limit leaves the timer alone.
gov_limits_NoTimer ==
  /\ gpc = "limits" /\ ThreadRuns
  /\ gpc' = "none"
  /\ ideal' = IdealSpeed(suspended, tun, policy)
  /\ driver_target(cur)
  /\ UNCHANGED <<policy, tun, governed, enable, active, hooked, ramp_dir, old_freq, tmr, work, suspended, spc, cpu, events>>

gov_limits ==
  /\ gpc = "limits" /\ ThreadRuns
  /\ gpc' = "none"
  /\ ideal' = IdealSpeed(suspended, tun, policy)
  /\ driver_target(cur)
  /\ ResetBelowMax(validate_freq(cur))
  /\ UNCHANGED <<policy, tun, governed, enable, active, hooked, ramp_dir, old_freq, work, suspended, spc, cpu, events>>

\* GOV_STOP: disable and stop the timer,
gov_stop ==
  /\ Event /\ CoreCalls /\ governed
  /\ enable' = FALSE /\ timer' = FALSE
  /\ gpc' = "flush"
  /\ UNCHANGED <<policy, cur, tun, governed, active, hooked, info, sample, work, suspended, spc, cpu>>

\* Mutant: it does not wait for the work.
flush_work_Not ==
  /\ gpc = "flush" /\ ThreadRuns
  /\ gpc' = "clear"
  /\ UNCHANGED <<policy, cur, tun, governed, enable, active, hooked, info, tmr, work, suspended, spc, cpu, events>>

\* wait for the work on the workqueue it was last queued to,
flush_work ==
  /\ gpc = "flush" /\ ThreadRuns
  /\ queued = "none" /\ wpc[last] = "none"
  /\ gpc' = "clear"
  /\ UNCHANGED <<policy, cur, tun, governed, enable, active, hooked, info, tmr, work, suspended, spc, cpu, events>>

\* and forget the sample, so that a timer the work has set does nothing.
gov_stopped ==
  /\ gpc = "clear" /\ ThreadRuns
  /\ gpc' = "none"
  /\ sample' = "never"
  /\ active' = active - 1
  /\ hooked' = (hooked /\ active > 2)
  /\ governed' = FALSE
  /\ UNCHANGED <<policy, cur, tun, enable, info, timer, work, suspended, spc, cpu, events>>

\* While another governor rules the core may set any limits and frequency.
other_governor ==
  /\ Event /\ gpc = "none" /\ ~ governed
  /\ policy' \in Limits
  /\ cur' \in {f \in Freqs : policy'.min <= f /\ f <= policy'.max}
  /\ UNCHANGED <<tun, core, info, tmr, work, suspended, spc, cpu>>

\* A tunable is stored through sysfs: the ideal frequency follows.
store ==
  /\ Event /\ hooked
  /\ tun' \in Tunables
  /\ ideal' = IF enable THEN IdealSpeed(suspended, tun', policy) ELSE ideal
  /\ UNCHANGED <<policy, cur, core, ramp_dir, old_freq, tmr, work, suspended, spc, cpu>>
-----------------------------------------------------------------------------
(* Early suspend and late resume.                                           *)
early_suspend ==
  /\ Event /\ spc = "none" /\ ~ suspended /\ tun.sleep # 0
  /\ "suspend" \in Overlaps \/ gpc = "none"
  /\ suspended' = TRUE
  /\ IF enable THEN spc' = "rearm" /\ ideal' = IdealSpeed(TRUE, tun, policy)
               ELSE UNCHANGED <<spc, ideal>>
  /\ UNCHANGED <<policy, cur, tun, core, ramp_dir, old_freq, tmr, work, cpu>>

late_resume ==
  /\ Event /\ spc = "none" /\ suspended
  /\ "suspend" \in Overlaps \/ gpc = "none"
  /\ suspended' = FALSE
  /\ IF enable THEN spc' = "jump" /\ ideal' = IdealSpeed(FALSE, tun, policy)
               ELSE UNCHANGED <<spc, ideal>>
  /\ UNCHANGED <<policy, cur, tun, core, ramp_dir, old_freq, tmr, work, cpu>>

resume_jump ==
  /\ spc = "jump" /\ ThreadRuns
  /\ driver_target(TableTarget(validate_freq(tun.wakeup), "L"))
  /\ spc' = "rearm"
  /\ UNCHANGED <<policy, tun, core, info, tmr, work, suspended, cpu, events>>

suspend_rearm ==
  /\ spc = "rearm" /\ ThreadRuns
  /\ reset_timer
  /\ spc' = "none"
  /\ UNCHANGED <<policy, cur, tun, core, info, work, suspended, cpu, events>>
-----------------------------------------------------------------------------
Steps ==
  \/ timer_stopped \/ cpufreq_boosted_timer
  \/ \E w \in Workers : work_take(w) \/ work_jump(w) \/ work_rearm(w)
  \/ gov_limits \/ flush_work \/ gov_stopped \/ resume_jump \/ suspend_rearm

Next ==
  \/ Steps \/ timer_retry
  \/ idle_enter \/ idle_return \/ tasks
  \/ gov_start \/ set_policy \/ gov_stop \/ other_governor \/ store
  \/ early_suspend \/ late_resume

Spec == Init /\ [][Next]_vars

\* The timer fires and what has begun goes on; tasks, limits and users do as they like.
FairSpec ==
  /\ Spec
  /\ WF_vars(cpufreq_boosted_timer)
  /\ \A w \in Workers : WF_vars(work_take(w) \/ work_jump(w) \/ work_rearm(w))
  /\ WF_vars(gov_limits \/ flush_work \/ gov_stopped)
  /\ WF_vars(resume_jump \/ suspend_rearm)
-----------------------------------------------------------------------------
TypeOK ==
  /\ policy \in Limits /\ cur \in Freqs /\ tun \in Tunables
  /\ governed \in BOOLEAN /\ gpc \in {"none", "limits", "flush", "clear"}
  /\ enable \in BOOLEAN /\ active \in Int /\ hooked \in BOOLEAN
  /\ ideal \in Nat /\ ramp_dir \in {-1, 0, 1} /\ old_freq \in Freqs \cup {0}
  /\ timer \in BOOLEAN /\ sample \in {"never", "busy", "idled"}
  /\ queued \in Workers \cup {"none"} /\ last \in Workers /\ mask \in BOOLEAN
  /\ wpc \in [Workers -> {"none", "jump", "rearm"}] /\ goal \in [Workers -> Freqs \cup {0}]
  /\ suspended \in BOOLEAN /\ spc \in {"none", "jump", "rearm"}
  /\ cpu \in {"idle", "awake", "load"} /\ events \in 0 .. MaxEvents

\* The governor is installed and nobody is in the middle of a call into it.
Rules == governed /\ hooked /\ gpc = "none" /\ spc = "none"

\* A CPU that runs below the maximal frequency is watched: the timer will sample it,
\* or the work that will set the timer is queued or running.  The comments in the
\* timer and in the work give the maximal frequency as the only reason to go without.
Watched ==
  Rules /\ cpu # "idle" /\ cur < policy.max =>
    \/ timer /\ sample # "never"
    \/ mask /\ queued # "none"
    \/ \E w \in Workers : wpc[w] # "none"

\* A stopped governor leaves the CPU alone: no work of it is queued or running that
\* could change the frequency under the next governor, and a timer that the last
\* work has set does nothing when it fires.
QuietAfterStop ==
  ~ enable /\ gpc = "none" /\ spc = "none" =>
    queued = "none" /\ sample = "never" /\ \A w \in Workers : wpc[w] = "none"

\* While tasks keep the CPU busy it gets to the maximal frequency.
BusyReachesMax ==
  (Rules /\ cpu = "load") ~> (cur = policy.max \/ ~ Rules \/ cpu # "load")

=============================================================================
