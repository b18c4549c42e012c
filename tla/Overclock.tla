------------------------------- MODULE Overclock -------------------------------
(***************************************************************************)
(* The overclock module, which changes the top entry of cpufreq's and of    *)
(* the clock code's tables, and cpufreq_stats, which labels and counts the  *)
(* frequencies.  set_max_speed is taken store by store: the processor may   *)
(* switch frequency, and the stats module hear of it, between any two.      *)
(*                                                                          *)
(* Level 0 stands for freq_table[0] and mpu_opps[MAX_VDD1_OPP], level 1 for *)
(* the entries below, whose voltage is left out.  One process at a time     *)
(* writes to /proc/overclock.                                               *)
(***************************************************************************)
EXTENDS Integers

CONSTANTS
  Rates, Vsels,            \* frequencies and voltage selections
  Needs,                   \* the voltage a frequency needs
  OrigRate, OrigVsel, Low, \* the kernel's own tables
  DRIVER_DEFAULT_RATE, DRIVER_DEFAULT_VSEL,
  MaxLiberties             \* bound: acts that the documented usage does not have

ASSUME OverclockAssumption ==
  /\ Rates \subseteq Nat \ {0} /\ Vsels \subseteq Nat \ {0} /\ Needs \in [Rates -> Vsels]
  /\ {OrigRate, Low, DRIVER_DEFAULT_RATE} \subseteq Rates /\ Low # OrigRate
  /\ {OrigVsel, DRIVER_DEFAULT_VSEL} \subseteq Vsels
  /\ Needs[OrigRate] <= OrigVsel /\ MaxLiberties \in Nat

\* The module is built for this processor: its default is no less than the kernel's top.
ASSUME DefaultAssumption ==
  /\ Needs[DRIVER_DEFAULT_RATE] <= DRIVER_DEFAULT_VSEL
  /\ Needs[OrigRate] <= Needs[DRIVER_DEFAULT_RATE]

Levels == {0, 1}
Default == [rate |-> DRIVER_DEFAULT_RATE, vsel |-> DRIVER_DEFAULT_VSEL]
Original == [rate |-> OrigRate, vsel |-> OrigVsel]
Nothing == [rate |-> 0, vsel |-> 0]
Pairs == [rate : Rates, vsel : Vsels]

VARIABLES
  liberties,  \* acts so far that the usage described in overclock.c does not have
  loaded,     \* the module: "out", "in", or "leaving" (in overclock_exit)
  stage,      \* where set_max_speed is: "idle", or its next store
  max, bak,   \* max_rate and max_vsel, bak_rate and bak_vsel
  known,      \* my_mpu_opps is set
  statsp,     \* cpufreq_stats_table: "null", "live", or "freed" memory
  freq,       \* freq_table
  policy_max, \* policy->max and its copies
  opp,        \* mpu_opps[MAX_VDD1_OPP], vsel and sr_adjust_vsel being equal
  cur,        \* the frequency of the processor
  stats,      \* cpufreq_stats is in
  labels,     \* its freq_table, 0 where it has no entry
  last_index,
  atload      \* history: opp when the module was loaded

tables == <<freq, policy_max, opp>>
counts == <<stats, labels, last_index>>
vars == <<liberties, loaded, stage, max, bak, known, statsp, tables, cur, counts, atload>>

documented == liberties = 0

\* An act that the usage allows, or not.
Act(allowed) ==
  /\ liberties' = IF allowed THEN liberties ELSE liberties + 1
  /\ liberties' <= MaxLiberties

Init ==
  /\ liberties = 0
  /\ loaded = "out" /\ stage = "idle" /\ max = Default /\ bak = Nothing
  /\ known = FALSE /\ statsp = "null"
  /\ freq = [l \in Levels |-> IF l = 0 THEN OrigRate ELSE Low]
  /\ policy_max = OrigRate /\ opp = Original /\ cur \in {OrigRate, Low}
  /\ stats = FALSE /\ labels = [l \in Levels |-> 0] /\ last_index = 0
  /\ atload = Original
-----------------------------------------------------------------------------
(* set_max_speed: its call, and its stores.                                 *)

\* Nothing is stored while the address of mpu_opps is unknown.
set_max_speed(loading) == stage' = IF loading THEN "tables" ELSE "idle"

\* The first call saves what the kernel had.
store_tables ==
  /\ stage = "tables" /\ stage' = "stats"
  /\ bak' = IF bak.vsel = 0 THEN [opp EXCEPT !.rate = freq[0]] ELSE bak
  /\ freq' = [freq EXCEPT ![0] = max.rate] /\ policy_max' = max.rate
  /\ UNCHANGED <<liberties, loaded, max, known, statsp, opp, cur, counts, atload>>

\* What is stored in freed memory is lost, if it does no harm.
Relabelled(l, rate) == labels' = IF statsp = "live" THEN [labels EXCEPT ![l] = rate] ELSE labels

store_stats ==
  /\ stage = "stats" /\ stage' = "first" /\ Relabelled(0, max.rate)
  /\ UNCHANGED <<liberties, loaded, max, bak, known, statsp, tables, cur, stats, last_index, atload>>

\* Mutant: the rate is stored before its voltage.
Stores_Swapped == <<"rate", "vsel">>

\* The fields of mpu_opps in the order they are stored.
Stores == <<"vsel", "rate">>

store_first ==
  /\ stage = "first" /\ stage' = "last"
  /\ opp' = [opp EXCEPT ![Stores[1]] = max[Stores[1]]]
  /\ UNCHANGED <<liberties, loaded, max, bak, known, statsp, freq, policy_max, cur, counts, atload>>

store_last ==
  /\ stage = "last" /\ stage' = "idle"
  /\ opp' = [opp EXCEPT ![Stores[2]] = max[Stores[2]]]
  /\ loaded' = IF loaded = "leaving" THEN "out" ELSE loaded
  /\ UNCHANGED <<liberties, max, bak, known, statsp, freq, policy_max, cur, counts, atload>>
-----------------------------------------------------------------------------
(* Loading and unloading.                                                   *)

\* The addresses and the maximum may be given as parameters; overclock.c advises against.
overclock_init ==
  /\ loaded = "out" /\ loaded' = "in"
  /\ max' \in Pairs /\ Act(stats /\ max' = Default)
  /\ known' \in BOOLEAN
  /\ statsp' \in IF stats THEN {"null", "live"} ELSE {"null"}
  /\ set_max_speed(known' /\ max' # Default)
  /\ bak' = Nothing /\ atload' = opp
  /\ UNCHANGED <<tables, cur, counts>>

InUse == loaded = "in" /\ stage = "idle"

\* Mutant: the original settings are not put back.
overclock_exit_Default ==
  /\ InUse
  /\ max' = Default
  /\ set_max_speed(known /\ max # Default)
  /\ loaded' = IF known /\ max # Default THEN "leaving" ELSE "out"
  /\ UNCHANGED <<liberties, bak, known, statsp, tables, cur, counts, atload>>

\* Mutant: nothing is restored when one of the two is the default.
overclock_exit_Either ==
  /\ InUse
  /\ LET set == max.rate # Default.rate /\ max.vsel # Default.vsel IN
       /\ max' = IF set /\ bak # Nothing THEN bak ELSE Default
       /\ set_max_speed(known /\ set)
       /\ loaded' = IF known /\ set THEN "leaving" ELSE "out"
  /\ UNCHANGED <<liberties, bak, known, statsp, tables, cur, counts, atload>>

\* overclock_exit: nothing to do when the maximum is the default.
overclock_exit ==
  /\ InUse
  /\ max' = IF max # Default /\ bak # Nothing THEN bak ELSE Default
  /\ set_max_speed(known /\ max # Default)
  /\ loaded' = IF known /\ max # Default THEN "leaving" ELSE "out"
  /\ UNCHANGED <<liberties, bak, known, statsp, tables, cur, counts, atload>>
-----------------------------------------------------------------------------
(* Writes to /proc/overclock.                                               *)

\* The usage: the addresses first, max_vsel before max_rate to go up and max_rate
\* before max_vsel to go down, so that the two always fit.
Careful(m) == known /\ statsp = "live" /\ Needs[m.rate] <= m.vsel

Write(m) ==
  /\ InUse /\ m # max /\ Act(Careful(m))
  /\ max' = m /\ set_max_speed(known)
  /\ UNCHANGED <<loaded, bak, known, statsp, tables, cur, counts, atload>>

proc_max_rate_write == \E rate \in Rates : Write([max EXCEPT !.rate = rate])

proc_max_vsel_write == \E vsel \in Vsels : Write([max EXCEPT !.vsel = vsel])

\* Either way of giving the address of mpu_opps.
proc_mpu_opps_addr_write ==
  /\ InUse /\ ~ known /\ known' = TRUE
  /\ UNCHANGED <<liberties, loaded, stage, max, bak, statsp, tables, cur, counts, atload>>

\* Either way of giving the address of the pointer to the stats, which may be null.
proc_cpufreq_stats_table_addr_write ==
  /\ InUse /\ statsp' = IF stats THEN "live" ELSE "null"
  /\ UNCHANGED <<liberties, loaded, stage, max, bak, known, tables, cur, counts, atload>>

\* Writes that go to the tables past max_rate and max_vsel.
proc_freq_table_write ==
  /\ InUse /\ Act(FALSE)
  /\ \E l \in Levels, rate \in Rates :
       freq' = [freq EXCEPT ![l] = rate] /\ Relabelled(l, rate)
  /\ UNCHANGED <<loaded, stage, max, bak, known, statsp, policy_max, opp, cur,
                 stats, last_index, atload>>

proc_mpu_opps_write ==
  /\ InUse /\ Act(FALSE) /\ known /\ opp' \in Pairs
  /\ UNCHANGED <<loaded, stage, max, bak, known, statsp, freq, policy_max, cur,
                 counts, atload>>
-----------------------------------------------------------------------------
(* cpufreq_stats.                                                           *)

\* freq_table_get_index.
Index(lbs, f) == IF lbs[0] = f THEN 0 ELSE IF lbs[1] = f THEN 1 ELSE -1

\* cpufreq_stats_create_table: a frequency that is there twice gets one entry.
cpufreq_stats_init ==
  /\ ~ stats /\ stats' = TRUE
  /\ labels' = IF freq[0] = freq[1] THEN [freq EXCEPT ![1] = 0] ELSE freq
  /\ last_index' = Index(labels', cur)
  /\ UNCHANGED <<liberties, loaded, stage, max, bak, known, statsp, tables, cur, atload>>

\* cpufreq_stats_free_table leaves the overclock module its pointer.
cpufreq_stats_exit ==
  /\ stats /\ Act(FALSE) /\ stats' = FALSE
  /\ statsp' = IF statsp = "live" THEN "freed" ELSE statsp
  /\ UNCHANGED <<loaded, stage, max, bak, known, tables, cur, labels, last_index, atload>>

\* Mutant: an unknown frequency becomes the last index.
cpufreq_stat_notifier_trans_Unknown(new) ==
  last_index' = IF stats /\ last_index # -1 THEN Index(labels, new) ELSE last_index

\* A switch of which one side is unknown is not counted.
cpufreq_stat_notifier_trans(new) ==
  last_index' = IF stats /\ last_index # -1 /\ Index(labels, new) # -1
                THEN Index(labels, new) ELSE last_index

\* The governor picks a level; the clock code runs it at the frequency asked for or at
\* the one its own table has.
Switch ==
  /\ \E l \in Levels :
       /\ freq[l] <= policy_max
       /\ cur' \in IF l = 0 THEN {freq[0], opp.rate} ELSE {freq[1]}
  /\ cpufreq_stat_notifier_trans(cur')
  /\ UNCHANGED <<liberties, loaded, stage, max, bak, known, statsp, tables, stats, labels, atload>>
-----------------------------------------------------------------------------
Next ==
  \/ store_tables \/ store_stats \/ store_first \/ store_last
  \/ overclock_init \/ overclock_exit
  \/ proc_max_rate_write \/ proc_max_vsel_write
  \/ proc_mpu_opps_addr_write \/ proc_cpufreq_stats_table_addr_write
  \/ proc_freq_table_write \/ proc_mpu_opps_write
  \/ cpufreq_stats_init \/ cpufreq_stats_exit \/ Switch

Spec == Init /\ [][Next]_vars
-----------------------------------------------------------------------------
\* With the documented usage last_index is an index: time_in_state[-1] is never
\* written, although the processor switches while the tables and the labels differ.
TypeOK ==
  /\ liberties \in 0 .. MaxLiberties /\ known \in BOOLEAN /\ stats \in BOOLEAN
  /\ loaded \in {"out", "in", "leaving"}
  /\ stage \in {"idle", "tables", "stats", "first", "last"}
  /\ max \in Pairs /\ bak \in Pairs \cup {Nothing} /\ atload \in Pairs
  /\ statsp \in {"null", "live", "freed"}
  /\ freq \in [Levels -> Rates] /\ policy_max \in Rates /\ opp \in Pairs /\ cur \in Rates
  /\ labels \in [Levels -> Rates \cup {0}] /\ last_index \in Levels \cup {-1}
  /\ documented => last_index \in Levels

\* The usage does what it is for: with "max_vsel before max_rate" on the way up and
\* "max_rate first" on the way down (overclock.c, Usage), the top frequency a switch
\* may pick up always has its voltage, also between the stores of set_max_speed.
Powered ==
  documented /\ loaded # "leaving" => Needs[opp.rate] <= opp.vsel

\* Whenever overclock_exit restores something it restores what it found: the policy,
\* both tables and the label have what they had when the module was loaded, whatever
\* maxima were set in between.
Restores ==
  [][documented /\ loaded = "leaving" /\ loaded' = "out"
       => /\ opp' = atload /\ freq'[0] = atload.rate
          /\ policy_max' = atload.rate /\ labels'[0] = atload.rate]_vars

\* With the documented usage an unloaded module leaves the top entry with what the
\* kernel had, or with the default if the user has gone back to that: never with what
\* the user had set, nor with the rate of one and the voltage of another.
OriginalOrDefault ==
  documented /\ loaded = "out" => opp \in {Original, Default}

=============================================================================
