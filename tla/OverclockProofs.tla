---------------------------- MODULE OverclockProofs ----------------------------
(***************************************************************************)
(* That the documented usage keeps the top frequency powered, that unloading *)
(* puts back what it found, and that time_in_state is indexed inside.        *)
(*                                                                          *)
(* None of them is inductive: what a store makes of the tables depends on    *)
(* what set_max_speed has stored before, on the backup, and on what the user *)
(* has set.  The parts of IInv say so, stage by stage.                       *)
(***************************************************************************)
EXTENDS Overclock, TLAPS

Fits(m)   == Needs[m.rate] <= m.vsel
Modest(m) == Fits(m) /\ Needs[m.rate] <= Needs[DRIVER_DEFAULT_RATE]

\* Before the stats module is loaded nothing has changed since the start.
Boot ==
  documented /\ ~ stats =>
    /\ loaded = "out" /\ opp = Original /\ freq[0] = OrigRate /\ freq[1] = Low
    /\ cur \in {OrigRate, Low}

\* Without the module the tables are modest and agree.
Out ==
  documented /\ loaded = "out" => stage = "idle" /\ Modest(opp) /\ freq[0] = opp.rate

\* Until the first call of set_max_speed the tables are as found.
Untouched ==
  documented /\ loaded # "out" /\ bak = Nothing =>
    /\ loaded = "in" /\ stage \in {"idle", "tables"}
    /\ opp = atload /\ freq[0] = opp.rate
    /\ stage = "idle" => max = Default

\* From then on the backup is what was found.
Saved ==
  documented /\ loaded # "out" =>
    /\ stats /\ Modest(atload)
    /\ bak # Nothing => bak = atload
    /\ bak # Nothing \/ stage # "idle" => known /\ statsp = "live"

\* While the module is in use.
Used ==
  documented /\ loaded = "in" =>
    /\ Fits(max)
    /\ stage = "idle" => freq[0] = opp.rate /\ (bak # Nothing => opp = max)
    /\ Fits(opp)
    /\ Needs[opp.rate] <= max.vsel

\* When it is unloaded the backup is put back.
Leaving ==
  documented /\ loaded = "leaving" => stage # "idle" /\ max = bak /\ bak # Nothing

\* What set_max_speed has stored.
Stored ==
  documented =>
    /\ stage \in {"stats", "first", "last"} =>
         bak # Nothing /\ freq[0] = max.rate /\ policy_max = max.rate
    /\ stage \in {"first", "last"} => labels[0] = max.rate
    /\ stage = "last" => opp.vsel = max.vsel

IInv == TypeOK /\ Boot /\ Out /\ Untouched /\ Saved /\ Used /\ Leaving /\ Stored
-----------------------------------------------------------------------------
\* The default of the module is modest.
LEMMA DefaultModest == Modest(Default)
<1>1. Needs[DRIVER_DEFAULT_RATE] \in Nat
  BY OverclockAssumption
<1>2. Default.rate = DRIVER_DEFAULT_RATE /\ Default.vsel = DRIVER_DEFAULT_VSEL
  BY DEF Default
<1> QED BY <1>1, <1>2, DefaultAssumption DEF Modest, Fits

\* Outside the documented usage only the types remain.
LEMMA Undocumented == ASSUME TypeOK', ~ documented' PROVE IInv'
BY DEF IInv, Boot, Out, Untouched, Saved, Used, Leaving, Stored

\* The first store takes the backup, and the maximum is in use already.
LEMMA StoreTablesKeeps == ASSUME IInv, store_tables PROVE IInv'
<1>1. TypeOK'
  BY OverclockAssumption DEF IInv, TypeOK, documented, Nothing, Default, Pairs, Levels,
     counts, tables, store_tables
<1>2. Boot'
  BY OverclockAssumption DEF IInv, Boot, documented, Nothing, Default, Pairs, Out, counts,
     tables, store_tables
<1>3. Out'
  BY DEF IInv, Out, documented, Fits, Modest, counts, tables, store_tables
<1>4. Untouched'
  BY OverclockAssumption DEF IInv, Untouched, documented, Nothing, Default, TypeOK, Pairs,
     Levels, counts, tables, store_tables
<1>5. Saved'
  BY OverclockAssumption DEF IInv, Saved, documented, Fits, Modest, Nothing, Default, TypeOK,
     Pairs, Untouched, counts, tables, store_tables
<1>6. Used'
  BY DEF IInv, Used, documented, Fits, Modest, counts, tables, store_tables
<1>7. Leaving'
  BY OverclockAssumption DEF IInv, Leaving, documented, Nothing, Default, TypeOK, Pairs,
     Levels, counts, tables, store_tables
<1>8. Stored'
  BY OverclockAssumption DEF IInv, Stored, documented, Nothing, Default, TypeOK, Pairs,
     Levels, counts, tables, store_tables
<1> QED BY <1>1, <1>2, <1>3, <1>4, <1>5, <1>6, <1>7, <1>8 DEF IInv

\* The label of the top entry is stored.
LEMMA StoreStatsKeeps == ASSUME IInv, store_stats PROVE IInv'
<1>1. TypeOK'
  BY OverclockAssumption DEF IInv, TypeOK, documented, Nothing, Default, Pairs, Levels,
     counts, tables, store_stats, Relabelled
<1>2. Boot'
  BY DEF IInv, Boot, documented, counts, tables, store_stats, Relabelled
<1>3. Out'
  BY DEF IInv, Out, documented, Fits, Modest, counts, tables, store_stats, Relabelled
<1>4. Untouched'
  BY DEF IInv, Untouched, documented, counts, tables, store_stats, Relabelled
<1>5. Saved'
  BY DEF IInv, Saved, documented, Fits, Modest, counts, tables, store_stats, Relabelled
<1>6. Used'
  BY DEF IInv, Used, documented, Fits, Modest, counts, tables, store_stats, Relabelled
<1>7. Leaving'
  BY DEF IInv, Leaving, documented, counts, tables, store_stats, Relabelled
<1>8. Stored'
  BY OverclockAssumption, DefaultAssumption DEF IInv, Stored, documented, Nothing, Default,
     TypeOK, Out, Saved, Fits, Modest, Levels, Original, Pairs, counts, tables, store_stats,
     Relabelled
<1> QED BY <1>1, <1>2, <1>3, <1>4, <1>5, <1>6, <1>7, <1>8 DEF IInv

\* The voltage is stored: it is enough for the rate that is still there.
LEMMA StoreFirstKeeps == ASSUME IInv, store_first PROVE IInv'
<1>1. TypeOK'
  BY OverclockAssumption DEF IInv, TypeOK, documented, Nothing, Default, Pairs, Levels,
     counts, tables, store_first, Stores
<1>2. Boot'
  BY OverclockAssumption DEF IInv, Boot, documented, Nothing, Default, Pairs, Out, counts,
     tables, store_first, Stores
<1>3. Out'
  BY DEF IInv, Out, documented, Fits, Modest, counts, tables, store_first, Stores
<1>4. Untouched'
  BY DEF IInv, Untouched, documented, counts, tables, store_first, Stores
<1>5. Saved'
  BY DEF IInv, Saved, documented, Fits, Modest, counts, tables, store_first, Stores
<1>6. Used'
  BY DEF IInv, Used, documented, Fits, Modest, counts, tables, store_first, Stores
<1>7. Leaving'
  BY DEF IInv, Leaving, documented, counts, tables, store_first, Stores
<1>8. Stored'
  BY OverclockAssumption DEF IInv, Stored, documented, Nothing, Default, TypeOK, Pairs,
     Levels, counts, tables, store_first, Stores
<1> QED BY <1>1, <1>2, <1>3, <1>4, <1>5, <1>6, <1>7, <1>8 DEF IInv

\* The rate is stored: its voltage is there already.
LEMMA StoreLastKeeps == ASSUME IInv, store_last PROVE IInv'
<1>1. TypeOK'
  BY OverclockAssumption DEF IInv, TypeOK, documented, Nothing, Default, Pairs, Levels,
     counts, tables, store_last, Stores
<1>2. Boot'
  BY OverclockAssumption DEF IInv, Boot, documented, Nothing, Default, Pairs, Out, counts,
     tables, store_last, Stores
<1>3. Out'
  BY OverclockAssumption DEF IInv, Out, documented, Fits, Modest, Nothing, Default, TypeOK,
     Pairs, Saved, Leaving, Stored, counts, tables, store_last, Stores
<1>4. Untouched'
  BY DEF IInv, Untouched, documented, counts, tables, store_last, Stores
<1>5. Saved'
  BY DEF IInv, Saved, documented, Fits, Modest, counts, tables, store_last, Stores
<1>6. Used'
  BY OverclockAssumption DEF IInv, Used, documented, Fits, Modest, Nothing, Default, TypeOK,
     Pairs, Stored, counts, tables, store_last, Stores
<1>7. Leaving'
  BY DEF IInv, Leaving, documented, counts, tables, store_last, Stores
<1>8. Stored'
  BY DEF IInv, Stored, documented, counts, tables, store_last, Stores
<1> QED BY <1>1, <1>2, <1>3, <1>4, <1>5, <1>6, <1>7, <1>8 DEF IInv

\* Loading: nothing is stored, for the documented usage passes no parameters.
LEMMA OverclockInitKeeps == ASSUME IInv, overclock_init PROVE IInv'
<1>1. TypeOK'
  BY OverclockAssumption DEF IInv, TypeOK, documented, Nothing, Default, Pairs, Levels,
     counts, tables, overclock_init, Act, set_max_speed
<1>2. Boot'
  BY OverclockAssumption DEF IInv, Boot, documented, Nothing, Default, TypeOK, Pairs, Levels,
     counts, tables, overclock_init, Act, set_max_speed
<1>3. Out'
  BY DEF IInv, Out, documented, Fits, Modest, counts, tables, overclock_init, Act,
     set_max_speed
<1>4. Untouched'
  BY OverclockAssumption DEF IInv, Untouched, documented, Nothing, Default, TypeOK, Pairs,
     Out, counts, tables, overclock_init, Act, set_max_speed
<1>5. Saved'
  BY OverclockAssumption DEF IInv, Saved, documented, Fits, Modest, Nothing, Default, TypeOK,
     Pairs, Out, counts, tables, overclock_init, Act, set_max_speed
<1>6. Used'
  <2>1. SUFFICES ASSUME documented' PROVE Used'
    BY DEF Used
  <2>2. documented /\ max' = Default
    BY <2>1 DEF IInv, TypeOK, overclock_init, Act, documented
  <2>3. Modest(opp) /\ freq[0] = opp.rate
    BY <2>2 DEF IInv, Out, overclock_init
  <2>4. bak' = Nothing /\ stage' = "idle" /\ freq' = freq /\ opp' = opp
    BY <2>2 DEF overclock_init, tables, set_max_speed
  <2>5. Needs[opp.rate] \in Nat /\ Needs[DRIVER_DEFAULT_RATE] \in Nat /\ DRIVER_DEFAULT_VSEL \in Nat
    BY OverclockAssumption DEF IInv, TypeOK, Pairs
  <2>6. Fits(Default) /\ Needs[opp.rate] <= DRIVER_DEFAULT_VSEL
    BY <2>3, <2>5, DefaultAssumption DEF Modest, Fits, Default
  <2> QED
    BY <2>2, <2>3, <2>4, <2>6 DEF Used, Modest, Fits, Default
<1>7. Leaving'
  BY DEF IInv, Leaving, documented, counts, tables, overclock_init, Act, set_max_speed
<1>8. Stored'
  BY DEF IInv, Stored, documented, counts, tables, overclock_init, Act, set_max_speed
<1> QED BY <1>1, <1>2, <1>3, <1>4, <1>5, <1>6, <1>7, <1>8 DEF IInv

\* Unloading takes the backup, or finds nothing to undo.
LEMMA OverclockExitKeeps == ASSUME IInv, overclock_exit PROVE IInv'
<1>1. TypeOK'
  BY OverclockAssumption DEF IInv, TypeOK, documented, Nothing, Default, Pairs, Levels,
     counts, tables, overclock_exit, InUse, set_max_speed
<1>2. Boot'
  BY DEF IInv, Boot, documented, counts, tables, overclock_exit, InUse, set_max_speed
<1>3. Out'
  <2>1. SUFFICES ASSUME documented, loaded' = "out" PROVE stage' = "idle" /\ Modest(opp) /\ freq[0] = opp.rate
    BY DEF Out, overclock_exit, tables, documented, Modest, Fits
  <2>2. max = Default
    BY <2>1 DEF IInv, overclock_exit, InUse, Untouched, Saved
  <2>3. CASE bak = Nothing
    BY <2>1, <2>2, <2>3 DEF IInv, overclock_exit, InUse, set_max_speed, Untouched, Saved
  <2>4. CASE bak # Nothing
    <3>1. opp = Default /\ freq[0] = opp.rate
      BY <2>1, <2>2, <2>4 DEF IInv, overclock_exit, InUse, Used
    <3> QED BY <2>2, <3>1, DefaultModest DEF overclock_exit, set_max_speed
  <2> QED BY <2>3, <2>4
<1>4. Untouched'
  BY DEF IInv, Untouched, documented, counts, tables, overclock_exit, InUse, set_max_speed
<1>5. Saved'
  BY OverclockAssumption DEF IInv, Saved, documented, Fits, Modest, Nothing, Default, Pairs,
     Untouched, counts, tables, overclock_exit, InUse, set_max_speed
<1>6. Used'
  BY DEF IInv, Used, documented, Fits, Modest, counts, tables, overclock_exit, InUse,
     set_max_speed
<1>7. Leaving'
  BY OverclockAssumption DEF IInv, Leaving, documented, Nothing, Default, Pairs, Untouched,
     counts, tables, overclock_exit, InUse, set_max_speed
<1>8. Stored'
  BY DEF IInv, Stored, documented, counts, tables, overclock_exit, InUse, set_max_speed
<1> QED BY <1>1, <1>2, <1>3, <1>4, <1>5, <1>6, <1>7, <1>8 DEF IInv

\* A new maximal rate, in the documented usage one that fits.
LEMMA ProcMaxRateWriteKeeps == ASSUME IInv, proc_max_rate_write PROVE IInv'
<1>1. TypeOK'
  BY OverclockAssumption DEF IInv, TypeOK, documented, Nothing, Default, Pairs, Levels,
     counts, tables, proc_max_rate_write, Write, InUse, Act, Careful, set_max_speed
<1>2. Boot'
  BY OverclockAssumption DEF IInv, Boot, documented, Nothing, Default, TypeOK, Pairs, Levels,
     counts, tables, proc_max_rate_write, Write, InUse, Act, Careful, set_max_speed
<1>3. Out'
  BY DEF IInv, Out, documented, Fits, Modest, counts, tables, proc_max_rate_write, Write,
     InUse, Act, Careful, set_max_speed
<1>4. Untouched'
  BY OverclockAssumption DEF IInv, Untouched, documented, Nothing, Default, TypeOK, Pairs,
     Levels, counts, tables, proc_max_rate_write, Write, InUse, Act, Careful, set_max_speed
<1>5. Saved'
  BY OverclockAssumption DEF IInv, Saved, documented, Fits, Modest, Nothing, Default, TypeOK,
     Pairs, Levels, counts, tables, proc_max_rate_write, Write, InUse, Act, Careful,
     set_max_speed
<1>6. Used'
  BY OverclockAssumption DEF IInv, Used, documented, Fits, Modest, Nothing, Default, TypeOK,
     Pairs, Levels, counts, tables, proc_max_rate_write, Write, InUse, Act, Careful,
     set_max_speed
<1>7. Leaving'
  BY DEF IInv, Leaving, documented, counts, tables, proc_max_rate_write, Write, InUse, Act,
     Careful, set_max_speed
<1>8. Stored'
  BY DEF IInv, Stored, documented, counts, tables, proc_max_rate_write, Write, InUse, Act,
     Careful, set_max_speed
<1> QED BY <1>1, <1>2, <1>3, <1>4, <1>5, <1>6, <1>7, <1>8 DEF IInv

\* A new maximal voltage, in the documented usage one that is enough.
LEMMA ProcMaxVselWriteKeeps == ASSUME IInv, proc_max_vsel_write PROVE IInv'
<1>1. TypeOK'
  BY OverclockAssumption DEF IInv, TypeOK, documented, Nothing, Default, Pairs, Levels,
     counts, tables, proc_max_vsel_write, Write, InUse, Act, Careful, set_max_speed
<1>2. Boot'
  BY OverclockAssumption DEF IInv, Boot, documented, Nothing, Default, TypeOK, Pairs, Levels,
     counts, tables, proc_max_vsel_write, Write, InUse, Act, Careful, set_max_speed
<1>3. Out'
  BY DEF IInv, Out, documented, Fits, Modest, counts, tables, proc_max_vsel_write, Write,
     InUse, Act, Careful, set_max_speed
<1>4. Untouched'
  BY OverclockAssumption DEF IInv, Untouched, documented, Nothing, Default, TypeOK, Pairs,
     Levels, counts, tables, proc_max_vsel_write, Write, InUse, Act, Careful, set_max_speed
<1>5. Saved'
  BY OverclockAssumption DEF IInv, Saved, documented, Fits, Modest, Nothing, Default, TypeOK,
     Pairs, Levels, counts, tables, proc_max_vsel_write, Write, InUse, Act, Careful,
     set_max_speed
<1>6. Used'
  BY OverclockAssumption DEF IInv, Used, documented, Fits, Modest, Nothing, Default, TypeOK,
     Pairs, Untouched, Saved, counts, tables, proc_max_vsel_write, Write, InUse, Act, Careful,
     set_max_speed
<1>7. Leaving'
  BY DEF IInv, Leaving, documented, counts, tables, proc_max_vsel_write, Write, InUse, Act,
     Careful, set_max_speed
<1>8. Stored'
  BY DEF IInv, Stored, documented, counts, tables, proc_max_vsel_write, Write, InUse, Act,
     Careful, set_max_speed
<1> QED BY <1>1, <1>2, <1>3, <1>4, <1>5, <1>6, <1>7, <1>8 DEF IInv

\* The address of mpu_opps becomes known.
LEMMA ProcMpuOppsAddrWriteKeeps == ASSUME IInv, proc_mpu_opps_addr_write PROVE IInv'
<1>1. TypeOK'
  BY OverclockAssumption DEF IInv, TypeOK, documented, Nothing, Default, Pairs, Levels,
     counts, tables, proc_mpu_opps_addr_write, InUse
<1>2. Boot'
  BY DEF IInv, Boot, documented, counts, tables, proc_mpu_opps_addr_write, InUse
<1>3. Out'
  BY DEF IInv, Out, documented, Fits, Modest, counts, tables, proc_mpu_opps_addr_write, InUse
<1>4. Untouched'
  BY DEF IInv, Untouched, documented, counts, tables, proc_mpu_opps_addr_write, InUse
<1>5. Saved'
  BY DEF IInv, Saved, documented, Fits, Modest, counts, tables, proc_mpu_opps_addr_write,
     InUse
<1>6. Used'
  BY DEF IInv, Used, documented, Fits, Modest, counts, tables, proc_mpu_opps_addr_write, InUse
<1>7. Leaving'
  BY DEF IInv, Leaving, documented, counts, tables, proc_mpu_opps_addr_write, InUse
<1>8. Stored'
  BY DEF IInv, Stored, documented, counts, tables, proc_mpu_opps_addr_write, InUse
<1> QED BY <1>1, <1>2, <1>3, <1>4, <1>5, <1>6, <1>7, <1>8 DEF IInv

\* The address of the stats becomes known.
LEMMA ProcCpufreqStatsTableAddrWriteKeeps ==
  ASSUME IInv, proc_cpufreq_stats_table_addr_write PROVE IInv'
<1>1. TypeOK'
  BY OverclockAssumption DEF IInv, TypeOK, documented, Nothing, Default, Pairs, Levels,
     counts, tables, proc_cpufreq_stats_table_addr_write, InUse
<1>2. Boot'
  BY DEF IInv, Boot, documented, counts, tables, proc_cpufreq_stats_table_addr_write, InUse
<1>3. Out'
  BY DEF IInv, Out, documented, Fits, Modest, counts, tables,
     proc_cpufreq_stats_table_addr_write, InUse
<1>4. Untouched'
  BY DEF IInv, Untouched, documented, counts, tables, proc_cpufreq_stats_table_addr_write,
     InUse
<1>5. Saved'
  BY DEF IInv, Saved, documented, Fits, Modest, counts, tables,
     proc_cpufreq_stats_table_addr_write, InUse
<1>6. Used'
  BY DEF IInv, Used, documented, Fits, Modest, counts, tables,
     proc_cpufreq_stats_table_addr_write, InUse
<1>7. Leaving'
  BY DEF IInv, Leaving, documented, counts, tables, proc_cpufreq_stats_table_addr_write, InUse
<1>8. Stored'
  BY DEF IInv, Stored, documented, counts, tables, proc_cpufreq_stats_table_addr_write, InUse
<1> QED BY <1>1, <1>2, <1>3, <1>4, <1>5, <1>6, <1>7, <1>8 DEF IInv

\* Past the documented usage: an entry of freq_table is written.
LEMMA ProcFreqTableWriteKeeps == ASSUME IInv, proc_freq_table_write PROVE IInv'
<1>1. TypeOK'
  BY OverclockAssumption DEF IInv, TypeOK, documented, Nothing, Default, Pairs, Levels,
     counts, tables, proc_freq_table_write, InUse, Act, Relabelled
<1>2. ~ documented'
  BY OverclockAssumption DEF IInv, TypeOK, proc_freq_table_write, Act, documented
<1> QED BY <1>1, <1>2, Undocumented

\* Past the documented usage: an entry of mpu_opps is written.
LEMMA ProcMpuOppsWriteKeeps == ASSUME IInv, proc_mpu_opps_write PROVE IInv'
<1>1. TypeOK'
  BY OverclockAssumption DEF IInv, TypeOK, documented, Nothing, Default, Pairs, Levels,
     counts, tables, proc_mpu_opps_write, InUse, Act
<1>2. ~ documented'
  BY OverclockAssumption DEF IInv, TypeOK, proc_mpu_opps_write, Act, documented
<1> QED BY <1>1, <1>2, Undocumented

\* cpufreq_stats is loaded: the frequency is one of the table.
LEMMA CpufreqStatsInitKeeps == ASSUME IInv, cpufreq_stats_init PROVE IInv'
<1>1. TypeOK'
  BY OverclockAssumption, DefaultAssumption DEF IInv, TypeOK, documented, Nothing, Default,
     Boot, Fits, Modest, Levels, Original, Pairs, counts, tables, cpufreq_stats_init, Index
<1>2. Boot'
  BY DEF IInv, Boot, documented, counts, tables, cpufreq_stats_init, Index
<1>3. Out'
  BY DEF IInv, Out, documented, Fits, Modest, counts, tables, cpufreq_stats_init, Index
<1>4. Untouched'
  BY DEF IInv, Untouched, documented, counts, tables, cpufreq_stats_init, Index
<1>5. Saved'
  BY DEF IInv, Saved, documented, Fits, Modest, counts, tables, cpufreq_stats_init, Index
<1>6. Used'
  BY DEF IInv, Used, documented, Fits, Modest, counts, tables, cpufreq_stats_init, Index
<1>7. Leaving'
  BY DEF IInv, Leaving, documented, counts, tables, cpufreq_stats_init, Index
<1>8. Stored'
  BY DEF IInv, Stored, documented, counts, tables, cpufreq_stats_init, Index
<1> QED BY <1>1, <1>2, <1>3, <1>4, <1>5, <1>6, <1>7, <1>8 DEF IInv

\* Past the documented usage: cpufreq_stats is unloaded.
LEMMA CpufreqStatsExitKeeps == ASSUME IInv, cpufreq_stats_exit PROVE IInv'
<1>1. TypeOK'
  <2>1. liberties' \in 0 .. MaxLiberties /\ ~ documented'
    BY OverclockAssumption DEF IInv, TypeOK, cpufreq_stats_exit, Act, documented
  <2>2. stats' \in BOOLEAN /\ statsp' \in {"null", "live", "freed"}
    BY Zenon DEF IInv, TypeOK, cpufreq_stats_exit
  <2> QED BY <2>1, <2>2 DEF IInv, TypeOK, cpufreq_stats_exit, tables
<1>2. ~ documented'
  BY OverclockAssumption DEF IInv, TypeOK, cpufreq_stats_exit, Act, documented
<1> QED BY <1>1, <1>2, Undocumented

\* A switch of frequency, counted or not.
LEMMA SwitchKeeps == ASSUME IInv, Switch PROVE IInv'
<1>1. TypeOK'
  BY OverclockAssumption DEF IInv, TypeOK, documented, Nothing, Default, Pairs, Levels,
     counts, tables, Switch, cpufreq_stat_notifier_trans, Index
<1>2. Boot'
  BY OverclockAssumption DEF IInv, Boot, documented, Nothing, Default, Pairs, Out, counts,
     tables, Switch, cpufreq_stat_notifier_trans, Index
<1>3. Out'
  BY DEF IInv, Out, documented, Fits, Modest, counts, tables, Switch,
     cpufreq_stat_notifier_trans, Index
<1>4. Untouched'
  BY DEF IInv, Untouched, documented, counts, tables, Switch, cpufreq_stat_notifier_trans,
     Index
<1>5. Saved'
  BY DEF IInv, Saved, documented, Fits, Modest, counts, tables, Switch,
     cpufreq_stat_notifier_trans, Index
<1>6. Used'
  BY DEF IInv, Used, documented, Fits, Modest, counts, tables, Switch,
     cpufreq_stat_notifier_trans, Index
<1>7. Leaving'
  BY DEF IInv, Leaving, documented, counts, tables, Switch, cpufreq_stat_notifier_trans, Index
<1>8. Stored'
  BY DEF IInv, Stored, documented, counts, tables, Switch, cpufreq_stat_notifier_trans, Index
<1> QED BY <1>1, <1>2, <1>3, <1>4, <1>5, <1>6, <1>7, <1>8 DEF IInv
-----------------------------------------------------------------------------
\* The invariant holds at the start.
LEMMA InitIInv == Init => IInv
<1> SUFFICES ASSUME Init PROVE IInv
  OBVIOUS
<1>1. TypeOK
  <2>1. known \in BOOLEAN /\ stats \in BOOLEAN
    BY Zenon DEF Init
  <2>2. max \in Pairs /\ bak \in Pairs \cup {Nothing} /\ atload \in Pairs /\ opp \in Pairs
    BY OverclockAssumption DEF Init, Default, Original, Pairs
  <2>3. /\ freq \in [Levels -> Rates] /\ policy_max \in Rates /\ cur \in Rates
        /\ labels \in [Levels -> Rates \cup {0}] /\ last_index = 0
    BY OverclockAssumption DEF Init
  <2>4. liberties \in 0 .. MaxLiberties
    BY OverclockAssumption DEF Init
  <2> QED BY <2>1, <2>2, <2>3, <2>4 DEF Init, TypeOK, Levels
<1>2. Needs[OrigRate] \in Nat /\ Needs[DRIVER_DEFAULT_RATE] \in Nat /\ OrigVsel \in Nat
  BY OverclockAssumption
<1>3. Modest(Original)
  BY <1>2, OverclockAssumption, DefaultAssumption DEF Modest, Fits, Original
<1>4. freq[0] = OrigRate /\ freq[1] = Low /\ opp.rate = OrigRate
  BY DEF Init, Levels, Original
<1>5. Boot /\ Out /\ Untouched /\ Saved /\ Used /\ Leaving /\ Stored
  BY <1>3, <1>4 DEF Init, Boot, Out, Untouched, Saved, Used, Leaving, Stored, documented
<1> QED BY <1>1, <1>5 DEF IInv

\* A stutter keeps it.
LEMMA StutterKeeps == ASSUME IInv, UNCHANGED vars PROVE IInv'
<1>1. TypeOK'
  BY Zenon DEF IInv, TypeOK, documented, vars, tables, counts
<1>2. Boot' /\ Out' /\ Untouched' /\ Saved'
  BY Zenon DEF IInv, Boot, Out, Untouched, Saved, Fits, Modest, documented, vars, tables, counts
<1>3. Used' /\ Leaving' /\ Stored'
  BY Zenon DEF IInv, Used, Leaving, Stored, Fits, documented, vars, tables, counts
<1> QED BY <1>1, <1>2, <1>3 DEF IInv

\* Every step keeps it.
LEMMA StepKeeps == ASSUME IInv, [Next]_vars PROVE IInv'
<1>1. CASE Next
  BY <1>1, StoreTablesKeeps, StoreStatsKeeps, StoreFirstKeeps, StoreLastKeeps,
     OverclockInitKeeps, OverclockExitKeeps, ProcMaxRateWriteKeeps,
     ProcMaxVselWriteKeeps, ProcMpuOppsAddrWriteKeeps,
     ProcCpufreqStatsTableAddrWriteKeeps, ProcFreqTableWriteKeeps,
     ProcMpuOppsWriteKeeps, CpufreqStatsInitKeeps, CpufreqStatsExitKeeps,
     SwitchKeeps
     DEF Next
<1>2. CASE UNCHANGED vars
  BY <1>2, StutterKeeps
<1> QED BY <1>1, <1>2

\* The tables, the maximum, the backup and the stage of set_max_speed belong together
\* in every reachable state.
THEOREM Invariant == Spec => []IInv
<1>1. Init => IInv
  BY InitIInv
<1>2. IInv /\ [Next]_vars => IInv'
  BY StepKeeps
<1> QED BY <1>1, <1>2, PTL DEF Spec

\* Whatever the frequencies and voltages: with the documented usage time_in_state is
\* never indexed with -1.
THEOREM TypesHold == Spec => []TypeOK
<1>1. IInv => TypeOK
  BY DEF IInv
<1> QED BY <1>1, Invariant, PTL

\* Whatever the frequencies and voltages: the documented usage keeps the top frequency
\* powered, between the stores of set_max_speed too.
THEOREM AlwaysPowered == Spec => []Powered
<1>1. IInv => Powered
  BY DEF IInv, TypeOK, Powered, Out, Used, Modest, Fits
<1> QED BY <1>1, Invariant, PTL

\* Whatever was set in between: what the unloading restores is what the loading found.
THEOREM ExitRestores == Spec => Restores
<1>1. ASSUME IInv, [Next]_vars, documented, loaded = "leaving", loaded' = "out"
      PROVE  /\ opp' = atload /\ freq'[0] = atload.rate
             /\ policy_max' = atload.rate /\ labels'[0] = atload.rate
  <2>1. CASE store_last
    <3>1. max = atload
      BY <1>1 DEF IInv, Leaving, Saved
    <3>2. /\ freq[0] = max.rate /\ policy_max = max.rate
          /\ labels[0] = max.rate /\ opp.vsel = max.vsel
      BY <1>1, <2>1 DEF IInv, Stored, store_last
    <3>3. opp' = [opp EXCEPT !.rate = max.rate] /\ UNCHANGED <<freq, policy_max, labels>>
      BY <2>1 DEF store_last, Stores, counts
    <3>4. opp' = max
      BY <1>1, <3>2, <3>3, <3>1 DEF IInv, TypeOK, Pairs
    <3> QED BY <3>1, <3>2, <3>3, <3>4
  <2>2. CASE ~ store_last
    BY <1>1, <2>2 DEF Next, store_tables, store_stats, store_first, overclock_init,
       overclock_exit, InUse, proc_max_rate_write, proc_max_vsel_write, Write,
       proc_mpu_opps_addr_write, proc_cpufreq_stats_table_addr_write,
       proc_freq_table_write, proc_mpu_opps_write, cpufreq_stats_init,
       cpufreq_stats_exit, Switch, vars
  <2> QED BY <2>1, <2>2
<1>2. IInv /\ [Next]_vars =>
        [documented /\ loaded = "leaving" /\ loaded' = "out"
           => /\ opp' = atload /\ freq'[0] = atload.rate
              /\ policy_max' = atload.rate /\ labels'[0] = atload.rate]_vars
  BY <1>1
<1> QED BY <1>2, Invariant, PTL DEF Spec, Restores

\* What the tables have without the module, and what a loading finds, is the kernel's
\* or the default.
Kept ==
  documented => /\ loaded = "out" => opp \in {Original, Default}
                /\ loaded # "out" => atload \in {Original, Default}

\* A step that keeps to the documented usage keeps it: only the loading, the exit and
\* the last store of the restoring end where it says something new.
LEMMA KeptStep == ASSUME IInv, Kept, [Next]_vars PROVE Kept'
<1> SUFFICES ASSUME documented' PROVE Kept'
  BY DEF Kept
<1>1. documented
  <2>1. liberties \in Nat /\ liberties' = 0
    BY OverclockAssumption DEF IInv, TypeOK, documented
  <2>2. liberties' = liberties \/ liberties' = liberties + 1
    <3>1. CASE \/ overclock_init \/ proc_max_rate_write \/ proc_max_vsel_write
               \/ proc_freq_table_write \/ proc_mpu_opps_write \/ cpufreq_stats_exit
      BY <3>1 DEF Act, overclock_init, proc_max_rate_write, proc_max_vsel_write, Write,
         proc_freq_table_write, proc_mpu_opps_write, cpufreq_stats_exit
    <3>2. CASE \/ store_tables \/ store_stats \/ store_first \/ store_last \/ overclock_exit
               \/ proc_mpu_opps_addr_write \/ proc_cpufreq_stats_table_addr_write
               \/ cpufreq_stats_init \/ Switch \/ UNCHANGED vars
      BY <3>2 DEF store_tables, store_stats, store_first, store_last, overclock_exit,
         proc_mpu_opps_addr_write, proc_cpufreq_stats_table_addr_write,
         cpufreq_stats_init, Switch, vars
    <3> QED BY <3>1, <3>2 DEF Next
  <2> QED BY <2>1, <2>2 DEF documented
<1>2. CASE overclock_init
  BY <1>1, <1>2 DEF Kept, overclock_init
<1>3. CASE overclock_exit
  <2>1. bak # Nothing => known /\ opp = max
    BY <1>1, <1>3 DEF IInv, Saved, Used, overclock_exit, InUse
  <2>2. bak = Nothing => opp = atload
    BY <1>1, <1>3 DEF IInv, Untouched, overclock_exit, InUse
  <2>3. loaded' = "out" => opp \in {Original, Default}
    BY <1>1, <1>3, <2>1, <2>2 DEF Kept, overclock_exit, InUse
  <2>4. UNCHANGED <<opp, atload>> /\ loaded # "out"
    BY <1>3 DEF overclock_exit, InUse, tables
  <2> QED BY <1>1, <2>3, <2>4 DEF Kept
<1>4. CASE store_last
  <2>1. loaded # "out"
    BY <1>1, <1>4 DEF IInv, Out, store_last
  <2>2. atload' = atload /\ atload \in {Original, Default}
    BY <1>1, <1>4, <2>1 DEF Kept, store_last
  <2>3. CASE loaded = "leaving"
    <3>1. max = atload /\ opp.vsel = max.vsel
      BY <1>1, <1>4, <2>3 DEF IInv, Leaving, Saved, Stored, store_last
    <3>2. opp' = max
      BY <1>4, <3>1 DEF IInv, TypeOK, Pairs, store_last, Stores
    <3> QED BY <2>2, <3>1, <3>2 DEF Kept
  <2>4. CASE loaded # "leaving"
    BY <1>4, <2>1, <2>2, <2>4 DEF Kept, store_last
  <2> QED BY <2>3, <2>4
<1>5. CASE store_first
  BY <1>1, <1>5 DEF Kept, IInv, Out, store_first
<1>6. CASE \/ store_tables \/ store_stats \/ proc_max_rate_write \/ proc_max_vsel_write
           \/ proc_mpu_opps_addr_write \/ proc_cpufreq_stats_table_addr_write
           \/ cpufreq_stats_init \/ Switch \/ UNCHANGED vars
  <2>1. UNCHANGED <<loaded, opp, atload>>
    BY <1>6 DEF store_tables, store_stats, proc_max_rate_write, proc_max_vsel_write, Write,
       proc_mpu_opps_addr_write, proc_cpufreq_stats_table_addr_write, cpufreq_stats_init,
       Switch, tables, vars
  <2> QED BY <1>1, <2>1 DEF Kept
<1>7. ~ (proc_freq_table_write \/ proc_mpu_opps_write \/ cpufreq_stats_exit)
  BY <1>1 DEF documented, Act, proc_freq_table_write, proc_mpu_opps_write, cpufreq_stats_exit
<1> QED BY <1>2, <1>3, <1>4, <1>5, <1>6, <1>7 DEF Next

\* Whatever the frequencies and voltages: with the documented usage an unloaded module
\* leaves what the kernel had, or the default.
THEOREM ExitLeavesNoMixture == Spec => []OriginalOrDefault
<1>1. Init => Kept
  BY DEF Init, Kept
<1>2. IInv /\ Kept /\ [Next]_vars => Kept'
  BY KeptStep
<1>3. Kept => OriginalOrDefault
  BY DEF Kept, OriginalOrDefault
<1> QED BY <1>1, <1>2, <1>3, Invariant, PTL DEF Spec

=============================================================================
