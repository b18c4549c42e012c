---------------------------- MODULE MCSecondBoot -----------------------------
(* SecondBoot for TLC: descriptors shaped like hboot.cfg and              *)
(* hboot_recovery.cfg, and what else a descriptor may say.                *)
EXTENDS SecondBoot

File(t, n) == [tag |-> t, source |-> "file", size |-> n]
Line(t, s) == [tag |-> t, source |-> s, size |-> 2]

Boot     == <<File(0, 1), File(1, 5), File(2, 3), File(3, 1), File(4, 1)>>
Recovery == <<File(0, 1), File(1, 4), File(2, 2), File(3, 1), File(4, 1)>>

\* No ramdisk, no device tree, no command line.
KernelOnly == <<File(0, 1), File(1, 5)>>

Odd      == { <<Line(0, "none"), File(1, 3), Line(2, "nand"), File(0, 2)>>,
              <<File(0, 1), Line(1, "nand")>>, <<File(1, 2)>>,
              <<File(0, 1), File(1, 5), Line(2, "missing")>>,
              <<File(0, 0), File(1, 1)>>, <<Line(3, "unknown")>>,
              <<File(0, 1), File(1, 7)>>,
              <<File(0, 1), File(9, 1), File(1, 2)>> }

MCDescriptors == {Boot, Recovery, KernelOnly} \cup Odd

\* Checksums compiled out, with reads that may be short; compiled in, with reads
\* that may fail.
MCBuilds == { [crc |-> FALSE, readErrors |-> FALSE, shortReads |-> TRUE],
              [crc |-> TRUE, readErrors |-> TRUE, shortReads |-> FALSE] }

MCMaxSize == [t \in Tags |-> CASE t = 0 -> 0 [] t = 1 -> 6 [] OTHER -> 3]

=============================================================================
