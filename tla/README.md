# Models of the Motorola Defy device tree

`src/` is an Android device tree: boot loader, kernel modules, hardware
libraries and settings application of one family of phones. It is not one
program but a dozen small ones, most of them with threads, interrupts, alarms
or restarts around a few hundred lines of C, C++ or Java. This directory holds
TLA+ models of the ones that have a protocol of their own, the TLC runs that
check them, and the theorems TLAPS proves about them.

## Inventory

What is listed as modelled or partly modelled is described by module further
down. `PROJECT.json` has the sources of every component, the map from
definitions to lines, and the hazards.

| Component | State | Operations | Hard part | Correct when |
|---|---|---|---|---|
| klogger (`modules/sources/klogger`) | byte ring, head, list of readers, mutex, wait queue | open, release, read, flush, console write | the console writes with no lock, at any moment | reads return whole entries in order, nobody sleeps on data |
| second boot (`bootstrap/hbootuser`, `modules/sources/hbootmod`, `bootstrap/hboot`) | descriptor, handles, slots of the driver, boot list, images | allocate, select, append, free, boot, unpack | short and failing reads, kills, slots kept by a driver that outlives its user | the kernel is entered with the images of this attempt or not at all |
| sensors HAL (`libsensors`) | event ring, pending mask and enabled mask per driver, `revents`, wake pipe | `pollEvents`, `readEvents`, `activate` | two threads, blocking files, a ring smaller than a sample burst | samples are delivered in order, none skipped; the thread waits only with nothing in hand |
| SIO scheduler (`modules/sources/overclock/sio-iosched.c`) | four queues, `batched`, `starved`, tunables | add, merge, dispatch, sysfs stores | uninitialised tunables, merges that reorder | the front expires first, nobody waits for ever |
| baseband panic (`DefyParts`, `prebuilt/bin/handle_bp_panic.sh`) | deadline, two alarms, sticky broadcast, notification, flag on flash | panic, countdown, answer, reboot, boot | kills, reboots, a wall clock that is set, intents that cross | an unanswered panic reboots, a snoozed one asks again, the notice is given |
| boosted governor (`modules/sources/overclock/cpufreq_boosted.c`) | timer, work and its two queues, idle hook, statistics of `boosted_info` | start, limits, stop, timer, work, idle loop, early suspend, sysfs stores | timer, work, idle loop and core overlap; each sets the timer in its own cases | a slow CPU is watched, a busy one gets to its maximum, a stopped governor is quiet |
| overclock, cpufreq_stats (`modules/sources/overclock`) | maxima, backup, pointers into the kernel's tables; labels and index of the stats | load, `/proc` writes, unload; load, unload and transition of the stats | stores one by one while the processor switches, lazily taken backup, early returns, pointers that outlive a module | the top frequency has its voltage, unload restores, the index is valid |
| charge-only mode (`charge_only_mode`) | list of alarms, brightness, `shutdown`, `powerup` | alarms, keys, uevents, power-off, restart | handlers change the list that is processed; uevents are drained; system calls fail | the display has its alarms, unplugging switches off, a long press restarts |
| other governors (`cpufreq_interactive.c`, `cpufreq_smartass.c`) | as boosted | as boosted | as boosted | as boosted |
| battery (`modules/sources/cpcap-battery`) | power supplies, delayed work | probe, interrupts, work, remove | work that outlives its device | no work on a freed supply |
| proximity, backlight, LED, multitouch modules | chip registers, hooks | `/proc` and sysfs handlers | unlocked read-modify-write | registers restored |
| power HAL, lights HAL | lazily opened descriptors | hints, light settings | descriptor used outside the lock | no write to a closed descriptor |
| Bluetooth daemon (`bluetooth_bluedroid/uim-sysfs`) | UART descriptor | install, remove | order with the kernel's ST driver | the line discipline follows the install flag |
| boot menu (`bootstrap/splashmenu`) | menu position | key with timeout | - | starts what was chosen |
| camera wrapper, camera misc, netfilter, PVR, android_usb | vendor's | vendor's | - | not this repository's logic |
| tools, fix-up modules, init glue, overlays, prebuilt files | none, or set once | one shot | - | - |

### How they meet

The boot menu runs `2nd-boot.sh`, which loads `hbootmod` and runs `hbootuser`;
the driver branches to `hboot`, which starts a kernel that loads the other
modules. `klogger` hooks into that kernel's console list: every `printk` calls
it. The sensors library and the power library are loaded into the system
server; they meet the kernel through input devices and sysfs. `init` restarts
`panic_daemon` after a panic of the baseband and runs `handle_bp_panic.sh`,
which sends an intent to DefyParts; its service reboots the phone, and its
receiver runs again after the boot. The boosted governor and the overclock module
both use the policy and tables of cpufreq, the one by calls of the core, the
other behind the core's back. What reports on the battery to the charge-only
program is not in the tree: the system it runs in starts the stock `battd`
(`init.mapphone_umts.rc:197-201`). No two modelled components share more than that, so
that the composition is by module within each component: SecondBoot composes the user
program, the driver and the loader; SensorsPoll composes two threads, the
kernel's queues and three rings of InputEventReader; BpPanic composes the script,
service, dialog, alarms and receiver; Overclock composes the module, the user
who writes to it, the switching processor and cpufreq_stats; Boosted composes the timer, the
idle loop, the two workqueues, the core and early suspend.

## Modules

Names are those of the code. A definition marked "Mutant" is a planted bug:
substituted for the definition that follows it, a run must find a property
violated.

### KLogger, LogFeed, MCKLogger, KLoggerProofs

`KLogger` is the `log_kernel` device. A cell of the ring holds
`<<entry, byte>>`, which tells any wrong byte from a right one. A reader's program counter
walks through `klogger_read`: `read_prepare` (the place on the wait queue is
taken), `read_test` (under the mutex), the sleep, `read_lock`, `read_race` (the
second test), the two copies of `do_read_log_to_user` and `read_advance`. The
console write is one step: the phone has one processor and consoles are called
with interrupts off. With `Preempt` it may come between any two steps of a
reader; without, only when the mutex is free, which is what the comments in
`logger.c` ask. What a read finds at an offset that is no header is `Junk`.

`LogFeed` is the abstract specification: a feed of numbered entries, a
position per reader, and how many bytes the ring keeps. What it says of loss is
exact (`Skips`): a write leaves a reader where it is if it ends a header before
the reader's entry, and else moves it over the fewest whole entries that cover
the length written, as `fix_up_readers` does with the head and with every
reader. `KLogger` gives the refinement mapping (`Feed`: the entry that begins at
an offset; `tape`, a history variable, is where each entry begins in all that was
ever written) and states `ImplementsFeed`, which `klog_quiet` checks and
`RingIsFeed` proves. A write that skips an entry too many, or forgets the header, is found.

### SecondBoot, MCSecondBoot, SecondBootProofs

The reading loop of `hbootuser`, the ioctls and writes of the driver, and the unpacking
of `hboot`. Data is counted in units of half a chunk, each carrying the start
of `hbootuser`, the line and the position it comes from, so that a piece of an
old attempt, a shifted or a missing piece are all different. `build` is chosen
in the initial state: whether checksums are compiled in, whether reads may fail
or be short. The driver's slots, selected handle and file position survive
`killed`, as the code's empty release handler leaves them. The list that
`get_bootlist` makes of the slots is a set of handles, of which `hboot` always unpacks the
smallest that is left: the code appends them upwards and goes through them once.

`KernelIntact` is about the kernel image. `ImagesIntact` is about every other
image that `atag.c` tells the kernel of (28, 61, 72): it is the whole file of
a line of this attempt, or, if no line asks for its tag at all, it may be a buffer
that a killed start left, for the driver frees nothing on release
(`hboot.c:317`). `ImagesOwn` excludes that as well. It holds of descriptors that
ask for every tag, as the two shipped ones do, and `ShippedImagesAreOwn` proves
it of them; no run has it, since the run's other descriptors break it.

### InputEventReader, SensorsPoll, MCSensorsPoll, SensorsPollProofs

`InputEventReader` is the ring as operators on a record: `fill` with what
`read(2)` returned, `readEvent`, `next`. `SensorsPoll` has the loop of
`pollEvents` (`scan`, the steps of `readEvents`, `poll`), `activate` on its own thread
in up to three steps, and the kernel drivers as the environment: an event per
sensor that changed, then SYN. KXTF9 also has `Orientation` events (ABS_MISC),
which `processEvent` drops; the SYN after one delivers `mPendingEvent` as any SYN does,
so that a sample is delivered again. The values in events are sample numbers, and
`got` is the history of what was delivered.
`SamplesInOrder` speaks of the ring and the data file of a driver as one
`Queue`: what is delivered, the sample that has left the ring and what is
queued are the numbers 1 to `made`, none skipped, each once but for as many repeats
of KXTF9's as it dropped orientation events. `HeldIsDue` says that what is held
in a ring has its `revents`; AK8973, which returns a pending temperature
without a look at its ring, is excepted, and with it the property fails.

### SioScheduler, MCSioScheduler, SioSchedulerProofs

One action per elevator call. `dispatch(c)` takes the class that
`sio_dispatch_requests` chooses; the order in which the code tries the classes is a
rank. `starved` and `writes_starved` start with any value of `Garbage`, for
`sio_init_queue` leaves them as `kmalloc_node` returned them, and `starved` wraps at
`Word` as the unsigned counter does. `passed`, `urgent` and `overdue` are history
variables: the reads that passed the waiting write, those of them that were
dispatched because they had expired, and the requests that passed an expired
write. `fifo_batch` may be stored as 0, and then every dispatch looks for expired requests
first. `WritesNotStarved` says what the code guarantees: `writes_starved + 1` reads
and the expired ones. That is one more than the source's comment says, and `writes_starved`
is not the source's default until it is stored: both are findings.

### BpPanic, MCBpPanic, BpPanicProofs

Deadlines are kept as the time that is left, so that the states do not depend
on the date, except where the code does: `updateTimeout` casts a difference to
`int`, and with `mRebootTimeout = -1` the result depends on the wall clock,
which is kept modulo `Word`. Intents go through an inbox in the order of
`startService`; the alarms are two one-shot timers. `killed` clears what is in memory and keeps
alarms, sticky broadcast and preferences. `power_loss` clears all but flash.

### Boosted, MCBoosted, BoostedProofs

`Boosted` is the governor on the phone's one processor. An action is what runs
from one call that may sleep (`__cpufreq_driver_target`, `flush_work`) to the
next; the timer and the idle loop, which do not sleep, come between any two.
So `GOV_STOP` is `gov_stop`, `flush_work` and `gov_stopped`, and the work is
`work_take`, `work_jump` and `work_rearm`, for each of the two queues its one
work struct may be on. Times are abstracted: `sample` says whether the CPU was
idle since the last `reset_timer`, or that `idle_exit_time` is 0, and the timer
chooses any load that fits and whether a rate limit has passed. What a load
and a ramp make of the frequency is kept (`target_freq`).

`Overlaps` names the calls that may overlap in ways that the code does not
guard: two `instances` of the work on the two queues, a `GOV_STOP` that is
`preempt`ed for longer than the timer's period, the early-`suspend` handler in the middle of a
stop, and a `restart` before a leftover timer has fired. The run and the
theorems have none of them; each, added alone, breaks `Watched` or
`QuietAfterStop`, and the findings say how.

### ChargeOnly, MCChargeOnly, ChargeOnlyProofs

The program of one thread that shows the battery while the phone is off. The
alarm list is kept sorted, in ticks from now, and ticks pass also while the
thread works, so that alarms are late by up to `MaxLate`. Each handler is one
action with every alarm it cancels and sets; `DisplayEnds`, `Animated` and
`power_event` are the functions they share. `ev_get` takes one key event, and
looks at keys before uevents; `uevent` takes all uevents and looks at the last.
The history variable `lost` says that a battery uevent was not the last, and that the
charger has not been looked at since. A battery uevent comes when the charger
changes and may come at other times (`battery_uevent`); that another will come is
not assumed, since what sends them is not in the tree.
The voltage at which `powerup` is set is reached at any time. `Fails` says
which of power-off and restart may fail.

### Overclock, MCOverclock, OverclockProofs

`set_max_speed` is taken store by store (`store_tables`, `store_stats`,
`store_first`, `store_last`), with the backup before the first; `Stores` is the
order of the two fields of the clock table. Between any two the processor may
switch (`Switch`), after which the notifier of cpufreq_stats looks for the
label of the new frequency. `liberties` counts the acts that the usage in
`overclock.c` does not have: maxima that do not fit each other, writes before
the addresses are known, parameters at load, writes to the tables themselves, and unloading
cpufreq_stats. All of them are in the model; the properties speak of documented
use, before any such act, as the file's usage does.

## Runs

| Run | Question | Bounds, and why they do |
|---|---|---|
| `klog_quiet` | Is the ring a feed of whole entries when writes respect the mutex? | 2 readers, ring of 17 cells, entries of 5 and 6: four writes wrap the ring, lap a reader, skip two entries at once and meet the case where what is fixed up ends exactly on an entry |
| `klog_preempt` | Which parts survive writes at any moment? | the same with 16 cells and 3 writes, with fairness; the console can still hit each step of a read |
| `klog_torn` | Does a read always return one entry? (violated) | 1 reader, 6 writes |
| `boot_chain` | What reaches the kernel, what is freed, does each attempt end? | 11 descriptors (with the five lines of the two shipped ones; without a ramdisk; with a missing file, a bad line, a tag no loader knows, a second loader order, an oversized image), 2 starts, 7 slots for at most 5 lines so that the second start meets the slots of the first |
| `sensors_poll` | Order, room and revents | 3 drivers, ring of 2 (a sample of two sensors and its SYN does not fit), polls for 2 events, one of which an earlier driver may have taken when the two of ISL29030's sample come; two samples of the accelerometer and the light sensor, one orientation event between, before or after them, one of the proximity sensor, which is switched on and off |
| `sensors_wake` | Wakeups and return | the same drivers, polls for 1 and 3 events, with two wake bytes in the pipe, the temperature switched on and off and samples of ISL29030 |
| `sio` | Expiry order and starvation | 4 requests, 3 jiffies, a batch of 1 or 0, stores of 0 and 1, garbage of 0 and 5 in words that wrap at 6. The one read more that a wrapped counter adds to a batch needs six requests, and is the theorem's only |
| `bp_panic` | Countdown, answers, kills, reboots, clock | timeouts 3 and 4 seconds, updates every 2, one clock change of +-2, two intents under way |
| `boosted` | Is a slow CPU watched, does a busy one get to the maximum, is a stopped governor quiet? | 4 frequencies, 2 policies (the lower maximum is below the table's), 2 sets of tunables, 4 calls from outside: enough for start, stop, start and one more |
| `charge_only` | Display cycle, long press, charger, dark screen, unpluggings and their uevents | delays of 1 to 4 ticks in the order of the real ones, alarms late by one tick, 3 keys, 2 unread uevents, one of another device, any failure |
| `charge_unplug` | Is an unplugged phone shut down at once? (violated) | the same, no failures |
| `overclock` | Voltage, restore, what an unloaded module leaves, stats index | 4 frequencies and voltages with every pair, one undocumented act, any number of writes, loads and unloads |

Every bound is a constant of the module (`Max...`), named where the action's
guard uses it. Deadlock is checked where the program never stops. `boot_chain` ends in the
kernel, a reset or the menu after `MaxRuns` starts; `boosted` when `MaxEvents`
is used up and the CPU idles at its minimum; the runs of ChargeOnly when the
phone is off or restarts.

### Fairness

Runs of safety properties only use `Spec`. Else:

* `klog_preempt`: a reader that is inside the kernel goes on (WF), and a mutex
  serves its waiters (SF of the two steps that take it), which Linux mutexes do
  in order. Neither the console nor the program that reads owes a step.
* `boot_chain`: programs once started go on; nothing need be started or killed.
* `sensors_wake`: the service calls poll again (its loop has no exit), the poll
  thread and an `activate` under way go on. The drivers owe no sample, so that
  a thread in `read()` on an empty file stays there; `BlockedInRead` names that
  state, and the two liveness properties exclude it, since the code does reach it
  (see the findings).
* `bp_panic`: time passes, alarms fire, the main thread serves its queue, the
  phone boots (WF), and the receiver runs if the boot completes often enough
  (SF). That the phone is not switched off for ever by its user is part of that
  assumption. Time waits for an alarm or intent that is due: both take
  milliseconds and the model counts seconds.
* `boosted`: a pending timer fires, works and calls that have begun go on (WF).
  The core, sysfs, early suspend and the tasks owe nothing; the timer is
  deferrable, but on a busy CPU it is not deferred.
* `charge_only`: the program's thread goes on, in whichever of its steps is due, and
  time passes (WF of each). No uevent is owed but the one that a change of the charger
  sends; other devices may send theirs for ever.

### What the violations say

Two runs show the code differ from its own comments; `findings` in
`PROJECT.json` quotes both.

* `klog_torn`: a console write tears a read.
* `charge_unplug`: a battery uevent that is read together with a later one is
  dropped, so that an unplugged phone with a dark display stays on.

The other findings have no run of their own. Each is a case that a property of a passing
run excepts or allows, or that a constant keeps out of it; TLC has a counterexample as soon
as the exception or the constant is changed as told here.

* A read that fails passes for the end of the file, and a truncated kernel is booted:
  `KernelIntact` fails with `[crc |-> FALSE, readErrors |-> TRUE, shortReads |-> FALSE]`,
  the shipped build, in `Builds`.
* A killed `hbootuser` leaves buffers whose images reach the kernel if no line of the next
  start has their tag: `ImagesIntact` allows just that.
* The SYN of an orientation event that is dropped delivers the last acceleration
  again: `SamplesInOrder` allows it, by `Repeats`.
* A pending temperature of AK8973 is taken for the end of its data: `HeldIsDue` excepts
  that driver (it takes a ring of 3 and an AK8973 that also has two other sensors).
* The sensor thread blocks with events in hand: the properties of `sensors_wake` name
  that state, `BlockedInRead`.
* One read more passes a write than `writes_starved`, and nobody sets `writes_starved`:
  `WritesNotStarved` has the one more, and the value that is there.
* Dismissing a panic does not cancel a snooze: no property of `bp_panic` says that it does.
* Unloading leaves the driver's default in place if the user had gone back to it:
  `OriginalOrDefault` allows it.
* `overclock_exit` lowers voltage before rate: `Powered` excepts it.
* A restarted boosted governor trusts a dead timer, and a stopped one may leave a work
  running: `Overlaps` adds both.

## Proofs

The theorems hold for every value of the constants that satisfies the named
assumption of the module (`LogAssumption`, `BootAssumption`,
`SensorsAssumption`, `SioAssumption`, `PanicAssumption`, `BoostedAssumption`
and `TableAssumption`, `ChargeAssumption`, `OverclockAssumption` and
`DefaultAssumption`), which the runs evaluate for theirs. Where a theorem needs
more, its statement says so by name:

| Hypothesis | Of | What it says, and why the code justifies it |
|---|---|---|
| `Preempt = FALSE` | `ReadsExclusive`, `ReadersOnBoundary`, `EntriesStayWhole`, `RingIsFeed` | Console writes keep out of the critical sections, as the comments of `logger.c` ask. Without it `klog_torn` has the counterexample. |
| `MessagesFit` | `HeadOnBoundary`, `ReadersOnBoundary`, `EntriesStayWhole`, `RingIsFeed` | A message with its tag is not empty and not longer than the maximal payload. `logger.c:648` clips a longer one piece by piece, which a hazard names. |
| `RingFits` | the same | The ring takes the longest entry and a header: 128 KB against 4 KB (`logger.c:40`, `logger.h:38`). |
| `RingRoomy` | `RingIsFeed` | A header and two longest entries fit. In a smaller ring one write can overtake a reader and land on it; TLC finds that with 13 cells for entries of at most 6, and not with 14. |
| `FailuresShow` | `ImagesAreIntact`, `KernelIsIntact`, `ShippedImagesAreOwn` | A build in which reads fail compares checksums, and reads are not short. Else `handle_file` takes a failed read for the end of the file (see the violations). |
| `KernelsShipped` | `KernelIsIntact` | A descriptor with a loader has a kernel, and no more lines than are read, as `hboot.cfg` and `hboot_recovery.cfg`. |
| `AllShipped` | `ShippedImagesAreOwn` | A descriptor with a loader has a line for every tag, and no more lines than are read, as these two. |
| `Overlaps = {}` | `AlwaysWatched`, `StopIsQuiet` | The governor's calls do not overlap where the code does not guard against it. |

Every safety property that a passing run checks is also a theorem. Of four more, which say
why these hold, the proofs alone speak: `MutexDiscipline`, `ReadsExclusive`,
`ReadersOnBoundary` and `UnplugIsReported`.

* `KLoggerProofs`, control. The inductive invariant is `ControlOK`, `CriticalSection`
  and `NoLostWakeup` together. The last is not inductive by itself: that a reader on the
  queue has nothing to read needs the mutex to order its test
  against a flush, and that the mutex does so needs its owner to be the one in the section.
  `MutexDiscipline` and `WakeupsArrive` follow with writes at any moment;
  `ReadsExclusive` is an action property. `Types` is by itself.
* `KLoggerProofs`, the ring. That a head or a reader is at the start of an entry is not
  inductive: where an entry ends depends on all that were written since. The
  invariant `RInv` gives every entry its distance from `w_off` and says that its bytes
  stand there, as far back as the ring reaches (`Placed`); that the head is such a start,
  with a header's room to spare, and so is, unless writes preempt it, the place of every
  reader (`Located`); and that what a reader has copied is the
  beginning of the entry it is at (`Undivided`).
  `get_next_entry` walks from entry to entry by recursion; that it ends at a
  start behind what is overwritten is shown by least counterexample: were there
  an offset from which it does not, there would be one nearest to the goal, and
  its next entry is nearer still; that it is the first such start is carried with it
  (`Covering`). `ReadersOnBoundary` reads off `Located`. `RingIsFeed` then maps
  every step to a step of `LogFeed` or to a stutter. The feed counts bytes ever
  written, the ring distances from `w_off`: `Laid` says that `tape` and the distances
  differ by a constant, so that a console write (`ConsoleLays`) is the feed's `Write`, and
  what it skips is just what the feed lets it skip (`Skipped`).
* `SioSchedulerProofs`. `IInv` says that each queue is sorted by expiry
  (`Sorted`), that no request is queued twice (`Distinct`), and that no queued request expires later
  than a new one of its class would (`InReach`): an add at the tail keeps the
  queue sorted only because of the last, and a merge into an earlier place only
  because the request takes over the expiry with the place. `PassedInv` has two parts: `CountedReads` relates the reads passed, less the
  expired ones, to `starved` as long as it cannot have wrapped, for any
  `fifo_batch`; `BatchedReads`, for one above 0, relates them all to `starved` and to
  `batched`. `OverdueInv` relates the late write to `batched`. Lemmas state what `RemoveAt` and `Tail`
  do to a sequence's entries, once.
* `BpPanicProofs`. `TypesHold`, and `AnnouncedRebootIsDue`: a timeout that is
  broadcast has its update alarm or intent. The second needs the types; its lemmas say that sending adds
  to the inbox, and serving removes only the first.

* `SecondBootProofs`. `HandlesOwned` is inductive only with the shape of the
  driver's table (`Table`, `Program`): a new handle is one that hbootuser does not
  hold because those it holds live and the slot that is reused does not.
  `NothingLeft` needs the converse, `Counted` (whatever lives and belongs to this
  start is in the list or being filled), and `OwnersPast`, by which a new start
  owns nothing of what the killed ones left. Lemmas state what the driver's
  calls do to the table: `KeptLive`, `Allocated`, `Freed`, `AppendedOK`.
  The images need `DInv` on top: the driver hands out slots upwards (`Sorted`), each
  handle in the list comes from a line that has been read, with the sound data of its
  file (`Delivered`), the one being filled has the beginning of it
  (`BeingFilled`), and in `hboot` the images unpacked so far are those of the handles
  that are gone from the list (`Unpacking`). A later line with the same tag replaces an
  earlier one, which is why `ImagesIntact` says that some line with the tag is there.
  Handles below the first of this start are leftovers; their images are unpacked first, and what
  a line asked for replaces them. With `AllShipped` a line asks for every tag, so
  that no leftover remains (`ShippedImagesAreOwn`).
* `SensorsPollProofs`, the room. That the events taken from `mPendingMask` fit in the room
  is a fact about counting (`TakenFits`): the last sensor that is delivered has
  all the others before it, and there was room before it. `RInv` carries it
  through the loop: `readEvents` is entered only with room, and `count` never
  gets negative.
* `SensorsPollProofs`, the order. First the ring: `NextTakes` and `FillAdds` say
  that for every size and every place of `mHead` and `mCurr` (`HeadAt`), the
  end of the ring included, the events held are a queue; `QueueFill`,
  `QueueNext` and `QueueAppend` say it of the ring with the data file. Then a sensor:
  `SamplesInOrder` is inductive only with where the SYN are. Its undelivered sample is put
  at place 0 of the queue; between any two of its events is a SYN, and only the
  last may not have one after it (`Apart`), so that what is taken from the ring
  never overwrites what is undelivered; and a driver without a mask, which
  delivers at every SYN, has an event right before each (`Alone`): its own, whose
  delivery is new, or an orientation event, whose delivery is a repeat and counted as
  one. `Whole` puts these together for one sensor, with
  one lemma for each thing that can happen to it.
* `SensorsPollProofs`, what is held. `HInv` adds to `HeldIsDue` where the scan is: while
  there is room the drivers before it have no note in `revents`, so that `poll`, which
  replaces the notes, runs only when every ring but AK8973's is empty.
* `BoostedProofs`. `Watched` says that a slow CPU has its timer or a work; it is
  inductive only with who may be where at which time: `IInv` adds what each
  stage of a work, of a stop and of a start leaves of the timer, the enabled flag
  and the queues. The theorems assume the calls do not overlap (`Overlaps = {}`),
  except `TypeCorrect`, which holds with any.
* `ChargeOnlyProofs`. `CInv` says that the list of alarms is ordered by time (`InOrder`),
  what is in it of each kind, as a number (`Count`), against the state of the
  display (`Shown`) and of the restart (`RestartDue`), and what the program
  knows of the keys (`KeysInv`): between two unread presses is a release. Counts and not sets,
  because each handler is a chain of cancellations and settings, and
  `Cancelled` and `Inserted` say of each what it adds to which count;
  `Pending` has as many elements (`Recount`). The cases of `power_event`
  are shared by all handlers that call it (`PowerEvent`). `UnplugIsReported` needs
  the types only.
* `OverclockProofs`. What a store makes of the tables depends on what the stores
  before it did and on the backup, so `IInv` goes stage by stage: before the stats
  are loaded (`Boot`), without the module (`Out`), until the first call of
  `set_max_speed` (`Untouched`), from then on (`Saved`), in use (`Used`),
  unloading (`Leaving`), and what has been stored (`Stored`). `AlwaysPowered`
  needs `Used` in particular: the voltage in the table is enough for the rate in
  the table, and the maximal voltage is enough for both.
  `ExitLeavesNoMixture` adds to it what the tables and the next loading find (`Kept`),
  so that it holds over any number of loads.

Only model-checked is liveness: `BlockedReaderReturns`, `AttemptEnds`,
`ActivationReported`, `EventsReturned`, the three of BpPanic, `BusyReachesMax`,
`UnplugNoticed` and `ScreenGoesDark`. Fairness and ENABLED are beyond the prover.
The alarm list and the boot list of the models are written without
recursion for the sake of the proofs: a place in a sequence is chosen by what is
before and behind it, and what is kept of a list is counted off.

## Plan

All of what the survey put first is written, in this order: KLogger with its
abstraction, SecondBoot, SensorsPoll, SioScheduler, BpPanic, Boosted,
ChargeOnly, Overclock, each with its proofs. What would come next, by what it
adds:

1. Abstract specifications for SecondBoot (an attempt enters the kernel with its
   files or leaves everything as it was) and for BpPanic (a question, then an
   answer or a reboot), proved as `RingIsFeed` is.
2. Invariants that say what the liveness properties rest on: that a driver
   which is ready is looked at before `poll` waits, and that whoever holds
   klogger's mutex has a step to take.
3. `cpufreq_interactive` and `cpufreq_smartass`, by the scheme of Boosted.
4. Messages longer than the maximal payload in KLogger.
5. Two writers of `/proc/overclock`, which share one buffer.

## Not modelled

Most of the tree is not this repository's logic. About 122,000 of its 178,000
lines are the PowerVR driver; netfilter, the USB gadget, the camera and
Bluetooth code come on top. They are copied from their vendors and patched in a
few places; modelling them would be modelling other projects, and the map's share
of the lines stays small for that reason. Every directory is listed with its reason in `PROJECT.json`.

Of the modelled components:

* Second boot: allocation failures and page tables of `hbootmod`;
  `copy_from_user` faults there (the buffer is on the caller's stack); the
  emulated UART.
* Sensors: `setDelay` and value scaling; ioctl errors other than a refused
  activation; `SensorISL29030Separate.cpp`, which no board file selects.
* SIO: the stores of `fifo_expire` while requests are queued, under which "the
  front expires first" does not hold by design.
* klogger: `klogger_aio_write`, the poll handler and the queries of
  `klogger_ioctl`, which change nothing or are not reachable; RESIZE_LOG, which
  gives the buffer of another log, Android's `log_main`, more room; and messages longer than the
  maximal payload, which a hazard names.
* Boosted: the arithmetic of loads and ramps beyond their order and limits; more
  than one processor, as the phone has one. The interactive and smartass
  governors, which have the same scheme of timer, idle hook and work.
* Overclock: the search for addresses, reads of `/proc`, `time_in_state` and the
  transition counts, and two writers at a time: they share one buffer, which a
  hazard names.
* ChargeOnly: drawing, LEDs, and how the battery's files are read.
* Battery, proximity, backlight, LED, power and lights: sysfs or register writes
  with little state. The one race found there that concerns more than a register, on the
  power HAL's descriptor, is listed as a hazard.
