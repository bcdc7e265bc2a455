# A TLA+ model of CmpUnlocker-100-210

The repository unlocks the Tensor cores of CMP 100-210 boards and retrains
their PCIe links to Gen2 by booting a signed firmware chain through nouveau,
from shell scripts that run in a (passed-through) guest, driven by a
coordinator on the Proxmox host.  These scripts swap system firmware, drivers
and services while anything may fail, be killed or lose power; the repository
has no tests for that.  Around them are a boot script that applies a memory
clock profile, a stress test that passes or fails a board, and decoders that
turn kernel-log captures into research results.  This directory models them,
checks them with TLC and proves the central results with TLAPS.

## 1. The system

| Component | State | Operations | Model |
|---|---|---|---|
| guest machine | three firmware files, hook module, driver of each GPU, registers, links, auxiliary modules, units | copy, insmod/rmmod, bind/unbind, boot of the ACR, reset | `GuestPlatform` |
| `scripts/cmp100-pcie-gen2` | MUTATING, BACKUP_DIR, STOPPED_SERVICES, INITIALLY_LOADED_MODULES, TARGETS | gate, survey, stop, unload, backup, two signed writes per GPU, retrain, restore, EXIT trap, signal traps | `GuestGen2` |
| `scripts/cmp100-tensor-unlock` | SUCCESS, PERSISTENCED_WAS_ACTIVE, installed originals | verify, heal, stop, unload, unlock each GPU, restore, EXIT trap | `TensorUnlock` |
| `scripts/cmp100-pcie-host` and its unit and timer | host flock, state file with `failed_boot`, guest processes | check, inventory, boot_id, record, start Tensor, run helper, verify, latch | `HostCoordinator` |
| what the helper promises | targets of the running helper, settled links, last result | begin, retrain, finish, fall back, reset | `Gen2Contract` |
| CUPTI collector (`patches/llama.cpp`) | two threads, request counter, flags, mutexes, banks per device | hooks, sampling, bank switch, start, stop | `CuptiCollector` |
| HBM boot profile `scripts/cmp100-hbm-877-boot` and the calls of `tools/cmp100-nvml-clock-v2.rs` it makes | lock directory, APPLIED, SUCCESS; offset and power limit of each GPU | gate, apply, tune, verify, report, EXIT and signal trap; profile, tune, reset with rollback | `HbmProfile` |
| GEMM stress (`tools/gemm_stress.py`) | stop flag, batches, locals of each worker, results per device | select, batch, run a config, validate, grade, collect, ratio, write, report, Ctrl+C | `GemmStress` |
| stage decoder (`tools/decode_gv100_stages.py`) | run under construction, errors | parse, validate, compare masks | `StageDecoder` |
| TOP decoder (`tools/decode_gv100_top.py`) | open snapshots, device record | parse, decode words, finalise | `TopDecoder` |
| captures: the collectors, the log, the decoders | what happened, what was printed, what was saved | dump, lose or repeat lines, decode | `Captures` |
| both guest helpers under systemd and the coordinator (`systemd/`) | those of both | start in order, start again, overlap | `GuestBoot` |
| monitor `tools/gpumon_v3_llama.c` | samples of several sources | sampling, display | not modelled: display only |
| installers, payload builder, boundary check, other analysis tools, probes | files they write | straight-line, offline | not modelled |
| hook `src/gv100_nouveau_acr_hook.c` | armed bus | intercept one ACR boot | its effect only, in `GuestPlatform!NouveauBoot` |

Interactions.  The two guest helpers share the machine and **no lock**; the
Gen2 helper serialises its own invocations with a flock.  The boot units start
Tensor, then Gen2.  The coordinator reaches the guest through the QEMU guest
agent: it starts the Tensor unit, then the Gen2 helper, and polls for the exit
status; a process it started goes on when the coordinator is gone.  The timer
starts one coordinator a minute after the last; operators start others; a host
flock keeps them apart and the state file carries the latch from one to the
next.  In the llama.cpp server the scheduler thread calls the collector's hooks
and its worker thread switches event groups.  The HBM unit runs after the
others and shares nothing with them but the GPUs; its runs exclude each other
with a directory under `/run/lock`.  The stress test is the operator's gate on
a finished board; its main thread, its pool of workers and the signal share a
stop flag and nothing else.  The decoders read what the (unpublished) kernel
collectors printed into a log that others print into as well.

What is hard: a run cut short anywhere by an error, a signal, a second signal,
SIGKILL or a power cycle, and what the next run finds; failures inside the
cleanup; state read and used minutes later across a guest reboot; answers that
are lost; the idle bank switch racing the hooks; a directory used as a lock by
processes that remove it whether or not they made it; Ctrl+C between any two
steps of a main thread and its pool; logs that lost a line; two helpers that do
not know of each other.  `PROJECT.json` lists these hazards at their lines with
the properties that cover them.

## 2. The modules

`GuestPlatform` holds the shared machine: `fw` is the content of the three
firmware files, `Put` rewrites one and `Tear` leaves it half written;
`NouveauBoot` performs a signed write only when the files are exactly the image
of a payload and the hook is armed for that GPU's bus, and even then may fail.
`svc` is systemd's view of each unit of `Units`: down, queued (a start was asked
for without waiting, or the boot has not reached it), active, or failed.
`is-active` is true of an active unit only.  A queued start is granted or fails
when systemd gets to it (`StartSettles`), during a run as between two; units
change in no other way on their own.  A boot queues every unit.

`GuestGen2` has one action per command group of the script; `pc` is the group
about to run and `n` the file the current copy loop is at, so a crash can fall
between any two files.  `Quit` is `exit` under the EXIT trap: it enters the
firmware and driver recovery only when MUTATING is set.  `Fail` lets any
command of the main program fail (`set -e`, `die`, a bounded wait that ran
out).  `Signal` is the first TERM or INT; `SignalCleanup` the second one, which
ends the cleanup because the script resets its EXIT trap but not the signal
traps; `Kill` is SIGKILL; `PowerCycle` resets the machine but not the firmware
files, and discards `/run`.  `StopUnit` records and stops a configured unit if
it is active.  `StopPersistenced` records persistenced if it is active and stops
it in any case, so that a queued start is called off and forgotten.
`RestoreServices` asks for every recorded unit without waiting, and ignores any
request that systemd refuses.  `trail` is a history variable: it records that a
retained backup holds the originals, or that a power cycle caught the files
foreign.

`TensorUnlock` is the first boot stage on the same machine.  `kept` says which
installed originals are intact, chosen freely at the start.  Its EXIT trap
ignores every failure, as the script's does.

`HostCoordinator` has coordinator instances (`pc`, `mode`, `seen`, `id`,
`pending`, `mine` are the locals of `run`), the flock, the latch, and a guest
that behaves as `Gen2Contract` allows.  `call` are the helper processes in the
guest, `attempts` counts unforced starts in a guest boot without a PASS.  `Raise`
is the `except` clause after any failing check; `Kill` is TERM or SIGKILL, on
which Python runs no handler.  `ReadGarbage` is an answer that is no boot_id.

`Gen2Contract` is the abstract specification between the two: `GuestGen2`
implements it under the mapping `job <- targets`, `gen2 <- {g : link[g] = 2}`,
`result <- outcome` (`KeepsContract`), `HostCoordinator` extends it.

`CuptiCollector` has one action per critical section or atomic test of the two
threads.  `pmu` is what is enabled in the hardware, `enabled` what the code
believes.  `Stop` tells the worker to end and has no condition.  `Sleep` calls it
when the server goes to sleep, which it does without a busy slot; `CleanUp` calls
it when a signal has ended the loop of the server, whatever the slots are
running: their `RequestEnd` never comes.  `Join` waits for the worker and takes
down the groups that are still enabled.

`GuestBoot` puts `GuestGen2` and `TensorUnlock` on one machine, with the Tensor
helper's variables renamed.  The Gen2 unit starts when the Tensor unit is
through, passed or not; the coordinator starts the Tensor unit whenever it is
not active.  `DriverFound` adds what the two modules need not say alone: a write
to `bind` or `unbind` fails when the other helper has moved the GPU meanwhile.

`HbmProfile` has any number of overlapping runs of the boot script, each with
its own `pc`, loop list `todo`, `applied` and `verdict`, one action per command
group.  `Apply`, `Tune` and `Reset` are one call each of the NVML tool, with its
outcomes: done, refused with the old value restored, or refused with the value
written and the rollback failed.  `Trap` is the EXIT trap as a failing command
or `die` enters it, `Signal` as HUP, INT or TERM does; `Release` is its `rmdir`,
which the script reaches from before the `mkdir` as well.  A reboot clears
`/run` and the GPUs and is a new initial state.  `entered`, `last`, `robber`,
`owed` and `driver` are history; `robber` says for each run that was inside
which other run's trap removed its directory.

`GemmStress` has one thread per device and a main thread with a program counter
(`main`), which is in `run_device` itself when a batch is one device.
`Interrupt` is SIGINT wherever the main thread is: Python raises it in the main
thread only, so in a pool it sets the stop flag on the way out, in a batch of
one it ends the config, and after the results it ends the process with 130.
`Iterate` is a timed multiplication with the comparison that is due after it,
`Grade` the verdict on a config, `ApplyTensorRatio` the pass over all results.

`StageDecoder` and `TopDecoder` are the two decoders as functions from a log,
a sequence of records, to a report.  `Captures` composes them with the
collectors and with the log: a `scenario` is what really happened, `Dump` prints
it, the `Save` actions are what a saved log may have lost or repeated, `Decode`
runs both decoders, and the properties compare their reports with the scenario.

## 3. What is checked

| Run | Shows | Instance |
|---|---|---|
| `gen2_safety` | firmware is always recoverable; one GPU detached at a time; boots only of complete signed images; PASS only when settled; a run that ends without RECOVERY INCOMPLETE has undone its window, with its modules; the helper implements `Gen2Contract` | 2 GPUs (symmetric), 1 module, no units |
| `gen2_services` | an active unit goes down only on record, and the start of every recorded one is asked for again; every run ends | 1 GPU, 1 workload unit and persistenced, no modules, fair |
| `host_safety` | the latch remembers, at most two unforced attempts per boot, exclusive in-progress record, lifted only when settled | 2 links, timer and operator, 2 helper processes, 3 boots |
| `host_liveness` | a guest that stays below Gen2 ends latched for good | timer only, fair |
| `cupti` | no bank switch while a request is active, and only the end of the process takes the groups down under one; a failed bank stays off; launches return; due switches are made | 3 slots, 1 device, 2 banks, fair |
| `tensor` | devices are reached with original firmware only, whatever an earlier run left; boots only of the complete image with the right hook; PASS means unlocked and on NVIDIA | 2 GPUs (symmetric), 1 workload unit, 1 module |
| `host_one_attempt` | *violated*: a guest reboot between reading the boot_id and starting the helper allows a second unforced attempt (`OneAttempt`) | as `host_safety` |
| `guest_overlap` | *violated*: a Tensor run that is started again works inside the mutation window of a Gen2 run (`Serialized`) | 1 GPU, no units, 1 module |
| `gemm` | no more than `--max-parallel` devices draw power; PASS is earned, and exit status 0 means that something passed and nothing failed; what was collected is reported; every run ends | 4 devices (one AMD), six command lines, 3 interrupts, fair |
| `gemm_tolerance` | *violated*: a config passes although one of its validations was not a number (`PassWithinTolerance`) | as `gemm` |
| `captures` | an accepted run is one that happened, with its mask changes; an undamaged log is accepted; a derived GR selector is the one of that GPU | 9 single lives, 1 pair, all 1000 TOP tables of three words, 2 pairs of dumps; up to two lines lost, one cut, repeated, or the log doubled |
| `hbm` | two runs are inside together only where another run removed the directory of one of them, once each; PASS stays true; a failed run resets what it changed; the directory goes away | 3 runs, one of which fails its first checks; 2 GPUs, with a power limit; fair |

The three violated runs state what the documentation or a comment says;
`PROJECT.json` quotes it under `findings`.

**Bounds.**  Two GPUs show the order of the loops and a hook or a boot on the
wrong GPU; nothing in the scripts relates three.  Units are handled one by one
and apart from the GPUs, so one workload and persistenced, which is stopped in
its own way, are checked with one GPU (`gen2_services`), in any of their four
states.  Auxiliary modules are handled one by one as well: one is loaded or not,
and comes back or not; that one of several that stays away is reported is left
to the theorem (`HonestReport`), since two of them with two GPUs take longer
than a run of minutes.  In `tensor` persistenced is not installed: nothing its
properties speak of depends on it, and the theorems are for any units.  Two
helper processes (`MaxCalls`) are the boot unit's and the coordinator's, or a
coordinator's and the one it lost; three boots (`MaxBoot`) allow an attempt
under a boot_id two reboots old; `attempts` is counted up to `AttemptCap` = 3,
one more than the bound it is compared with.  Three slots overlap in every way
that matters to a counter tested against zero and one.  The devices of the
collector are handled independently inside one loop.

Two runs of the HBM script that may enter and one that fails before it asks for
the lock (`Early`) let the early one remove the directory under the first, and
the second enter beside it: the shortest way for two to be inside. `Exclusive`
counts how far this can go with any number of runs, and is proved for all of
them.  Four devices give batches of two with a remainder after the AMD card is
dropped; a sustained config makes up to `MaxIters` = 3 products, so that first,
periodic and last validation differ; three interrupts (`MaxInterrupts`) reach
the pool, its shutdown and what comes after.  One mask register, one GPC with
one PPC and two probes stand for the loops over more of each; three TOP words
can hold every boundary between two devices, a gap and an unfinished one.

**Fairness.**  A live shell script keeps executing: its waits are bounded
polls, `timeout` or one pass over a list, and kernel calls are taken to return
(`WF_vars(Step)`).  Nothing makes a failure, a signal or a power cycle happen.
The timer fires a minute after its last run (`WF` of the timer's `Invoke`), and
every wait of `run` is bounded (`WF` of `Progress`).  Strong fairness of the
coordinator's first four steps says that qm, the inventory and the guest agent
do not fail *every* time, and that the 900 s limit, which cannot strike before
the record, is no obstacle to it.  In the collector the worker sleeps at most
one window, and the mutex is not kept for ever from a thread that wants it.
The NVML tool polls for two seconds at most, so every command of the HBM script
ends; nothing makes a signal, a kill or a reload happen, and `LockReleased`
holds with none of them.  Nothing makes systemd grant a queued start either.  A worker of the stress test keeps multiplying and a
multiplication takes measurable time, so the clock of a sustained config runs
out (`WF` of `Thread` and of `Main`).

**Symmetry** is used only in runs without liveness.

## 4. What is proved

`GuestGen2_proofs` proves, for every set of GPUs, units and modules, from
`NoGPUAssumption` and `UnitsAssumption` (a configured unit is not persistenced):

| Theorem | Property |
|---|---|
| `Typing` | `TypeOK` |
| `Implementation` | `KeepsContract` |
| `Recoverability` | `FirmwareRecoverable` |
| `HonestReport` | `ReportedOutcome` |
| `Restart` | `WorkloadsRestarted` |
| `Detachment` | `OneDetached` |
| `Provenance` | `Gen2Provenance` |
| `SignedBoots` | `SignedBootOnly` |
| `Passes` | `PassVerified` |

None of these is inductive as it stands: that the originals can be restored
depends on where the copy loops are, that a GPU may be booted on what the
preceding commands have put in place.  The inductive invariant `IInv` adds, by
control label: an idle process is at rest; the backup is complete from the
moment MUTATING is set (`Saved`) and inside the window exactly the main labels
after it run with it; the firmware content as a function of the label and of
`n` (`Firmware`, e.g. a prefix of the image while it is being installed);
foreign firmware is accounted for (`Accounted`); the hook is armed for the
current target where a boot may follow (`Armed`); every target but the current
one is on NVIDIA (`Attached`); a GPU that has been through a loop carries both
writes (`Written`); a run past its survey has targets (`Listed`); what the cleanup has already recovered, unless it recorded
a failure (`Recovered`); and what a zero exit status implies (`Verified`).
Each group has a lemma that every step preserves it, one case per action;
`Invariance` puts them together and the theorems follow from `IInv` and, for
the action properties, from the one action that can take the step.

`Restart` needs less: which action can take a unit down (`DownIsRecorded`), and
that `RestoreServices` leaves no recorded unit down.  It promises a request, not
a running unit: a start that systemd refuses, or grants and that fails, leaves
the unit failed and the run as it was (section 5).

`Implementation` is the refinement: under the mapping of `Promise`, `Start`
begins a job, `ChangeSpeed` retrains a link of it, `Exit`, a second signal and
SIGKILL finish it, `PowerCycle` resets, `LinkDegraded` falls back, and every
other action leaves the contract's variables alone.  It needs `IInv` twice:
`Verified`, because finishing with "pass" asks for Gen2 on every target, and
`Listed`, because a job has one.

`HbmProfile_proofs` proves, for every set of GPUs and runs, with and without a
power limit, from `RunsAssumption` alone:

| Theorem | Property |
|---|---|
| `Typing` | `TypeOK` |
| `Exclusion` | `Exclusive` |
| `Passes` | `PassHolds` |
| `Failures` | `FailureUndone` |

`Exclusive` alone says nothing about who owns the directory, so its invariant
adds: how a run ends goes with where it is (`Ending`); a run that never made the
directory has changed nothing (`Entering`); the directory of a run that is inside
is still its own, or somebody took it (`Holding`); and every taking is on record,
at most one per run, the first by a run that never made the directory
(`Robbing`).  A run that is inside without its directory was robbed, so of any
two that are inside one was (`Exclusion`), for every history: the theorem has no
premise about who removed what.  While nobody has, only the last run to enter
writes to a GPU, so what it has verified remains true (`Verified`); what it
changed is in APPLIED, or about to be (`Recorded`), and has been reset once the
trap is through (`Undone`).  Each group has its own lemma, one case per action.

`TensorUnlock_proofs` proves, for every set of GPUs, units and modules, from
`UvmAssumption` alone:

| Theorem | Property |
|---|---|
| `Typing` | `TypeOK` |
| `Healing` | `HealedFirst` |
| `Handover` | `HandoverFromStock` |
| `SignedBoots` | `SignedBootOnly` |
| `Passes` | `PassUnlocked` |

The invariant says by control label what the files contain and, inside a copy
loop, which of them have been written (`Firmware`); that only the current
target is off NVIDIA, with the hook armed before the image is there
(`Attached`); and that a target the loop is done with is unlocked (`Unlocked`).
`HealedFirst` follows from `Firmware` whatever an earlier run has left, because
a run comes past the check only with its originals intact.

`HostCoordinator_proofs` proves, for every set of coordinators and links and any
number of guest boots and helper processes, from `BoundAssumption` and
`TimerAssumption`:

| Theorem | Property |
|---|---|
| `Typing` | `TypeOK` |
| `Memory` | `LatchRemembers` |
| `Restraint` | `FewAttempts` |
| `Latching` | `InFlightLatched` |
| `Lifting` | `LiftedByPass` |
| `MutualExclusion` | at most one instance is past the flock |

`FewAttempts` is not inductive: an instance may hold a boot_id that is a reboot
old.  The flock leaves one instance with a program counter (`Exclusive`), so
what it has read of the state file is current (`Current`); what it knows of the
guest may be stale, but the reboot that made it so has also started the count
again: with an old boot_id in hand there is no attempt in this boot before the
launch, and one at most after it (`Attempts`).  An unforced launch with the
right boot_id has found another one, or none, in the state file, and
`LatchRemembers` bounds what happened before.

`CuptiCollector_proofs` proves, for any slots, devices and banks, from
`BankAssumption` and `NobodyAssumption`:

| Theorem | Property |
|---|---|
| `Typing` | `TypeOK` |
| `OneBank` | `OneBankEnabled` |
| `Quiet` | `QuietWhileActive` |
| `Disabled` | `DisabledForGood` |
| `ExactCount` | the counter is the number of running requests |

The counter is tied to the set it stands for (`Counted`, by the cardinality
theorems of the library), the worker holds `boundary_mutex` from its test for
zero to the end of the switch (`Switching`), and between the two the scheduler
cannot count a request in (`Scheduled`).  A worker that is told to end leaves its
switch before it is done, so `Join` finds no switch under way; it disables every
group at once, after a sleep with no request counted and after `clean_up` with
any (`Quiet`).  A bank has three failures only when it
is disabled (`Failures`), so the count never passes three.

`GemmStress_proofs` proves, for any devices, command lines and numbers, with any
number of interrupts, from `GemmAssumption` and `JobsAssumption`:

| Theorem | Property |
|---|---|
| `Power` | `PowerBudget` |
| `Passes` | `PassIsEarned` |
| `Reports` | `EarlierReported` |
| `Zero` | `ZeroIsEarned` |
| `Typing` | `TypeOK` |

It starts with `Batching`: for every list and every size, `batch_devices` makes
batches of one device at least and that size at most, and leaves no device out
(the division and the products in it are taken apart in `Quotient` and
`Multiples`).  Only devices of the batch `num` run, and none between two batches
(`Running`), so the set that draws power is the range of one batch.  What is in
`per_device` is every batch before `num` (`Collected`); a worker that is done
has all its results, one that `--fail-fast` stopped at, or was interrupted
(`Complete`); the locals of `run_config` say what was compared (`Measured`), and
every PASS in the results was earned when it was appended (`Graded`).  The ratio
pass takes PASS from results and from no baseline (`Swept`).  `JobsAssumption` is
what the argument parser and `main` guarantee, and one fact about a library
operator that TLAPS has no definition for: a selection from a list is a list
over the known devices.  TLC evaluates it on the command lines of the run.

`Captures_proofs` proves, for lives and TOP tables of any length, any number of
them in a log and any register sets, from `OrderAssumption` and
`ScenarioAssumption`:

| Theorem | Property | Losses |
|---|---|---|
| `SelectorIsWitnessed` | `SelectorWitnessed` | any |
| `CleanIsAccepted` | `CleanAccepted` | any |
| `AcceptedWitness` | `AcceptedIsWitnessed` | not `"burst"` |
| `ComparisonIsExact` | `ComparisonExact` | not `"burst"` |

`OrderAssumption` says that every mask register and every probed function has
one place in its list; `ScenarioAssumption` says what a life and a dump are, and
that two dumps of one capture are of different GPUs.  The condition on `Losses`
is needed: section 5 ends with the counterexample.

The decoders read a log line by line, so what they make of it is shown by
induction over the log.  The induction principle is a lemma about sets of
numbers (`Induction` in `Decoders_proofs`, from the well-foundedness of `<`).
That module has what it gives for concatenations, selections and tables, and
what the stage decoder's reader keeps true of any log.  `StageLog` says of each
run it returns which stretch of the log it comes from, and that each stage,
value and counter in it is on a line of that stretch.

The inductive invariant (`IInv`) is only that the printed log is what the
collectors printed so far, that the saved one is what became of the whole of
it, and that the reports are those of the saved one.  The argument is about
what the decoders compute from such a log:

* *Selectors* (`TableRead`, `SelectorOfTable`): after each word the decoder has
  a device for every word that ends one, made of the words since the one
  before, so it has one GR engine exactly if the table has.
* *Soundness* (`AcceptedLife`).  `own` says which life printed a line, `src`
  which printed line became a saved one.  Lives are printed one after another,
  so a stretch from BEGIN to END without a break is of one life
  (`UnbrokenLife`).  With up to two lines lost, one that spans the end of one
  life and the start of the next has a MISSED counter twice (`BrokenLife`), and
  `_validate_run` refuses that.  A stretch of one life agrees with it wherever
  it says something (`RunAgrees`), and a run that passed every check says all
  of it (`Validated`, `Follows`, `RunIsLife`).
* *Comparison* (`ChangedAt`): where the run is the life, the consecutive masks
  differ at the flip and nowhere else.
* *Completeness* (`WholeIsClean`).  The lemmas `BeginFed` to `DumpFed` compute
  what the reader makes of a whole dump, one line at a time; the last of the
  dumps is what is reported (`CleanDecoded`).  That run passes the checks of
  `_validate_run` group by group (`NoStreamErrors`, `StageIsClean`,
  `NoResetErrors`, `NoOrderErrors`, `NoReturnErrors`, `NoProbeErrors`),
  because `NamesAt` gives the place of each event in the course of a legal
  life.

**Only model-checked.**  The liveness properties (`RunEnds` of both modules that
have one, `Decided`, `LaunchReturns`, `SwitchMade`, `LockReleased`): TLAPS does
not prove liveness under fairness.  The three violated properties are no
theorems.  `TypeOK` of `HbmProfile` and of `GemmStress` is proved and not among
the invariants of a run.

## 5. Abstractions

* Payloads, firmware and checksums are content classes; a checksum comparison
  is equality of class.  A failed copy in the cleanup leaves the file "torn",
  which stands for any foreign content: no boot follows in that run.
* Config-space encodings (rate field, CHANGE_SPEED, training bit) are
  outcomes: the link changes or the command fails.  `driver_override` is left
  out: between bind and unbind it follows the driver.  Targets are taken in any
  order; the script's is one of them.
* The Gen2 helper's flock lets one process matter at a time; links fall back
  only between runs.
* The coordinator's checks that only succeed or fail (configuration, PCI
  identity, VFIO ownership, AER) are `Raise`.  The state file is written
  atomically, as `atomic_state` does, and survives.
* Hooks, start and stop of the collector all run on one thread, the one that
  runs the server's loop; `clean_up` runs on it when a signal has ended the loop
  (the server is not part of `src/`).  The values sampled and the report are left
  out.  Rollback of a bank whose enabling fails
  half-way is taken to succeed.
* One call of the NVML tool is one step; a signal that ends it half-way leaves
  what one right after it leaves.  GPUs are taken in any order.  Before the
  first run the limit is the default, the offset anything.
* The devices of one command line are distinct.  Telemetry, drift, logging
  intervals and output formats of the stress test are left out; a config that
  did not pass keeps its status and nothing else.  Medians are whole numbers;
  a product is right, wrong in the corner tile, wrong elsewhere or not finite.
* Registers of the decoders are names with small values, the bits of a word are
  fields.  Time stamps, hexadecimal text and `--all` are left out; a "cut" line
  is one whose fields do not parse.
* The decoders loop over the lines of a log; the model reads them in pieces of
  eight, so that TLC's recursion stays shallow for a log of two hundred lines.
  `StagesRead` and `TopRead` prove that the result is that of reading line by
  line.

Where the repository says more than the code does.  Three such sentences are the
violated runs of section 3.  These three more have no run of their own: a
property of a passing run names the case as its exception, and the model reaches
it.

* `docs/PCIE-AUTOMATION.md:58` says that units are "stopped only if active and
  restarted asynchronously if this invocation stopped them".
  `scripts/cmp100-pcie-gen2` stops persistenced in any case (line 352); when
  its start is still queued, from the boot or from an earlier run's `--no-block`,
  `is-active` is false, so it goes down unrecorded and is not asked for again.
  And `systemctl start --no-block ... || true` (lines 128 and 132) hides a
  request that is refused: the run reports what it would have reported, and the
  unit stays down.  `WorkloadsRestarted` excepts the one and asks only for the
  request in the other.
* The comment over the hooks of the CUPTI collector (line 1084 of the patch) says
  that "no event group is enabled/disabled while a request is active".
  `clean_up` calls `stop` (line 1133) when TERM has ended the server's loop,
  with whatever the slots were running, and `destroy_event_groups` (lines
  411-427) disables every group with `active_requests` above zero.
  `QuietWhileActive` excepts exactly this step, and says that it enables none.
* `docs/GEMM-STRESS.md:87` and the help text of the tool (`gemm_stress.py:644`)
  say that the exit status is 0 "only when every config passes".  It is 0 as soon
  as one config passed and none failed (lines 580-587): a device that has not the
  memory for any of its configs is skipped, and with another that passes the run
  exits 0 (the command line `Soak` of `MCGemmStress` with device 1 short of
  memory).  `ZeroIsEarned` says what the status is worth: every result is PASS or
  SKIP, one at least is PASS, and no device asked for is missing.

What the code does and no property promises:

* A run of the HBM script that is refused, or fails its first checks, removes
  the directory of the run inside (its trap is armed before the `mkdir`), and
  the next one may enter beside it; of the two, the first to end takes the
  directory of the other.  `Exclusive` says how far this goes: one more run
  inside for each directory taken.  `PassHolds` and `FailureUndone` are stated for `Robbed = {}`: of runs
  that change the GPUs at the same time nothing is promised.
* TERM to that script between the tool's success and APPLIED leaves the GPU on
  the profile, and the trap exits with the status of the last command, which
  may be 0 without PASS.
* An invalid answer for the boot_id replaces the latch of the coordinator, and
  settled links with a latch, also one of an earlier boot, go through the guest
  once more; `FewAttempts` bounds what follows from either.
* When a Tensor unit that failed at boot is started again while the Gen2 boot
  unit is inside its window, more than `Serialized` breaks: on `GuestBoot`,
  TLC also finds `SignedBootOnly`, `OneDetached` and `ReportedOutcome` of the
  Gen2 helper violated.  Its theorems are about the helper alone.
* The Tensor helper says "stock firmware restored" after any failure, also when
  the copies of its trap failed or the installed originals were just rejected.
  `HealedFirst` says what the next run makes of it.
* With a gap of any length in the log (`Losses = "burst"`), two lives of the
  stage module can be joined to one that is accepted: the gap takes the first
  one's counters of missed probes and the second one up to its own.  Two lost
  lines (`Losses = "lines"`) cannot do it.

## 6. Not modelled, and the plan

*Not modelled.*  The monitor only displays.  The installers, the payload builder
and the boundary check are straight-line file programs.  The other analysis
tools read one file and print one table: a model of them would be the table.
`GuestBoot` is searched for a violation and not exhaustively: its full state
space, more than ten million states with one GPU when the search was stopped,
is beyond a run of minutes.

*Done.*  `GuestPlatform`, `Gen2Contract`; `GuestGen2`, `TensorUnlock`,
`HostCoordinator`, `CuptiCollector`, `HbmProfile`, `GemmStress` and `Captures`
(with `StageDecoder` and `TopDecoder`), each with its proofs; `GuestBoot`.
Every safety property of the passing runs is a theorem, for every value of the
constants that the named assumptions allow; only liveness is left to TLC alone.

*Open.*  Theorems about `GuestBoot`, which would have to say what holds of the
two helpers together in spite of the violation above.
