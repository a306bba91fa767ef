# Verification of the protected daemon

This directory holds TLA+ models of the programs in this repository, the TLC
configurations that check them on small instances, and TLAPS proofs of the
results that hold for every instance. `PROJECT.json` lists the components, the
runs, the source lines behind every definition, the hazards and the theorems.

## 1. The system

`protected-daemon` keeps a set of latency-sensitive processes apart from the
rest of a machine with cgroups. BPF programs on the fork, exec and exit
tracepoints report process events through a ring buffer. The daemon keeps a
table of processes, classifies them by name (`protected.conf`) and by
inheritance, and moves the protected ones to the `protected` cgroup. Before it
attaches, it runs a calibration worker that recovers the parity masks of the
DRAM bank mapping. A detection pipeline, built and tested as libraries and not
yet called from `main`, compares the bank profiles of other processes with
those of the protected ones, and a throttle controller moves the interfering
ones to the `throttled` cgroup and back.

### Inventory

| Component | State | Operations | Talks to | What makes it correct |
|---|---|---|---|---|
| Process table (`process.c`) | hash table with open addressing: records, slot states EMPTY/USED/TOMBSTONE, a count | upsert on exec, upsert on fork, remove, get, snapshot, reset | called by `handle_event`; snapshots go to the candidate filter | behaves as a bounded map from pid to record: nothing is lost behind tombstones, nothing is stored twice, full means full; protection survives exec and is inherited on fork |
| Event path (`protected_daemon.bpf.c`, `handle_event`) | ring buffer | one BPF program per tracepoint; one handler per event type | kernel, process table, policy, cgroups | once every event has been taken, the table marks exactly the processes that ought to be protected; each of them ends up in the cgroup |
| Policy (`policy.c`) | configured names | load, ignore, protect, decide | `handle_event` | kernel threads are ignored; name or inheritance decides |
| cgroup control (`cgroup.c`) | none of its own (cgroupfs) | move a pid, write `cpu.max`, write `memory.low` | daemon, throttle controller | a failed write is reported |
| Throttle controller (`throttle_controller.c`) | record per pid: state, times last seen and last changed | init, apply candidates, release all, destroy, get record | detector's candidates, cgroups, clock | records agree with what was done to the cgroups whichever writes fail; minimum durations and cooldowns hold; stale processes are released; rollback is complete |
| Daemon start-up (`main`, `init_dram_bank_mapping`) | daemon state, readiness of the mapping | configure, calibrate, map, attach, poll | calibration, mapping, BPF | the programs are attached only with accepted masks |
| Calibration runner (`calibration.c`) | worker pid, start time, result file | remove stale file, launch, wait with timeout, terminate the group, load and check the result | worker, file system, clock | it ends; it leaves no worker behind; it accepts only this run's result |
| Calibration worker (`kk_calibrate.py`) | measurements, masks | collect, analyse, write the result file atomically, exit code | collectors, result file | a result is replaced as a whole; the exit code says whether it is accepted |
| DRAM mapping (`dram_mapping.c`) | masks, id, ready flag | init from a result, reset, bank class, same bank class | bank profile | fails closed; the two ways to compare classes agree |
| Address translation (`addr_translate.c`) | pagemap descriptor | open, translate, close | `/proc/<pid>/pagemap` | every error is told apart, an address is never made up |
| Bank profile (`bank_profile.c`) | histogram of bank classes with a capacity, counters | build, merge, overlap | translation, mapping | totals equal the sum of the entries; overlap is the quotient of common and united pages; files are closed |
| Activity sampling (`proc_activity.c`) | last sample per process | sample, delta | `/proc` | deltas never cross a pid reuse |
| Candidate filter (`candidate_filter.c`) | none | classify a record, classify a pid | snapshot of the process table, `/proc/<pid>/cgroup` | a task that was protected when the snapshot was taken never becomes a candidate, and neither do the daemon and system services |
| Activity prefilter (`activity_prefilter.c`) | none | eligibility, select the best | samples and differences of `proc_activity.c` | no process the detector would find active is screened out, as long as the settings of the two agree; within the limits the best are kept |
| Interference detector (`interference_detector.c`) | per-process activity state, aggregate protected profile | one detection cycle | all of the above | one bad process does not spoil a cycle; ranking is by score |
| Oracle experiments (`experiments/stage6_5`: `oracle_bank_overlap`, `oracle_bank_overlap_sweep`, `oracle_selective_control`, `oracle_multicandidate_control`, `oracle_cpu_max_sweep`, `oracle_bank_worker`) | pools of pages with their frames, lines by bank class, pointer chains; child processes, pipes, cgroups | read the mapping, make pools, choose classes, collect and check lines, link chains; per condition spawn stopped, limit, place, continue, wait, read; verify the frames | calibration result, kernel | the lines overlap as the condition says; what is measured runs under its condition's limits and nothing else's; no child and no cgroup is left behind; a run whose pages moved is not reported as a success |
| Prototypes, `mem_interference_test`, shell scripts | - | earlier daemons, load generators, set-up | - | not part of the daemon |

### What is hard here

* Events describe the past. A pid may have exited and been reused before its
  fork, exec or exit event is taken; a cgroup write names only a pid.
* The ring buffer drops events silently, the process table refuses new pids
  when it is full, and the result of a cgroup move is not looked at.
* The fork and exit tracepoints fire for threads too, and the programs report
  tgids.
* Deletions leave tombstones; lookups must pass them and insertions reuse them.
* Every cgroup write in the controller can fail on its own, at any call, and
  processes exit, reappear under the same pid, and fork children into the
  throttled group.
* The detector reads `/proc` over many steps while processes exit and pids are
  reused, with a histogram, a candidate list and descriptors that are bounded.
* Worker, collectors and daemon run concurrently; timeout, exit, crash and
  restart interleave around one result file.
* The experiments hold up to six children that stop themselves, die or finish at
  any time, with some twenty calls per condition that may fail; cgroups, pools
  and chains are reused by conditions that come in any order; the kernel may
  move a page after its bank class was computed.

`PROJECT.json` lists the hazards one by one with the line where each bites and
the properties that would catch it.

## 2. Modules

### ProcessMap and ProcessTable - `process.c`

`ProcessMap` is the promise: a map from pid to record with capacity
`PROC_MAX`. `ProcessTable` is the code: `proc_table`, `slot_states` and
`occupied_count` as in the source, `find_existing_slot` and `find_upsert_slot`
as the first probe with a property (`Visited`, `FirstOf`), one action per
exported operation, and `ret` for what the last call returned. `MarkProtected`
is what `handle_event` does to a record it was given. Display fields (ppid,
uid, executable, command line) are left out; `comm` is kept because policy
depends on it. `ImplementsMap` states that the table implements the map, with
the records of the occupied slots as the map.

### DaemonEvents - tracepoints, ring buffer, `handle_event`, policy

Extends `ProcessTable`. `task` is the kernel's view: alive or not, name,
cgroup, threads. `Fork`, `StartThread`, `EndThread`, `Exec` and `Exit` change
it and call the tracepoint program (`handle_fork`, `handle_exec`,
`handle_exit`), which appends to `ring` or drops the event. `handle_event`
takes one event and does everything the handler does: table update, policy,
cgroup move. The daemon's own children (`own`) are recorded but not
classified. History variables say what ought to be protected (`ought`) and
which failures happened (`lost`, `refused`, `unmoved`, `threaded`).

### CandidateFilter - `candidate_filter.c`

Extends `DaemonEvents` by the caller of the filter. `TakeSnapshot` copies the
records of the table (`ret.out`); then the kernel and the daemon go on
(`SystemStep`), and `candidate_filter_classify_pid` judges a record of that
snapshot with the cgroup path that is read now: the task may have exited, exec'd
or been moved, and its pid may be another's. A path is one of the kinds the code
tells apart, any that the task can be in at that moment. Two histories say what
can be asked of the verdict: `settled`, the tasks the daemon was up to date with
at the snapshot and that still run, and `entitled`, those that ought to have been
protected then. Of a task that became protected later, or whose events were still
waiting, the code promises nothing.

### ThrottleController - `throttle_controller.c`

`records` maps a pid to its record; a record keeps the ages of the two times
the code stores. `apply_candidates` is one action for the whole call: the
checks before the loops in their order (`ApplyRefused`), then a decision for
every record (`DecideSeen`, `DecideUnseen`), the cgroup writes with any subset
failing (`Outcomes`, `MoveAll`), and the records that follow from the writes
that succeeded (`Settle`). `cgroup` is the kernel's truth and `moved` the
history of what the controller did to the live process under a pid, so that
records can be compared with reality. `Spawn` starts a process in its parent's
cgroup under any free pid; `Exit` frees one. `throttle_controller_init` may be
called at any time and with any configuration of `Configs`, which it refuses or
keeps in `cfg`, also on a controller that is in use, whose records it forgets;
the histories start anew then.

### BankClasses, CalibrationResult and DramMapping - `calibration_load_result`, `dram_mapping.c`

`CalibrationResult` describes a result file by what the extractors find in it,
and gives the return code (`Checks`, in the code's order) and the struct that
the caller is left with, also after a failed load. `DramMapping` has the
struct, the mapping, and the operations on them in any order. `BankClasses` has
what the daemon and the experiments compute alike: words are the sets of their
one bits, AND is intersection, XOR symmetric difference, parity the size modulo
2; `LineClass` is the class as the experiments compute it, from page and offset
apart.

### Calibration - start-up, runner, worker, collectors

Extends `DramMapping`. `phase` is the daemon's program counter from `main`
through `calibration_run` to the poll loop; `worker` and `collector` hold, for
each start of the daemon, the processes it caused, with pending signals; `file`
is the result file and who wrote it. The worker may hang, fail before or after
it has written its file, or be killed; the daemon may be killed and started
again while an old worker runs. `BeginWait`, `PollWorker`, `Terminate` and
`FinishTermination` follow `wait_child` and `terminate_process_group`.

### BankProfile, ProcActivity, ActivityPrefilter and InterferenceDetector - the detection pipeline

`BankProfile` holds the histogram (`profile_add_bank_class_count`, `merge`,
`overlap_score`) and `bank_profile_build` as steps: open maps, open pagemap, a
line of maps, a page, the end of a region, the return; either open and the
reading of maps may also fail for a process that lives. `ProcActivity` compares two
samples. `ActivityPrefilter` is `activity_prefilter_select_topk` as an operator
on a sequence of observations; nothing in the repository calls it together with
the detector, so it is applied to what the detector observed (`job.observed`, a
history). `InterferenceDetector` extends them; `limits` holds the configuration's
`max_normal_candidates` and the caller's `out_cap`, chosen from `Limits` at the
start and never changed; `job` is the stack frame of
`run_once` and says which loop it is in (`protected`, `collect`, `overlap`).
Between any two steps a process may exit (`Exit`) and another take over its pid
(`Reuse`), in the same clock tick or a later one; what a line of maps or an
entry of pagemap says is chosen when it is read. The files of a build stay with
the process they were opened for. `stat_files` counts the streams that
`proc_activity_sample_now` leaves open. A sample fails when the process is gone
or no descriptor is left, and `MaxFaults` times for any other reason (clock, read,
a line that cannot be parsed, a negative counter); `faulted` remembers of which
process. The two settings named `min_rss_pages` are separate, as in the code
(defaults 1 in `activity_prefilter.c` and 256 in `proc_activity.c`):
`prefilter_min_rss_pages` and `min_rss_pages`.

Abstractions: only the differences of a process's counters between two samples
matter, so they are chosen when the second sample is taken (`Changes`), and a
sample is its start time, plus the process it is of as a history. A score is an
integer out of `SCALE` instead of a double. Whether the mapping is ready is the
caller's affair and may be either. The list of processes is what the
component's test builds; no other caller exists. Byte counts, page sizes, the
dominant class and the counters of regions are left out: they are only printed,
or the same for all processes of a machine.

### The oracle experiments

Five of the six programs are one program with variations, copied from file to
file. A variation is a module (`OracleOverlap`, `OracleSweep`,
`OracleSelective`, `OracleMulti`, `OracleCpuMax`, and `OracleWorker` for the
worker that stands alone): its conditions, its accepted configurations, which
classes each role gets, and the order of its calls as a sequence of steps in the
vocabulary of `OracleSteps`. What a step does is defined once, from
`oracle_cpu_max_sweep.c`, where the copies agree.

`OracleSetup` runs `main` outside the conditions. A page is the bits of its
frame's address; `pagemap` is the kernel's truth, `pool[r].pages` what the
program read, `pool[r].lines`, `next` and `roots` the lines collected and the
chain over them. `OracleClasses` holds the algorithms: counting lines per class,
the choice of classes, `collect_line_set`, `build_single_chain` and
`build_multi_chain`. The shuffles are the code's with a smaller random
generator; that equal seeds give equal orders is kept, because the sweep relies
on it.
`MovePage` moves or drops a page at any time, `CallFails` fails a call. `seen`,
`early` and `moves` are histories.

`OracleRun` runs the conditions: `worker[r]` is a child with its process state,
the parent's knowledge of it (`pid`), its pipe, the result in it and its cgroup;
`cpu_max` and `dirs` are the cgroups. The parent takes the steps of
`run_condition` one at a time and on a failure goes to its `fail:` label
(`CleanUp`); a child stops itself, finishes or dies in between, perhaps after it
has written its result. `stray` and `died` are histories. No limit (`max`) is a
value of its own, so that a quota of zero is told from it.

What the programs promise of the load is modest, and so are the properties: the
aggressors are let go before the victim and waited for after it, and all of them
run for the same duration, so that they may end before the victim does. Only
`run_protected_corun.sh`, which drives another experiment, checks that the
background is still alive when the victim completes. What does hold is that a
worker that died spoils the condition: `ResultsComplete` says that no condition
counts as done, and no program succeeds, after a death.

Abstractions: what the loops measure and print is left out, a result is there or
not. `rmdir` fails only for a directory that is not empty: the code ignores its
result, and after any other failure the directory simply stays. A pool has four
pages of four lines, and offsets are counted in lines (a mask bit below a line is
negative).

### Proof modules

`DaemonProofs` (for `ProcessTable`, `DaemonEvents` and `CandidateFilter`),
`ThrottleProofs`, `CalibrationProofs` (for `DramMapping` and `Calibration`),
`DetectorProofs` (for `BankProfile`, `ActivityPrefilter` and
`InterferenceDetector`), `OracleRunProofs` (for `OracleRun` and the scripts of the
five experiments), and, in three layers, `OracleClassesProofs` (what the operators
of `OracleClasses` compute), `OracleSetupProofs` (where `main` is, and the pages) and
`OracleSelectionProofs` (lines, overlap and chains) extend the modules they are
about. The `MC...` modules give constants values; `MCCalibration` also lets a
program call `DramMapping` without the daemon. The operators named `Bug_...` are
defects used to show that a property can fail; no specification uses them.

## 3. Runs

| Run | Instance | Checks |
|---|---|---|
| `process_table` | 3 slots, pids 1, 3, 4, 7 (1, 4, 7 share a home slot, 3 wraps); 17823 states | `ProbeChainIntact`; `NoDuplicatePid`; `SlotsAgree`; `ProtectionLostOnlyByOwnEvent`; refinement `ImplementsMap` |
| `daemon_events` | 3 pids (2 is ignored by policy, 4 may be a child of the daemon itself), 2 slots, ring of 2, 1 extra thread, 3 kernel events, cgroup writes may fail, a snapshot at any time and its records classified at any later time; fair; 890k states | `DaemonInv` (types and `TableInv`); `CaughtUpIsExact`; `ProtectedIsPlaced`; `FilterSparesProtected` |
| `throttle_safety` | 2 pids, scores at the two thresholds, every failure allowed, pids symmetric; 4 configurations, chosen at every `init`: 2 records; 1 record and a minimum duration of 5 ms at 2 ns per ms, more than the largest integer, 9; that as a dry run; and one that is refused; 117k states | `MovesAreRecorded`, `RollbackComplete`, `QuotaBeforeThrottle`, `MinDurationKept`, `CooldownKept` |
| `throttle_liveness` | 2 pids, 2 records, no injected failures; fair | `StaleIsReleased` |
| `calibration` | 2 starts of the daemon, timeout 1, grace 1, the three kinds of file the worker writes, crashes and clock failures allowed; or a program that only calls the libraries: 2-bit words, 2 masks at most, files with up to 3 masks, ids around the buffer size, each field missing once; fair; 131k states | `ChecksInv` (types, `EveryMaskCounts`, `LoadedIsUsable`), `FailClosed`, `SameIffEqual`; `WorkerInv` (types, `NoWorkerLeft`), `ForeignFileIsOrphans`, `AttachedIsCalibrated`, `CalibrationEnds`, `GroupIsTerminated` |
| `detector` | 2 protected and 2 normal processes, 3 bank classes for 2 entries, every second page of up to 2 regions, at most 2 pages a process, one candidate to be profiled and an array for two or no limit and an array for one, 2 intervals, one exit with reuse, one sample that fails; 4.8M states | `DetectorInv` (types, `SampleBudgetKept`, `BuildClosesFiles`, `BestAreExamined`, `StatsAddUp`), `HistogramsInv` (`PagesAccounted`, `OverlapIsJaccard`), `ScoreIsOfOneProcess`, `TrackedWhileAlive`, `PrefilterKeepsActive`, `PrefilterSelectsBest` |
| `oracle_run` | all five programs with all conditions and children, in any order; at most two failing calls or dying children (one for `oracle_cpu_max_sweep`, whose steps are those of `oracle_multicandidate_control`); periods of 100 and 5, the second of which rounds 10 percent to 0; fair; 1.4M states | `RunInv` (types, `LimitInForce`, `ChainOfCondition`, `VictimComesLast`), `ResultsComplete`, `NothingLeft`, `StrayOnlyAfterDeath`, `Ends` |
| `oracle_setup` | all six programs; 4 pages of 4 lines per pool, 5 sets of masks, 5 layouts of frames, 6 configurations, 2 seeds, one page moved, any call failing | `SelectionInv` (types, `CollectNeverShort`), `OverlapAsNamed`, `ChainsCover`, `StableLines`, `SuccessMeansUnmoved`, `WorkerKeepsToClass` |

An invariant named `...Inv` is a conjunction of named parts, each with its own
statement in the module. The types of the process table and of the controller,
and that the controller's records never outgrow their array, are proved
(section 4) rather than checked.

The bounds are the least in which the interesting cases happen. Three slots with
three colliding pids are the least in which a record lies behind a tombstone
that another insertion can reuse while a third pid wraps around the end. A ring
of two fills with two events while a third happens; three kernel events are an
exec, the exit and the reuse of the pid, two of them queued, or a protected
parent, its child and a third task that finds the table full. Two records make
several writes in one call, of which the first or the last may fail; one record
for two pids makes the capacity test bite. An age that has reached its cap is
over every duration that does not saturate; a product that wrapped would be 0.
Two starts of the daemon are enough for one run's worker to meet the next run's
file. Two intervals give every normal process the two samples a score needs;
three classes for two entries let a merge overflow half way; two active
candidates for one place make the ranking matter, and the place is one for the
configuration's limit or for the caller's array; a process with 2 resident pages
is at the detector's minimum, one with 1 at the prefilter's. In `oracle_setup`
the masks include one that reaches both page and offset, one below a line and
one set too large; the layouts include one with pools of different classes, one
with too few lines in some pools and one with an unreadable frame; the
configurations include a work set that does not divide and one with fewer lines
than streams. In `oracle_run` two faults let a call of the clean-up's caller
fail and a child die on its own. `detector` has more descriptors than two
intervals can use up, `detector_leak` fewer.

Runs that refute what a comment says (findings):

| Run | Statement | What happens |
|---|---|---|
| `daemon_threads` | `process.c`: exec keeps inherited protection | a new thread is a fork event with child = parent and clears the record; a thread's exit removes it |
| `calibration_orphan` | `calibration.c:833`: never accept a stale success file from a previous run | the worker of a killed daemon replaces the file during the next daemon's calibration, after the stale file was removed, and is accepted |
| `throttle_full` | `throttle_controller.h`: a vanished candidate goes back to BACKGROUND | records are never freed; once the array cannot take a list's new pids, the call returns before the loop that releases stale processes |
| `detector_leak` | `interference_detector.h`: called once per interval; its test expects a live busy process to become a candidate | every successful sample keeps its stat stream open; with no descriptor left, running processes are marked dead for good |

What does hold of stale files is `ForeignFileIsOrphans`: only a worker that
nobody waited for, because its daemon was killed or lost its clock, can be the
source of a file of another run.

Deadlock checking is off where the event bound, or the bound on starts or
intervals, ends a behaviour.

### Fairness

* `PollFairness`: weak fairness of taking an event (`EventTaken`). `main` polls
  the ring buffer in a loop and each poll drains it. Nobody has to use a snapshot.
  `main` leaves the loop when a poll
  returns an error, and the daemon ends; the property is about a daemon that runs.
* `FairSpec` of the controller: weak fairness of `Tick` (time passes) and of
  `Apply` (the caller keeps calling). Nothing is assumed of what the lists
  contain, of processes, or of `release_all`.
* `CalFairness`: weak fairness of the daemon's steps, of time and of the
  delivery of signals. Nothing is assumed of worker and collectors: they may
  hang forever.
* `Spec` of `OracleRun`: weak fairness of the parent, which runs straight on, and
  of each child's own steps: a child stops itself before anything else, and its
  loop ends by the clock. A child that is stopped has no step to take, so a lost
  SIGCONT is not made good by fairness; a child's death is never assumed.

## 4. Proofs

**Process table** (`DaemonProofs`), for every `PROC_MAX > 0` and every
set of positive pids (`ProcMaxAssumption`, `PidsAssumption`).
`TableInv` is inductive: types; every occupied slot is reached from its pid's
home slot without crossing an EMPTY slot; no pid in two slots; flags, slot
states and count agree. Neither of the middle two is inductive alone: that an
insertion creates no duplicate depends on lookup finding every stored pid,
which is the chain property, and the chain property survives a deletion only
because the slot becomes a TOMBSTONE. Key lemmas: `PROC_MAX` probes visit
every slot (`ProbeCovers`), a stored pid is found in its slot
(`StoredIsFound`), an insertion is refused only when every slot is occupied
(`RefusedOnlyWhenFull`). Theorems: `TypeCorrect`, `TableCorrect`,
`ChainsStayIntact`, `NeverDuplicated`, `SnapshotNeverInconsistent`,
`ProtectionIsKept` (the action property: a call changes the record of its own
pid only, which again needs the chains), and `TableIsMap`, the
refinement: under `TableInv` the records of the occupied slots are a function of
the pid, the count is its cardinality, and every operation on slots is the
operation of `ProcessMap` on that function.

**Event path** (`DaemonProofs`), for every set of pids and names, every ring
size and every bound. `DaemonInv` alone says nothing of events that wait.
`DaemonIndInv` adds `ThreadsTraced` (a task that has threads is among those set
aside), `RecordsAgree` (a record's signs of protection agree) and `Backlog`: as
long as no event was lost or refused, the events that wait, taken in their order,
lead from the marks of the table to what ought to be protected now. Every kernel
event extends the backlog at its end and every call of `handle_event` takes its
head, so the statement survives both; with an empty ring it is
`CaughtUpIsExact`. For the candidate filter, `FilterIndInv` adds that the record in
the snapshot of a settled task agrees with what it was entitled to
(`SnapshotAgrees`, which is `CaughtUpIsExact` at the moment of the snapshot) and
that a settled task still runs under its pid (`SettledRuns`); the rest is the
order of the filter's rules. Theorems: `DaemonCorrect`, `DaemonCatchesUp`,
`FilterIsSafe`.

**Throttle controller** (`ThrottleProofs`), for every set of configurations,
those `validate_config` refuses included, every finite set of pids and every
bound on ages below `UINT64_MAX` (`ConfigAssumption`). `ThrottleInv` adds two
things to the properties: `Phases` (an uninitialized controller has no records,
an initialized one has written its limit, a dry run moves nobody) and
`AgesAgree` (the time in state that a record knows is at most the time since the
cgroup write it stems from, and a NONE record of a released process means that
the cooldown is over). Without `AgesAgree` the two duration properties do not
follow, because the code decides by its records and the properties speak of the
cgroup writes. Theorems: `TypesHold`, `NeverOutgrown`, `NeverLosesTrack`,
`LimitComesFirst`, `MinDurationHolds`, `CooldownHolds`, `RollbackHolds`.

**DRAM mapping** (`CalibrationProofs`), for words of every finite width, every
array size and every set of files (`MaskAssumption`, `FilesAssumption`). The
core is `ParityOfXor`: the parity of an XOR is zero exactly when the parities
agree, from the cardinalities of the parts of a union. Theorems:
`SameIsEqualClass`, `NeverReadyAfterFailure`, `SameIffEqualHolds`,
`ChecksAreEnough` (a result that was loaded is refused by the mapping only for
an empty id or a mask given twice, and every mask of a ready mapping counts),
and, from the same lemma, `LineClassIsAddressClass`: the class the experiments compute
from page base and offset apart is the class of the whole address, whatever the
masks. This is the fact behind `OverlapAsNamed`.

**Calibration** (`CalibrationProofs`), for every timeout, grace time, number of
starts and set of files, with crashes, clock failures and signals at any moment.
`CalIndInv` ties the daemon's program counter to the processes: `Workers` (no
worker of a later start exists), `Stages` (in which phases the present daemon has
a worker, and in which it has been reaped), `FreshFile` (from the removal of the
stale file on, a file is this run's or that of a worker nobody waited for) and
`LoadedOk` (the mapping is built from a result that was loaded without error).
The properties speak of the moment of loading or attaching; what they need is
established several steps earlier, and these parts carry it there. Theorems:
`NoWorkerIsLeft`, `NoStaleResult`, `OnlyCalibratedAttaches`.

**Detection pipeline** (`DetectorProofs`), for every set of pids, every table
size, sampling rate, page budget and number of intervals, every reading of maps
and pagemap, and exits with reuse between any two steps (`DetectorAssumption`,
`ProfileAssumption`). `DetIndInv` says for each loop of `run_once` whether a
profile is being built and with which files (`BuildOK`, `Loops`), and what the
counters are (`Counters`): a profile that is being built is counted as tried, and
not yet as built or failed, so that `StatsAddUp` is true only at the end. The sort
of the candidates is any order of their scores; that one exists is proved by
counting ranks (`OrderExists`, `SortedIs`). Theorems: `DetectorInductive`,
`DetectorCorrect`, `ScoresAreOfOneProcess`, and `DropsOnlyOnSampleError`: as long
as descriptors are left, a process that has been running all the time is given up
only if `sample_now` failed on that very process. The leak that `detector_leak`
shows makes it fail on all of them.

The histograms need sums over arrays. `Total` is the number of cells under the
graph of a function, so a sum of parts is the cardinality of a disjoint union
(`TotalSplit`), and adding an entry or enlarging one adds to it (`TotalMore`,
`TotalLarger`). The inductive part is `BuildHist` and `MergeHist`: a profile
has no class twice and no empty entry (`Regular`), it accounts for its pages as
long as nothing failed, and one that is handed on is not empty. `bank_profile_merge`
is followed round by round (`RoundsExist`, `RoundsMerge`, `MergeIs`); that no
class occurs twice is what makes the loops of `bank_profile_overlap_score`
count each common page once (`CommonIs`, `UnionIs`). Theorem:
`HistogramsAreRight`.

For the screening, `ScreenOK` says that there is an observation of every process
found active, with the differences that made it so. What `select_topk` returns
is proved of the operators, for any observations, any limit and any array
(`SelectsBest`): a ranking exists (`RankedIs`), the result is its beginning
(`TopkIs`), and the four counts partition the valid observations
(`StatsPartition`). `ActiveIsEligible` has the premise that neither threshold of
activity is 0, nor `min_rss_pages`, and that the prefilter asks for no more
resident pages than the detector (`SettingsAgree`, true of the defaults):
otherwise a process that did nothing, has no memory, or lies between the two
minima is active and is still screened out. Theorems: `SelectsBest`,
`PrefilterLosesNone`, `PrefilterIsBest`.

**Experiments** (`OracleRunProofs`), for all five programs, every order of their
conditions, every period and quota and any number of failed calls and dead
workers (`OracleRunAssumption`). The proof has two halves.

The first is about the order of the calls alone. `InOrder` says what the scripts of
the five programs have in common: no call is made twice for a worker; a worker is
awaited after it was started, placed after it stopped, and let go after it was
placed and its limit written; the victim is let go last and waited for first; a
result is read after its worker was reaped; and in the end every result has been
read. Each script is laid out by the position of every call (`Laid`), the order is
compared position by position (`Ordered`), and `ScriptsInOrder` concludes it for
every program and condition.

The second is `OracleIndInv`, in which `Log` is the set of calls made so far.
`Known` says from `Log` what a child, its pid, its pipe and its result are;
that is what makes the failing branches provable, since the clean-up decides by pids and
pipes and not by the calls made. `Quiet` says that nothing is there between
conditions, `Cleaned` that the clean-up has nothing behind it, `Pids` that a pid is
that of a child or of one that died, `Groups` that the cgroups last as long as
the conditions, and `Placed` that a candidate that runs is where its limit is,
in the clean-up too, where `Log` no longer counts. `VictimComesLast` then follows
because a victim that runs was let go, so every aggressor was let go before and
none was waited for yet. On top of it, `Deaths` says that a worker that died is
still a child while its condition runs, so that a wait meets it and the
condition fails, and `Accepts` that a condition whose quota is zero was refused
(`DeathsAreSeen`). Theorems: `OracleInductive`, `DeathsAreSeen`,
`MeasuredAsNamed`, `NoResultMissing`, `EverythingIsUndone`, `NoStraySignal`.

**The experiments' set-up** (`OracleClassesProofs`, `OracleSetupProofs`,
`OracleSelectionProofs`), for all six programs, every set of masks, page width,
layout of frames, seed, work set, number of classes and of streams, with any
call failing and any pages moving (`OracleSetupAssumption`,
`MasksAssumption`). The second assumption says that some mask is not zero, as
`dram_mapping_init_from_calibration` ensures, and that no bit is below a byte of the line. A page
moves to a frame it did not have before: one that moves away and back between two reads of the
pagemap is noticed by no check in the code, and is not in the model either.

The layers are these. The operators: what a recursion over the pool computes is
proved by induction with a set in place of the property (`Induction`,
`Recursion`); a Fisher-Yates pass is a permutation whatever the generator draws
(`ExchangePermutes`, `ShuffleIs`); the selection takes the first lines of each
class in the shuffled order (`CollectIs`, `GatheredIs`); the threads of a chain
partition the lines (`ThreadsCover`); class and histogram of a line are those of
its whole address (`AddressClass`, `HistogramIs`). The control: `ControlOK` says
that `main` is inside the script of its program, whose steps come in stages, so
that each step finds done what it needs (`Did`, `Known...`, `Staged...`). The data:
`FactsInv` holds one fact for every step made, kept until the step is made again, and
`WorkerInv` the same of the worker. `SetupInv` joins them with `UnmovedInv` (a
pool that moved early differs from the frames it was created with, is in doubt
once the verification has looked at it, and is then not judged stable) and
`LinesIn` (selected lines are lines of the pool); `SeenOK`
adds, for the sweep, that the lines of a finished level are those its classes
and the seed determine. None of the properties is inductive without these: the
acceptance test compares histograms that were built several steps after the
classes were chosen, and at each level of the sweep from lines and chains written over
those of the level before.

Theorems: `StaysInScript`, `SuccessIsUnmoved`, `OverlapIsAsNamed` (the acceptance
test never fails), `CollectIsNeverShort`, `SelectionIsSound`, `ChainsCoverLines`,
`LinesAreStable` (because the seed does not depend on the level, and which other
classes are wanted does not matter to the lines of one), `WorkerStaysInClass`.

Every invariant and action property of the passing runs is one of these
theorems. Only model-checked is liveness, which is out of the prover's reach:
`ProtectedIsPlaced`, `StaleIsReleased`, `CalibrationEnds`, `GroupIsTerminated`
and `Ends`.

## 5. Not modelled, and the plan

Next: the worker's analysis (`kk_calibrate.py`), that is GF(2) rank and null space,
the greedy choice of masks, and that the masks written are independent. The
composition of `DaemonEvents` with `ThrottleController` waits for a program that
runs both; until then nothing says which of them ought to win a process that
becomes protected while it is throttled.

Known weaknesses that no property covers, because no code handles them: the
cgroup write of the daemon names a pid and can reach a task that reused it;
tasks that run under a protected name before the tracepoints are attached are
never moved; the release of an exited process fails at every call; a candidate's
activity and profile may be of two processes if its pid is reused in between; a
clock failure right after the launch leaves the calibration worker running;
`oracle_bank_worker` never reads its frames again; an experiment killed by a
signal leaves its stopped children and cgroups behind.

Left out for good: printing and error texts, the shell scripts (straight-line
set-up), the prototypes (replaced by `protected-daemon`), the load generators
of `mem_interference_test`, and the statistics of the experiments.
