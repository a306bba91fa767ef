----------------------------- MODULE Calibration -----------------------------
(***************************************************************************)
(* The daemon's start: main and init_dram_bank_mapping of                  *)
(* protected_daemon.c, calibration_run of calibration.c, the worker        *)
(* scripts/kk_calibrate.py that it forks, and the collector processes the  *)
(* worker starts.  Worker and collectors form one process group.  They run *)
(* concurrently with the daemon, and may outlive it; the next daemon       *)
(* finds the result file and the processes the previous one left.          *)
(*                                                                         *)
(* Time counts polls since the wait, or the grace period, began.  Errors   *)
(* that cannot occur are left out: setpgid failing otherwise than with     *)
(* EACCES or ESRCH, and waitpid failing on a child not yet reaped.         *)
(***************************************************************************)
EXTENDS DramMapping

CONSTANTS
    MaxRuns,        \* bound: how often the daemon is started
    timeout,        \* timeout_sec, in polls; 0 means none
    TERM_GRACE,     \* TERM_GRACE_MS, in polls
    CrashAllowed,   \* may the daemon be killed?
    ClockMayFail    \* may clock_gettime fail?

ASSUME CalibrationAssumption ==
    /\ MaxRuns \in Nat \ {0} /\ timeout \in Nat /\ TERM_GRACE \in Nat
    /\ CrashAllowed \in BOOLEAN /\ ClockMayFail \in BOOLEAN

VARIABLES
    phase,      \* what the daemon process is doing
    run,        \* how often it was started
    rc,         \* run -> what its calibration_run returned
    exit_code,  \* worker_exit_code
    clock,      \* polls since the wait or the grace period began
    worker,     \* run -> the worker process it forked
    collector,  \* run -> the collector its worker runs
    file,       \* the file at result_path
    accepted,   \* history: the file the result was loaded from
    bank_mapping_ready

calVars == <<result, mapping, ret, phase, run, rc, exit_code, clock, worker, collector, file,
             accepted, bank_mapping_ready>>
processes == <<worker, collector, file>>
context == <<result, mapping, bank_mapping_ready, accepted>>

Run == 1..MaxRuns
NoFile == [by |-> 0]
ErrorCode == {"IO", "FORK", "WAIT", "TIMEOUT", "WORKER_EXIT", "JSON", "REJECTED", "TOO_MANY_MASKS"}
Status == [how : {"exit", "signal"}, n : 0..127]
Worker == [st : {"none", "forked", "running", "wrote", "zombie", "reaped"}, group : BOOLEAN,
           signal : {"none", "TERM", "KILL"}, status : Status]
NoWorker == [st |-> "none", group |-> FALSE, signal |-> "none", status |-> [how |-> "exit", n |-> 0]]
Collector == [st : {"none", "running"}, signal : {"none", "TERM", "KILL"}]
NoCollector == [st |-> "none", signal |-> "none"]

Exited(w) == w.st \in {"zombie", "reaped"}

-----------------------------------------------------------------------------
(* protected_daemon.c and calibration.c: the daemon.                       *)

Fail(code) ==
    /\ rc' = [rc EXCEPT ![run] = code]
    /\ phase' = "failed"

\* main up to init_dram_bank_mapping.  policy_load_config may fail.
Start ==
    /\ phase \in {"down", "failed"} /\ run < MaxRuns
    /\ run' = run + 1
    /\ phase' \in {"calibrating", "failed"}
    /\ result' = calibration_result_reset
    /\ mapping' = NoMapping
    /\ bank_mapping_ready' = FALSE
    /\ accepted' = NoFile
    /\ exit_code' = -1
    /\ UNCHANGED <<ret, rc, clock, processes>>

\* Defect: the result of an earlier run is left in place.
Bug_KeepStale ==
    /\ phase = "calibrating"
    /\ phase' = "launching"
    /\ UNCHANGED <<ret, run, rc, exit_code, clock, processes, context>>

\* calibration_run removes the file of an earlier run.
RemoveStale ==
    /\ phase = "calibrating"
    /\ \/ file' = NoFile /\ phase' = "launching" /\ UNCHANGED rc
       \/ Fail("IO") /\ UNCHANGED file
    /\ UNCHANGED <<ret, run, exit_code, clock, worker, collector, context>>

\* launch_worker: fork.
Launch ==
    /\ phase = "launching"
    /\ \/ /\ worker' = [worker EXCEPT ![run] = [NoWorker EXCEPT !.st = "forked"]]
          /\ phase' = "joining"
          /\ UNCHANGED rc
       \/ Fail("FORK") /\ UNCHANGED worker
    /\ UNCHANGED <<ret, run, exit_code, clock, collector, file, context>>

\* Defect: only the child makes itself the leader of its group.
Bug_ParentNeverJoins == UNCHANGED worker

\* The parent's setpgid: it has effect until the child has called exec.
JoinGroup == worker' = [worker EXCEPT ![run].group = TRUE]

\* launch_worker returns and wait_child reads the clock.  If it cannot, it
\* returns at once; the worker stays.
BeginWait ==
    /\ phase = "joining"
    /\ JoinGroup
    /\ clock' = 0
    /\ \/ phase' = "waiting" /\ UNCHANGED rc
       \/ ClockMayFail /\ timeout > 0 /\ Fail("WAIT")
    /\ UNCHANGED <<ret, run, exit_code, collector, file, context>>

Signalled(p, sig) == [p EXCEPT !.signal = sig]

\* Defect: only the worker itself is signalled.
Bug_SignalWorkerOnly(sig) ==
    /\ worker' = IF worker[run].group /\ ~Exited(worker[run])
                   THEN [worker EXCEPT ![run] = Signalled(@, sig)] ELSE worker
    /\ UNCHANGED collector

\* kill(-pid, sig): every process of the group that runs.
SignalGroup(sig) ==
    /\ worker' = IF worker[run].group /\ ~Exited(worker[run])
                   THEN [worker EXCEPT ![run] = Signalled(@, sig)] ELSE worker
    /\ collector' = IF collector[run].st = "running"
                      THEN [collector EXCEPT ![run] = Signalled(@, sig)] ELSE collector

\* Defect: after SIGTERM the worker is not waited for.
Bug_TerminateAbandons(code) ==
    /\ SignalGroup("TERM")
    /\ rc' = [rc EXCEPT ![run] = code]
    /\ clock' = 0
    /\ phase' = "failed"

\* terminate_process_group begins.  Without a clock it has no deadline.
Terminate(code) ==
    /\ SignalGroup("TERM")
    /\ rc' = [rc EXCEPT ![run] = code]
    /\ clock' = 0
    /\ phase' \in IF ClockMayFail THEN {"terminating", "draining"} ELSE {"terminating"}

\* Defect: the wait status is not decoded.
Bug_RawStatus(status) == IF status.how = "exit" THEN 256 * status.n ELSE status.n

\* WEXITSTATUS, or 128 + WTERMSIG.
ExitCode(status) == IF status.how = "exit" THEN status.n ELSE 128 + status.n

Reap == worker' = [worker EXCEPT ![run].st = "reaped"]

\* One iteration of wait_child's loop that does not go on sleeping.
PollWorker ==
    /\ phase = "waiting"
    /\ \/ /\ worker[run].st = "zombie"
          /\ Reap
          /\ exit_code' = ExitCode(worker[run].status)
          /\ phase' = "loading"
          /\ UNCHANGED <<rc, clock, collector>>
       \/ /\ worker[run].st # "zombie" /\ timeout > 0
          /\ \/ clock >= timeout /\ Terminate("TIMEOUT")
             \/ ClockMayFail /\ Terminate("WAIT")
          /\ UNCHANGED exit_code
    /\ UNCHANGED <<ret, run, file, context>>

\* The rest of terminate_process_group: wait out the grace period, then
\* SIGKILL and wait for as long as it takes.
FinishTermination ==
    /\ phase \in {"terminating", "draining", "killing"}
    /\ \/ /\ worker[run].st = "zombie"
          /\ Reap
          /\ phase' = "failed"
          /\ UNCHANGED collector
       \/ /\ worker[run].st # "zombie"
          /\ phase = "terminating" /\ clock >= TERM_GRACE
          /\ SignalGroup("KILL")
          /\ phase' = "killing"
    /\ UNCHANGED <<ret, run, rc, exit_code, clock, file, context>>

\* Defect: the worker's exit code is not looked at.
Bug_FinalIgnoresExit(code, exit) == code

\* A failed worker may leave a file that says why, never one that is accepted.
FinalCode(code, exit) ==
    IF exit = 0 THEN code ELSE IF code = "REJECTED" THEN "REJECTED" ELSE "WORKER_EXIT"

\* calibration_run reads the file, if there is one and it can be read.
LoadResult ==
    /\ phase = "loading"
    /\ \E readable \in BOOLEAN :
         LET found == readable /\ file # NoFile
             code == FinalCode(IF found THEN LoadCode(file.text) ELSE "IO", exit_code)
         IN  /\ result' = IF found THEN Loaded(file.text) ELSE calibration_result_reset
             /\ accepted' = IF found THEN file ELSE NoFile
             /\ rc' = [rc EXCEPT ![run] = code]
             /\ phase' = IF code = "OK" THEN "mapping" ELSE "failed"
    /\ UNCHANGED <<ret, run, exit_code, clock, processes, mapping, bank_mapping_ready>>

InitMapping ==
    /\ phase = "mapping"
    /\ mapping' = InitFrom(mapping, result)
    /\ bank_mapping_ready' = (validate_calibration_result(result) = "OK")
    /\ phase' = IF bank_mapping_ready' THEN "attaching" ELSE "failed"
    /\ UNCHANGED <<ret, run, rc, exit_code, clock, processes, result, accepted>>

\* Loading and attaching the BPF programs and creating the ring buffer; the
\* loop of main then ends only when polling fails.
Attach ==
    /\ phase \in {"attaching", "running"}
    /\ phase' \in {"running", "failed"}
    /\ UNCHANGED <<ret, run, rc, exit_code, clock, processes, context>>

Crash ==
    /\ CrashAllowed /\ phase \notin {"down", "failed"}
    /\ phase' = "down"
    /\ UNCHANGED <<ret, run, rc, exit_code, clock, processes, context>>

Tick ==
    /\ phase \in {"waiting", "terminating"}
    /\ clock < IF timeout > TERM_GRACE THEN timeout ELSE TERM_GRACE
    /\ clock' = clock + 1
    /\ UNCHANGED <<ret, phase, run, rc, exit_code, processes, context>>

-----------------------------------------------------------------------------
(* kk_calibrate.py and the collectors.                                     *)

daemonUnchanged == UNCHANGED <<ret, phase, run, rc, exit_code, clock, context>>

Exits(r, how, n) ==
    worker' = [worker EXCEPT ![r].st = "zombie", ![r].status = [how |-> how, n |-> n]]

\* The child makes itself a group leader, opens its log and execs.
WorkerStarts(r) ==
    /\ worker[r].st = "forked"
    /\ \/ worker' = [worker EXCEPT ![r].st = "running", ![r].group = TRUE]
       \/ Exits(r, "exit", 126)
       \/ Exits(r, "exit", 127)
    /\ UNCHANGED <<collector, file>>
    /\ daemonUnchanged

\* collect_timing_run: one collector at a time.
Collect(r) ==
    /\ worker[r].st = "running" /\ worker[r].signal = "none"
    /\ collector[r].st = "none"
    /\ collector' = [collector EXCEPT ![r].st = "running"]
    /\ UNCHANGED <<worker, file>>
    /\ daemonUnchanged

CollectorEnds(r) ==
    /\ collector[r].st = "running"
    /\ collector' = [collector EXCEPT ![r] = NoCollector]
    /\ UNCHANGED <<worker, file>>
    /\ daemonUnchanged

\* atomic_write_json: the file changes in one step.  A signal that is on its
\* way does not stop the rename any more.  main then means to return 0 or 2.
WorkerWrites(r, text) ==
    /\ worker[r].st = "running" /\ collector[r].st = "none"
    /\ file' = [by |-> r, text |-> text]
    /\ worker' = [worker EXCEPT ![r].st = "wrote",
                                ![r].status.n = IF text.status = "success" THEN 0 ELSE 2]
    /\ UNCHANGED collector
    /\ daemonUnchanged

\* main returns, or an exception it does not catch ends it with 1, even
\* after the file was written; 2 without a file if that cannot be written.
WorkerExits(r) ==
    /\ \/ worker[r].st = "wrote" /\ \E n \in {worker[r].status.n, 1} : Exits(r, "exit", n)
       \/ /\ worker[r].st = "running" /\ collector[r].st = "none"
          /\ \E n \in {1, 2} : Exits(r, "exit", n)
    /\ UNCHANGED <<collector, file>>
    /\ daemonUnchanged

\* Another process, or the kernel short of memory, kills the worker.
WorkerLost(r) ==
    /\ worker[r].st \in {"forked", "running", "wrote"}
    /\ Exits(r, "signal", 9)
    /\ UNCHANGED <<collector, file>>
    /\ daemonUnchanged

\* SIGTERM (15) or SIGKILL (9) takes effect: neither is caught.
WorkerKilled(r) ==
    /\ worker[r].signal # "none" /\ ~Exited(worker[r])
    /\ Exits(r, "signal", IF worker[r].signal = "TERM" THEN 15 ELSE 9)
    /\ UNCHANGED <<collector, file>>
    /\ daemonUnchanged

CollectorKilled(r) ==
    /\ collector[r].signal # "none"
    /\ collector' = [collector EXCEPT ![r] = NoCollector]
    /\ UNCHANGED <<worker, file>>
    /\ daemonUnchanged

-----------------------------------------------------------------------------
CalInit ==
    /\ Init
    /\ phase = "down" /\ run = 0 /\ rc = [r \in Run |-> "none"]
    /\ exit_code = -1 /\ clock = 0
    /\ worker = [r \in Run |-> NoWorker] /\ collector = [r \in Run |-> NoCollector]
    /\ file = NoFile /\ accepted = NoFile /\ bank_mapping_ready = FALSE

DaemonStep ==
    \/ RemoveStale \/ Launch \/ BeginWait \/ PollWorker \/ FinishTermination
    \/ LoadResult \/ InitMapping \/ Attach

CalNext ==
    \/ Start \/ DaemonStep \/ Crash \/ Tick
    \/ \E r \in Run :
         \/ WorkerStarts(r) \/ Collect(r) \/ CollectorEnds(r) \/ WorkerExits(r)
         \/ WorkerLost(r) \/ WorkerKilled(r) \/ CollectorKilled(r)
         \/ \E text \in Files : WorkerWrites(r, text)

CalSpec == CalInit /\ [][CalNext]_calVars

\* The daemon's loops go on, time passes and signals take effect.  Nothing
\* is assumed of the worker, which may hang.
CalFairness ==
    /\ WF_calVars(DaemonStep) /\ WF_calVars(Tick)
    /\ \A r \in Run : WF_calVars(WorkerKilled(r)) /\ WF_calVars(CollectorKilled(r))

-----------------------------------------------------------------------------
(* Properties.                                                             *)

\* Types of the composed system.
CalTypeOK ==
    /\ TypeOK
    /\ run \in 0..MaxRuns /\ rc \in [Run -> {"none", "OK"} \cup ErrorCode]
    /\ exit_code \in -1..255
    /\ worker \in [Run -> Worker] /\ collector \in [Run -> Collector]
    /\ file.by \in 0..MaxRuns /\ bank_mapping_ready \in BOOLEAN

\* However calibration_run ends, by success, timeout or failure, it leaves
\* no worker behind that could still write the result file; only a clock
\* that cannot be read makes it give up on one.
NoWorkerLeft ==
    phase \in {"failed", "loading", "mapping", "attaching", "running"} /\ rc[run] # "WAIT" =>
        worker[run].st \in {"none", "reaped"}

\* Exit codes and phases are what the code knows, and no worker is left.
WorkerInv == CalTypeOK /\ NoWorkerLeft

\* calibration.c:833: "Never accept a stale success file from a previous
\* run/boot."  When calibration_run has succeeded, the file it accepted is
\* the one its own worker wrote.
NeverAcceptsStale == phase \in {"mapping", "attaching", "running"} => accepted.by = run

\* What does hold: a file of another run that calibration_run parses is that
\* of a worker nobody waited for, because its daemon was killed or lost its
\* clock.  Removing the file once is enough against every other earlier run,
\* in particular when this run's worker failed without writing one.
ForeignFileIsOrphans ==
    phase = "loading" /\ file # NoFile => file.by = run \/ worker[file.by].st # "reaped"

\* The daemon attaches its programs only with the masks of a file that says
\* success and accepted, from a worker that exited with code 0.
AttachedIsCalibrated ==
    phase \in {"attaching", "running"} =>
        /\ bank_mapping_ready /\ dram_mapping_is_ready(mapping)
        /\ exit_code = 0 /\ rc[run] = "OK"
        /\ accepted.text.status = "success" /\ accepted.text.passed = "true"
        /\ mapping.masks = accepted.text.masks

\* With a timeout, calibration ends, whatever the worker does.
CalibrationEnds ==
    timeout > 0 => (phase = "calibrating" ~> phase \in {"running", "failed", "down"})

\* calibration.c:256: after a timeout the collectors of the worker end as
\* well, though only the worker itself is waited for.
GroupIsTerminated ==
    \A r \in Run : rc[r] = "TIMEOUT" ~> collector[r].st = "none"
=============================================================================
