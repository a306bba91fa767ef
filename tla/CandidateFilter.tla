-------------------------- MODULE CandidateFilter --------------------------
(***************************************************************************)
(* protected-daemon/src/candidate_filter.c: which records of the process   *)
(* table may become targets of the detector.  The records are those of an  *)
(* earlier process_snapshot, kept in ret.out; the cgroup is read from      *)
(* /proc when a record is classified.  In between tasks fork, exec and     *)
(* exit, pids are reused and the daemon takes events and moves tasks.      *)
(*                                                                         *)
(* A path is what the tests tell apart.  daemon_pid is not among Pids: the *)
(* daemon execs and forks nothing once its programs are attached.          *)
(***************************************************************************)
EXTENDS DaemonEvents

CONSTANT daemon_pid
ASSUME DaemonPidAssumption == daemon_pid \in Nat \ Pids

VARIABLES
    verdict,   \* the record of the snapshot that was classified in the last step
    settled,   \* history: tasks the snapshot was up to date with and that still run
    entitled   \* history: the tasks that ought to be protected when it was taken

filterVars == <<allVars, verdict, settled, entitled>>

NoPath == "unavailable"

Result(kind, reason) == [kind |-> kind, reason |-> reason]

process_record_is_valid(p) == p.used /\ p.pid > 0

\* Defect: the group alone says whether a record is protected.
Bug_GroupAlone(p) == p.group = "PROTECTED"

process_record_is_protected(p) ==
    p.is_protected \/ p.inherited_protected \/ p.group = "PROTECTED"

\* The paths the file may hold: a task the daemon has not moved is wherever
\* it was started.  The file of a task that is gone cannot be opened, and
\* reading that of a live one may fail.
read_cgroup_v2_path(pid) ==
    {NoPath} \cup (IF ~Alive(pid) THEN {}
                  ELSE IF task[pid].protected THEN {"protected"}
                  ELSE {"root", "user.slice", "system.slice"})

candidate_filter_path_is_system_slice(path) == path = "system.slice"

candidate_filter_classify_path(p, path) ==
    IF ~process_record_is_valid(p) THEN Result("EXCLUDED", "INVALID_PROCESS")
    ELSE IF p.pid = daemon_pid THEN Result("EXCLUDED", "DAEMON_SELF")
    ELSE IF process_record_is_protected(p) THEN Result("PROTECTED", "NONE")
    ELSE IF path = NoPath THEN Result("EXCLUDED", "CGROUP_UNAVAILABLE")
    ELSE IF candidate_filter_path_is_system_slice(path) THEN Result("EXCLUDED", "SYSTEM_SLICE")
    ELSE Result("BACKGROUND", "NONE")

\* One record of the snapshot, with the file as it is now.  The tests that
\* are repeated before the file is read are those of classify_path.
candidate_filter_classify_pid(p) ==
    /\ \E path \in read_cgroup_v2_path(p.pid) :
         LET result == candidate_filter_classify_path(p, path)
         IN  verdict' = [pid |-> p.pid, kind |-> result.kind, reason |-> result.reason]
    /\ UNCHANGED <<allVars, settled, entitled>>

-----------------------------------------------------------------------------
NoVerdict == [pid |-> 0, kind |-> "NONE", reason |-> "NONE"]

\* The caller's array has room for the whole table.
TakeSnapshot ==
    /\ process_snapshot(PROC_MAX)
    /\ verdict' = NoVerdict
    /\ entitled' = ought
    /\ settled' = {p \in Pids \ threaded : Alive(p) /\ ring = <<>> /\ ~lost /\ ~refused}
    /\ UNCHANGED <<task, ring, events, lost, refused, unmoved, ought, threaded>>

\* The kernel and the daemon go on; a task that exits is settled no more,
\* whoever gets its pid.
SystemStep ==
    /\ DaemonNext
    /\ settled' = {p \in settled : task'[p].alive}
    /\ verdict' = NoVerdict
    /\ UNCHANGED entitled

FilterInit == DaemonInit /\ verdict = NoVerdict /\ settled = {} /\ entitled = {}

FilterNext ==
    \/ SystemStep
    \/ TakeSnapshot
    \/ \E p \in ret.out : candidate_filter_classify_pid(p)

FilterSpec == FilterInit /\ [][FilterNext]_filterVars

\* Nobody has to take or use a snapshot.
FilterFairSpec == FilterSpec /\ PollFairness

-----------------------------------------------------------------------------
(* Properties.                                                             *)

\* However long ago the snapshot was taken: if the daemon was up to date
\* with a task then, and the task still runs, the filter never offers it as
\* a background candidate when it ought to have been protected at that time,
\* and never takes it for protected unless it ought to be.  Nothing is said
\* of a task that became protected, or got its pid, after the snapshot.
FilterSparesProtected ==
    verdict.pid \in settled =>
        /\ verdict.kind = "BACKGROUND" => verdict.pid \notin entitled
        /\ verdict.kind = "PROTECTED" => verdict.pid \in ought
=============================================================================
