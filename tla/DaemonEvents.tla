---------------------------- MODULE DaemonEvents ----------------------------
(***************************************************************************)
(* The daemon's event path: tasks fork, exec and exit; the tracepoint      *)
(* programs of protected_daemon.bpf.c put one event each into a bounded    *)
(* ring buffer, or drop it when the buffer is full; handle_event of        *)
(* protected_daemon.c takes the events one by one, updates the process     *)
(* table, applies policy.c and moves protected tasks to their cgroup.      *)
(*                                                                         *)
(* sched_process_fork and sched_process_exit also fire for threads.  The   *)
(* programs report tgids, so a new thread is a fork event whose child is   *)
(* its own parent and a finished thread is an exit event of a live task.   *)
(***************************************************************************)
EXTENDS ProcessTable, Sequences

CONSTANTS
    ProtectedComms,  \* names listed in protected.conf
    RingMax,         \* events the ring buffer holds
    MaxThreads,      \* bound: extra threads of one task
    MaxEvents,       \* bound: kernel events in one behaviour
    WorkerPids,      \* pids that may be children of the daemon process when it attaches
    MovesMayFail     \* may a cgroup write for a live task fail?

ASSUME DaemonAssumption ==
    /\ ProtectedComms \subseteq Comms
    /\ RingMax \in Nat \ {0}
    /\ MaxThreads \in Nat /\ MaxEvents \in Nat
    /\ WorkerPids \subseteq Pids /\ MovesMayFail \in BOOLEAN

VARIABLES
    task,      \* pid -> the kernel's view of the task
    ring,      \* the ring buffer, oldest event first
    events,    \* kernel events so far
    lost,      \* history: an event was dropped
    refused,   \* history: the process table had no room for an event's pid
    unmoved,   \* history: a cgroup write failed for a live task
    ought,     \* history: live tasks that execed a protected name, or whose parent had
    threaded   \* history: live tasks that had a thread, and their descendants

allVars == <<proc_table, slot_states, occupied_count, ret, task, ring, events, lost,
             refused, unmoved, ought, threaded>>

\* own: the task's parent is the daemon, which starts nothing once attached.
NoTask == [alive |-> FALSE, comm |-> NoComm, protected |-> FALSE, threads |-> 0, own |-> FALSE]
Task == {NoTask} \cup
        [alive : {TRUE}, comm : Comms, protected : BOOLEAN, threads : 0..MaxThreads, own : BOOLEAN]
Event == [type : {"EXEC", "FORK", "EXIT"}, pid : Pids, child_pid : EventPids,
          comm : Comms \cup {NoComm}, own : BOOLEAN]

Alive(p) == task[p].alive

-----------------------------------------------------------------------------
(* protected_daemon.bpf.c: one program per tracepoint.                     *)

\* Defect: the reservation is not checked.
Bug_EmitUnchecked(e) ==
    /\ events < MaxEvents
    /\ events' = events + 1
    /\ ring' = Append(ring, e)
    /\ UNCHANGED lost

\* bpf_ringbuf_reserve fails when the buffer is full: the event is gone.
Emit(e) ==
    /\ events < MaxEvents
    /\ events' = events + 1
    /\ IF Len(ring) < RingMax
         THEN ring' = Append(ring, e) /\ UNCHANGED lost
         ELSE lost' = TRUE /\ UNCHANGED ring

handle_fork(parent, child) ==
    Emit([type |-> "FORK", pid |-> parent, child_pid |-> child, comm |-> task[parent].comm,
          own |-> FALSE])

\* The comm of an exit event is only printed.
handle_exit(p) ==
    Emit([type |-> "EXIT", pid |-> p, child_pid |-> 0, comm |-> NoComm, own |-> FALSE])

handle_exec(p, comm) ==
    Emit([type |-> "EXEC", pid |-> p, child_pid |-> 0, comm |-> comm, own |-> task[p].own])

-----------------------------------------------------------------------------
(* The kernel.                                                             *)

daemonUnchanged == UNCHANGED <<table, ret, refused, unmoved>>

\* A child starts with its parent's name and in its parent's cgroup.
Fork(p, c) ==
    /\ Alive(p) /\ ~Alive(c)
    /\ task' = [task EXCEPT ![c] = [task[p] EXCEPT !.threads = 0, !.own = FALSE]]
    /\ ought' = IF p \in ought THEN ought \cup {c} ELSE ought \ {c}
    /\ threaded' = IF p \in threaded THEN threaded \cup {c} ELSE threaded \ {c}
    /\ handle_fork(p, c)
    /\ daemonUnchanged

StartThread(p) ==
    /\ Alive(p) /\ task[p].threads < MaxThreads
    /\ task' = [task EXCEPT ![p].threads = @ + 1]
    /\ threaded' = threaded \cup {p}
    /\ handle_fork(p, p)
    /\ UNCHANGED ought
    /\ daemonUnchanged

EndThread(p) ==
    /\ Alive(p) /\ task[p].threads > 0
    /\ task' = [task EXCEPT ![p].threads = @ - 1]
    /\ handle_exit(p)
    /\ UNCHANGED <<ought, threaded>>
    /\ daemonUnchanged

\* The other threads of a task are gone before its exec or exit is traced.
Exec(p, comm) ==
    /\ Alive(p) /\ task[p].threads = 0
    /\ task' = [task EXCEPT ![p].comm = comm]
    /\ ought' = IF comm \in ProtectedComms /\ ~task[p].own THEN ought \cup {p} ELSE ought
    /\ handle_exec(p, comm)
    /\ UNCHANGED threaded
    /\ daemonUnchanged

Exit(p) ==
    /\ Alive(p) /\ task[p].threads = 0
    /\ task' = [task EXCEPT ![p] = NoTask]
    /\ ought' = ought \ {p}
    /\ threaded' = threaded \ {p}
    /\ handle_exit(p)
    /\ daemonUnchanged

-----------------------------------------------------------------------------
(* policy.c.                                                               *)

policy_is_ignored(rec) == rec.pid <= 2 \/ rec.comm = NoComm

policy_is_protected(rec) == rec.comm \in ProtectedComms

policy_decide_group(rec) ==
    IF policy_is_ignored(rec) THEN "IGNORED"
    ELSE IF rec.is_protected \/ policy_is_protected(rec) THEN "PROTECTED"
    ELSE "BACKGROUND"

-----------------------------------------------------------------------------
(* protected_daemon.c: handle_event.                                       *)

\* cgroup_move_pid(pid, GROUP_PROTECTED).  The write reaches whichever task
\* has the pid now.  Nobody looks at its result, and it is not tried again.
MoveToProtected(pid) ==
    \/ /\ Alive(pid)
       /\ task' = [task EXCEPT ![pid].protected = TRUE]
       /\ UNCHANGED unmoved
    \/ /\ Alive(pid) /\ MovesMayFail
       /\ unmoved' = TRUE
       /\ UNCHANGED task
    \/ /\ ~Alive(pid)
       /\ UNCHANGED <<task, unmoved>>

MoveIf(condition, pid) == IF condition THEN MoveToProtected(pid) ELSE UNCHANGED <<task, unmoved>>

\* The record after handle_event has applied the policy to it.
Classified(rec) ==
    LET marked == [rec EXCEPT !.is_protected = @ \/ policy_is_protected(rec)]
    IN  [marked EXCEPT !.group = policy_decide_group(marked)]

\* Defect: the exec path classifies but never moves.
Bug_ExecNeverMoves(e) ==
    /\ LET plain == ExecRecord(e.pid, e.comm)
       IN  Upsert(e.pid, IF e.own THEN plain ELSE Classified(plain))
    /\ refused' = (refused \/ ~CanUpsert(e.pid))
    /\ UNCHANGED <<task, unmoved>>

\* The daemon's own children keep the record they had: no policy, no move.
HandleExec(e) ==
    LET plain == ExecRecord(e.pid, e.comm)
        rec == IF e.own THEN plain ELSE Classified(plain)
    IN  /\ Upsert(e.pid, rec)
        /\ MoveIf(CanUpsert(e.pid) /\ ~e.own /\ rec.group = "PROTECTED", e.pid)
        /\ refused' = (refused \/ ~CanUpsert(e.pid))

\* The test repeated after process_upsert_fork sees the parent's record as
\* it is then; it can only agree with Inherits.
HandleFork(e) ==
    /\ Upsert(e.child_pid, ForkRecord(e.pid, e.child_pid, e.comm))
    /\ MoveIf(CanUpsert(e.child_pid) /\ Inherits(e.pid, e.child_pid), e.child_pid)
    /\ refused' = (refused \/ ~CanUpsert(e.child_pid))

\* Defect: exit does not reach the table.
Bug_ExitIgnored(e) == UNCHANGED <<table, task, refused, unmoved>>

HandleExit(e) ==
    /\ Drop(e.pid)
    /\ UNCHANGED <<task, refused, unmoved>>

handle_event ==
    /\ ring # <<>>
    /\ ring' = Tail(ring)
    /\ LET e == Head(ring)
       IN  \/ e.type = "EXEC" /\ HandleExec(e)
           \/ e.type = "FORK" /\ HandleFork(e)
           \/ e.type = "EXIT" /\ HandleExit(e)
    /\ UNCHANGED <<ret, events, lost, ought, threaded>>

-----------------------------------------------------------------------------
\* The programs are attached while tasks already run; the daemon does not
\* look for them, its table starts empty.
DaemonInit ==
    /\ Init
    /\ task \in [Pids -> {t \in Task : ~t.protected /\ t.threads = 0}]
    /\ \A p \in Pids : task[p].own => p \in WorkerPids
    /\ ring = <<>> /\ events = 0
    /\ lost = FALSE /\ refused = FALSE /\ unmoved = FALSE
    /\ ought = {} /\ threaded = {}

DaemonNext ==
    \/ \E p, c \in Pids : Fork(p, c)
    \/ \E p \in Pids : StartThread(p) \/ EndThread(p) \/ Exit(p)
    \/ \E p \in Pids, comm \in Comms : Exec(p, comm)
    \/ handle_event

DaemonSpec == DaemonInit /\ [][DaemonNext]_allVars

\* A step that shortens the ring is one of handle_event, which can take any event.
EventTaken == ring # <<>> /\ ring' = Tail(ring)

\* The poll loop of main takes every event the ring buffer holds.
PollFairness == WF_ring(EventTaken)

-----------------------------------------------------------------------------
(* Properties.                                                             *)

\* Types of the composed system.
DaemonTypeOK ==
    /\ TypeOK
    /\ task \in [Pids -> Task]
    /\ ring \in Seq(Event) /\ Len(ring) <= RingMax
    /\ events \in 0..MaxEvents
    /\ lost \in BOOLEAN /\ refused \in BOOLEAN /\ unmoved \in BOOLEAN
    /\ ought \subseteq Pids /\ threaded \subseteq Pids

\* Within the daemon, where events are lost and come late, the ring keeps to
\* its size and the table stays searchable and without duplicates.
DaemonInv == DaemonTypeOK /\ TableInv

\* Once the daemon has taken every event, and if none was dropped or
\* refused, the table marks exactly the live tasks that ought to be
\* protected, whatever pids were reused while events were waiting.
CaughtUpIsExact ==
    ring = <<>> /\ ~lost /\ ~refused =>
        \A p \in Pids \ threaded : process_get(p).is_protected <=> p \in ought

\* A task that ought to be protected is moved to the protected cgroup in the
\* end, unless it exits, an event is lost or refused, the one cgroup write
\* fails, threads interfere, or policy ignores its pid.
ProtectedIsPlaced ==
    \A p \in {q \in Pids : q > 2} :
        p \in ought ~> \/ task[p].protected
                       \/ p \notin ought
                       \/ p \in threaded \/ lost \/ refused \/ unmoved

\* process.c:173-177: exec keeps the protection a task inherited from its
\* parent or got from an earlier exec.  Here: when the daemon takes an exec
\* event and is then up to date, with nothing lost or refused, a task that
\* ought to be protected is marked.
ExecKeepsProtection ==
    [][\A p \in ought :
         /\ ring # <<>> /\ ring' = <<>>
         /\ Head(ring).type = "EXEC" /\ Head(ring).pid = p
         /\ ~lost /\ ~refused'
         => process_get(p)'.is_protected]_allVars
=============================================================================
