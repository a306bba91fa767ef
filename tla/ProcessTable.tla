---------------------------- MODULE ProcessTable ----------------------------
(***************************************************************************)
(* protected-daemon/src/process.c: the daemon's process table.  PROC_MAX   *)
(* slots, open addressing with linear probing, deletion by tombstone.      *)
(*                                                                         *)
(* The C table is static data touched by one thread, so every exported     *)
(* function is one atomic action.  Fields no later call reads back         *)
(* (ppid, uid, exec_seen, exited, exe_path, cmdline) are left out; comm is *)
(* an uninterpreted value.                                                 *)
(***************************************************************************)
EXTENDS Integers, FiniteSets

CONSTANTS
    PROC_MAX,   \* number of slots
    Pids,       \* process ids the kernel hands out
    Comms       \* values of the comm field

ASSUME ProcMaxAssumption == PROC_MAX \in Nat \ {0}
ASSUME PidsAssumption == Pids \subseteq Nat \ {0}

VARIABLES
    proc_table,      \* slot -> struct proc_info
    slot_states,     \* slot -> EMPTY, OCCUPIED or TOMBSTONE
    occupied_count,  \* number of OCCUPIED slots, maintained incrementally
    ret              \* what the last call returned

table == <<proc_table, slot_states, occupied_count>>
vars == <<proc_table, slot_states, occupied_count, ret>>

Slots == 0..PROC_MAX - 1
NoSlot == -1
SlotState == {"EMPTY", "OCCUPIED", "TOMBSTONE"}
Group == {"PROTECTED", "BACKGROUND", "THROTTLED", "IGNORED", "UNKNOWN"}
NoComm == "none"

\* An event's pid may be 0: the idle task forks too.
EventPids == Pids \cup {0}

proc_info ==
    [used : BOOLEAN, pid : EventPids,
     is_protected : BOOLEAN, inherited_protected : BOOLEAN,
     group : Group, comm : Comms \cup {NoComm}]

\* A record after memset(..., 0, ...).  GROUP_PROTECTED is enumerator 0.
Zeroed ==
    [used |-> FALSE, pid |-> 0,
     is_protected |-> FALSE, inherited_protected |-> FALSE,
     group |-> "PROTECTED", comm |-> NoComm]

Returned(op, pid, code, out) == [op |-> op, pid |-> pid, code |-> code, out |-> out]

-----------------------------------------------------------------------------
(* Probing.                                                                *)

process_hash(pid) == pid % PROC_MAX

\* The slot examined by iteration k of either probe loop.
Probe(pid, k) == (process_hash(pid) + k) % PROC_MAX

Holds(pid, i) ==
    /\ slot_states[i] = "OCCUPIED"
    /\ proc_table[i].used
    /\ proc_table[i].pid = pid

\* Iterations whose slot the loop can reach: an EMPTY slot ends the loop.
Visited(pid) ==
    {k \in Slots : \A j \in 0..k - 1 : slot_states[Probe(pid, j)] # "EMPTY"}

Least(S) == CHOOSE k \in S : \A j \in S : k <= j

\* The slot of the first visited iteration in S.
FirstOf(pid, S) == IF S = {} THEN NoSlot ELSE Probe(pid, Least(S))

find_existing_slot(pid) ==
    IF pid <= 0
      THEN NoSlot
      ELSE FirstOf(pid, {k \in Visited(pid) : Holds(pid, Probe(pid, k))})

Tracked(pid) == find_existing_slot(pid) # NoSlot

\* Defect: only an EMPTY slot is taken, tombstones are never reused.
Bug_IgnoreTombstones(pid) ==
    FirstOf(pid, {k \in Visited(pid) : slot_states[Probe(pid, k)] = "EMPTY"})

\* Where find_upsert_slot puts a pid it did not find: the first tombstone
\* of the whole probe chain, or the EMPTY slot that ended it.
insertion_slot(pid) ==
    LET In(state) == {k \in Visited(pid) : slot_states[Probe(pid, k)] = state}
    IN  FirstOf(pid, IF In("TOMBSTONE") # {} THEN In("TOMBSTONE") ELSE In("EMPTY"))

\* Defect: the first reusable slot is taken before the chain is searched.
Bug_ReuseBeforeSearch(pid) ==
    IF pid <= 0 THEN NoSlot
    ELSE IF insertion_slot(pid) # NoSlot THEN insertion_slot(pid) ELSE find_existing_slot(pid)

find_upsert_slot(pid) ==
    IF pid <= 0 THEN NoSlot
    ELSE IF Tracked(pid) THEN find_existing_slot(pid) ELSE insertion_slot(pid)

process_get(pid) == IF Tracked(pid) THEN proc_table[find_existing_slot(pid)] ELSE Zeroed

-----------------------------------------------------------------------------
(* Insertion, shared by exec and fork.                                     *)

CanUpsert(pid) ==
    /\ find_upsert_slot(pid) # NoSlot
    /\ Tracked(pid) \/ occupied_count < PROC_MAX

\* Defect: the count grows even when the pid was found.
Bug_CountRewrites(pid, rec) ==
    LET i == find_upsert_slot(pid)
    IN  /\ proc_table' = [proc_table EXCEPT ![i] = rec]
        /\ slot_states' = [slot_states EXCEPT ![i] = "OCCUPIED"]
        /\ occupied_count' = occupied_count + 1

\* prepare_upsert followed by its caller's memset and field assignments.
Store(pid, rec) ==
    LET i == find_upsert_slot(pid)
    IN  /\ proc_table' = [proc_table EXCEPT ![i] = rec]
        /\ slot_states' = [slot_states EXCEPT ![i] = "OCCUPIED"]
        /\ occupied_count' = IF Tracked(pid) THEN occupied_count ELSE occupied_count + 1

Upsert(pid, rec) == IF CanUpsert(pid) THEN Store(pid, rec) ELSE UNCHANGED table

UpsertCode(pid) == IF CanUpsert(pid) THEN "OK" ELSE "NULL"

\* Defect: exec clears the record without saving its protection first.
Bug_ExecForgets(pid, comm) ==
    [Zeroed EXCEPT !.used = TRUE, !.pid = pid, !.group = "UNKNOWN", !.comm = comm]

\* The record process_upsert_exec leaves behind: protection and group are
\* those of the record found, if one was.
ExecRecord(pid, comm) ==
    [used |-> TRUE, pid |-> pid,
     is_protected |-> process_get(pid).is_protected,
     inherited_protected |-> process_get(pid).inherited_protected,
     group |-> IF Tracked(pid) THEN process_get(pid).group ELSE "UNKNOWN",
     comm |-> comm]

\* The parent pointer is taken before the child's record is cleared.  When
\* both ids are equal the two pointers alias, and the clearing wins.
Inherits(pid, child) == pid # child /\ process_get(pid).used /\ process_get(pid).is_protected

ForkRecord(pid, child, comm) ==
    [used |-> TRUE, pid |-> child,
     is_protected |-> Inherits(pid, child),
     inherited_protected |-> Inherits(pid, child),
     group |-> IF Inherits(pid, child) THEN "PROTECTED" ELSE "UNKNOWN",
     comm |-> comm]

-----------------------------------------------------------------------------
(* The exported operations.                                                *)

process_upsert_exec(pid, comm) ==
    /\ Upsert(pid, ExecRecord(pid, comm))
    /\ ret' = Returned("exec", pid, UpsertCode(pid), {})

process_upsert_fork(pid, child, comm) ==
    \/ /\ pid > 0
       /\ Upsert(child, ForkRecord(pid, child, comm))
       /\ ret' = Returned("fork", child, UpsertCode(child), {})
    \/ /\ pid <= 0
       /\ ret' = Returned("fork", child, "NULL", {})
       /\ UNCHANGED table

\* Defect: a removed slot becomes EMPTY and cuts the chains through it.
Bug_RemoveEmpties(pid) ==
    LET i == find_existing_slot(pid)
    IN  IF Tracked(pid)
          THEN /\ proc_table' = [proc_table EXCEPT ![i] = Zeroed]
               /\ slot_states' = [slot_states EXCEPT ![i] = "EMPTY"]
               /\ occupied_count' = IF occupied_count > 0 THEN occupied_count - 1 ELSE 0
          ELSE UNCHANGED table

\* process_remove without the return value, for use in larger steps.
Drop(pid) ==
    LET i == find_existing_slot(pid)
    IN  IF Tracked(pid)
          THEN /\ proc_table' = [proc_table EXCEPT ![i] = Zeroed]
               /\ slot_states' = [slot_states EXCEPT ![i] = "TOMBSTONE"]
               /\ occupied_count' = IF occupied_count > 0 THEN occupied_count - 1 ELSE 0
          ELSE UNCHANGED table

process_remove(pid) ==
    /\ Drop(pid)
    /\ ret' = Returned("exit", pid, "OK", {})

process_table_reset ==
    /\ proc_table' = [i \in Slots |-> Zeroed]
    /\ slot_states' = [i \in Slots |-> "EMPTY"]
    /\ occupied_count' = 0
    /\ ret' = Returned("reset", 0, "OK", {})

Occupied == {i \in Slots : slot_states[i] = "OCCUPIED"}

\* The checks of process_snapshot's first pass.
SnapshotConsistent ==
    /\ \A i \in Occupied : proc_table[i].used /\ proc_table[i].pid > 0
    /\ \A i \in Slots \ Occupied : ~proc_table[i].used
    /\ Cardinality(Occupied) = occupied_count

process_snapshot(capacity) ==
    /\ ret' = IF ~SnapshotConsistent THEN Returned("snapshot", 0, "INCONSISTENT", {})
              ELSE IF capacity < Cardinality(Occupied) THEN Returned("snapshot", 0, "NO_SPACE", {})
              ELSE Returned("snapshot", 0, "OK", {proc_table[i] : i \in Occupied})
    /\ UNCHANGED table

AsProtected(rec) == [rec EXCEPT !.is_protected = TRUE, !.group = "PROTECTED"]

\* A caller writes through the pointer an upsert or process_get returned,
\* as handle_event does when policy says the process is protected.
MarkProtected(pid) ==
    /\ Tracked(pid)
    /\ proc_table' = [proc_table EXCEPT ![find_existing_slot(pid)] = AsProtected(@)]
    /\ ret' = Returned("protect", pid, "OK", {})
    /\ UNCHANGED <<slot_states, occupied_count>>

-----------------------------------------------------------------------------
TableInit ==
    /\ proc_table = [i \in Slots |-> Zeroed]
    /\ slot_states = [i \in Slots |-> "EMPTY"]
    /\ occupied_count = 0

Init == TableInit /\ ret = Returned("reset", 0, "OK", {})

Next ==
    \/ \E pid \in EventPids, comm \in Comms : process_upsert_exec(pid, comm)
    \/ \E pid, child \in EventPids, comm \in Comms : process_upsert_fork(pid, child, comm)
    \/ \E pid \in Pids : process_remove(pid)
    \/ \E pid \in Pids : MarkProtected(pid)
    \/ process_table_reset
    \/ \E capacity \in 0..PROC_MAX : process_snapshot(capacity)

Spec == Init /\ [][Next]_vars

-----------------------------------------------------------------------------
(* Properties.                                                             *)

TableTypeOK ==
    /\ proc_table \in [Slots -> proc_info]
    /\ slot_states \in [Slots -> SlotState]
    /\ occupied_count \in Nat

\* Every variable keeps its type.
TypeOK == TableTypeOK /\ ret.out \subseteq proc_info

\* Whatever insertions and deletions came before, lookup reaches every
\* stored record: no EMPTY slot lies on the probe path from a pid's home
\* slot to the slot that holds it (the reason deletion leaves a TOMBSTONE).
ProbeChainIntact ==
    \A i \in Occupied :
        \E k \in Visited(proc_table[i].pid) : Probe(proc_table[i].pid, k) = i

\* A pid is never stored twice, though insertion may reuse a tombstone that
\* precedes the pid's old slot on the probe path.
NoDuplicatePid ==
    \A i, j \in Occupied : proc_table[i].pid = proc_table[j].pid => i = j

\* The incremental count, the used flags and the slot states agree, so
\* process_snapshot never returns PROCESS_ERR_INCONSISTENT.
SlotsAgree == SnapshotConsistent

\* The invariant that every operation on the slots preserves.
TableInv == TableTypeOK /\ ProbeChainIntact /\ NoDuplicatePid /\ SlotsAgree

\* A tracked process that is protected can lose that mark only by exiting,
\* by a reset, or because a fork event names its own pid as the child.  In
\* particular no exec, and no insertion of another pid, drops it.
ProtectionLostOnlyByOwnEvent ==
    [][\A pid \in Pids :
         process_get(pid).is_protected /\ ~process_get(pid)'.is_protected =>
             \/ ret'.op = "reset"
             \/ ret'.op \in {"exit", "fork"} /\ ret'.pid = pid]_vars

\* The slots seen as a map from pid to record.
Abstract == [pid \in {proc_table[i].pid : i \in Occupied} |->
               proc_table[CHOOSE i \in Occupied : proc_table[i].pid = pid]]

\* The table implements the bounded map of ProcessMap: every lookup, every
\* insertion (refused only when PROC_MAX pids are stored), every deletion
\* and every snapshot behaves as if there were no slots.
Map == INSTANCE ProcessMap WITH Capacity <- PROC_MAX, entries <- Abstract
ImplementsMap == Map!Spec
=============================================================================
