----------------------------- MODULE ProcessMap -----------------------------
(***************************************************************************)
(* What process.c promises its caller: a bounded map from pid to process   *)
(* record.  No slot, probe or tombstone is visible here; ProcessTable is   *)
(* shown to implement this module.                                         *)
(*                                                                         *)
(* Capacity is PROC_MAX of process.h.  An insertion of a new pid fails     *)
(* exactly when Capacity pids are stored, however many deletions came      *)
(* before it.                                                              *)
(***************************************************************************)
EXTENDS Integers, FiniteSets

CONSTANTS
    Capacity,   \* PROC_MAX
    Pids,       \* process ids the kernel hands out
    Comms       \* values of the comm field

VARIABLES
    entries,    \* the map: pid -> record
    ret         \* what the last call returned

vars == <<entries, ret>>

-----------------------------------------------------------------------------
Tracked == DOMAIN entries

IsProtected(pid) == pid \in Tracked /\ entries[pid].is_protected

\* The map with pid bound to rec.
With(pid, rec) == [p \in Tracked \cup {pid} |-> IF p = pid THEN rec ELSE entries[p]]

\* The map without pid.
Without(pid) == [p \in Tracked \ {pid} |-> entries[p]]

Returned(op, pid, code, out) == [op |-> op, pid |-> pid, code |-> code, out |-> out]

\* Insert or overwrite; refused only for a new pid in a full map.
Bind(op, pid, rec) ==
    IF pid > 0 /\ (pid \in Tracked \/ Cardinality(Tracked) < Capacity)
      THEN /\ entries' = With(pid, rec)
           /\ ret' = Returned(op, pid, "OK", {})
      ELSE /\ ret' = Returned(op, pid, "NULL", {})
           /\ UNCHANGED entries

-----------------------------------------------------------------------------
Init ==
    /\ entries = [p \in {} |-> p]
    /\ ret = Returned("reset", 0, "OK", {})

\* An exec refreshes the record and keeps the protection the pid already had.
Exec(pid, comm) ==
    Bind("exec", pid,
         [used |-> TRUE, pid |-> pid,
          is_protected |-> IsProtected(pid),
          inherited_protected |-> pid \in Tracked /\ entries[pid].inherited_protected,
          group |-> IF pid \in Tracked THEN entries[pid].group ELSE "UNKNOWN",
          comm |-> comm])

\* A fork binds the child to a fresh record that inherits the parent's
\* protection, unless parent and child are the same pid.
Fork(pid, child, comm) ==
    LET inherits == pid # child /\ IsProtected(pid)
    IN  IF pid <= 0
          THEN ret' = Returned("fork", child, "NULL", {}) /\ UNCHANGED entries
          ELSE Bind("fork", child,
                    [used |-> TRUE, pid |-> child,
                     is_protected |-> inherits, inherited_protected |-> inherits,
                     group |-> IF inherits THEN "PROTECTED" ELSE "UNKNOWN",
                     comm |-> comm])

Exit(pid) ==
    /\ entries' = Without(pid)
    /\ ret' = Returned("exit", pid, "OK", {})

Reset ==
    /\ entries' = [p \in {} |-> p]
    /\ ret' = Returned("reset", 0, "OK", {})

\* The caller marks a record it was given as protected.
Protect(pid) ==
    /\ pid \in Tracked
    /\ entries' = [entries EXCEPT ![pid].is_protected = TRUE,
                                  ![pid].group = "PROTECTED"]
    /\ ret' = Returned("protect", pid, "OK", {})

\* A snapshot is the whole map or nothing.
Snapshot(capacity) ==
    /\ ret' = IF Cardinality(Tracked) <= capacity
                THEN Returned("snapshot", 0, "OK", {entries[p] : p \in Tracked})
                ELSE Returned("snapshot", 0, "NO_SPACE", {})
    /\ UNCHANGED entries

Next ==
    \/ \E pid \in Pids \cup {0}, comm \in Comms : Exec(pid, comm)
    \/ \E pid, child \in Pids \cup {0}, comm \in Comms : Fork(pid, child, comm)
    \/ \E pid \in Pids : Exit(pid) \/ Protect(pid)
    \/ Reset
    \/ \E capacity \in 0..Capacity : Snapshot(capacity)

Spec == Init /\ [][Next]_vars
=============================================================================
