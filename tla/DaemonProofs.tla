--------------------------- MODULE DaemonProofs ---------------------------
(***************************************************************************)
(* TLAPS proofs about the process table and the daemon's event path, for   *)
(* every number of tasks, slots and ring entries.                          *)
(*                                                                         *)
(* The table's inductive invariant is TableInv: types, intact probe        *)
(* chains, no duplicate pid, and slot states, used flags and count in      *)
(* agreement.  None of the last three is inductive alone: an insertion     *)
(* avoids a duplicate only because every stored pid is reachable.          *)
(*                                                                         *)
(* The daemon works from events that describe the past, so that the table  *)
(* is exact once it has caught up is not inductive as it stands: Backlog   *)
(* says that the waiting events lead, one by one, from what the table says *)
(* now to what the kernel's tasks ought to be.                             *)
(***************************************************************************)
EXTENDS CandidateFilter, FiniteSetTheorems, WellFoundedInduction, TLAPS

-----------------------------------------------------------------------------
(* Arithmetic of probing.                                                  *)

\* A nonempty set of naturals has a least element, so a probe loop that can
\* stop has a first iteration at which it stops.
LEMMA LeastExists ==
  ASSUME NEW S \in SUBSET Nat, S # {}
  PROVE  \E x \in S : \A y \in S : x <= y
<1>1. IsWellFoundedOn(OpToRel(<, Nat), Nat)
  BY NatLessThanWellFounded
<1>2. \A x, y \in Nat : y < x => <<y, x>> \in OpToRel(<, Nat)
  BY Zenon DEF OpToRel
<1>3. \E R : IsWellFoundedOn(R, Nat) /\ \A x, y \in Nat : y < x => <<y, x>> \in R
  BY <1>1, <1>2, Zenon
<1>4. PICK R : IsWellFoundedOn(R, Nat) /\ \A x, y \in Nat : y < x => <<y, x>> \in R
  BY <1>3
<1>5. PICK x \in S : \A y \in S : ~(<<y, x>> \in R)
  BY <1>4, WFMin
<1>6. \A y \in S : ~(y < x)
  BY <1>4, <1>5
<1> QED BY <1>6

\* Least picks that element.
LEMMA LeastSpec ==
  ASSUME NEW S \in SUBSET Nat, S # {}
  PROVE  Least(S) \in S /\ \A y \in S : Least(S) <= y
BY LeastExists DEF Least

\* Every probe of a nonnegative pid lands in the table.
LEMMA ProbeInSlots ==
  \A pid \in Nat, k \in Nat : Probe(pid, k) \in Slots
BY ProcMaxAssumption DEF Probe, process_hash, Slots

\* PROC_MAX consecutive probes examine every slot of the table.
LEMMA ProbeCovers ==
  ASSUME NEW pid \in Nat, NEW i \in Slots
  PROVE  \E k \in Slots : Probe(pid, k) = i
<1> DEFINE h == pid % PROC_MAX
<1>1. h \in Slots
  BY ProcMaxAssumption DEF Slots
<1>2. \A a \in 0..PROC_MAX - 1 : a % PROC_MAX = a
  BY ProcMaxAssumption
<1>3. \A a \in PROC_MAX..2 * PROC_MAX - 1 : a % PROC_MAX = a - PROC_MAX
  BY ProcMaxAssumption
<1>4. CASE i >= h
  <2>1. i - h \in Slots /\ h + (i - h) = i
    BY <1>1, <1>4, ProcMaxAssumption DEF Slots
  <2>2. Probe(pid, i - h) = i
    BY <2>1, <1>2 DEF Probe, process_hash, Slots
  <2> QED BY <2>1, <2>2
<1>5. CASE i < h
  <2>1. i - h + PROC_MAX \in Slots /\ h + (i - h + PROC_MAX) = i + PROC_MAX
    BY <1>1, <1>5, ProcMaxAssumption DEF Slots
  <2>2. (i + PROC_MAX) % PROC_MAX = i
    BY <1>3, ProcMaxAssumption DEF Slots
  <2>3. Probe(pid, i - h + PROC_MAX) = i
    BY <2>1, <2>2 DEF Probe, process_hash
  <2> QED BY <2>1, <2>3
<1> QED BY <1>1, <1>4, <1>5, ProcMaxAssumption DEF Slots

\* A set of loop iterations is a set of naturals; the first of them names a
\* slot of the table, and NoSlot is returned only for the empty set.
LEMMA FirstOfSpec ==
  ASSUME NEW pid \in Nat, NEW S \in SUBSET Slots
  PROVE  /\ S = {} => FirstOf(pid, S) = NoSlot
         /\ S # {} => /\ FirstOf(pid, S) \in Slots
                      /\ FirstOf(pid, S) # NoSlot
                      /\ \E k \in S : FirstOf(pid, S) = Probe(pid, k)
<1>1. S \in SUBSET Nat
  BY DEF Slots
<1>2. S # {} => Least(S) \in S
  BY <1>1, LeastSpec
<1>3. S # {} => FirstOf(pid, S) = Probe(pid, Least(S)) /\ Probe(pid, Least(S)) \in Slots
  BY <1>1, <1>2, ProbeInSlots DEF FirstOf
<1>4. NoSlot \notin Slots
  BY ProcMaxAssumption DEF NoSlot, Slots
<1>5. S = {} => FirstOf(pid, S) = NoSlot
  BY DEF FirstOf
<1> QED BY <1>2, <1>3, <1>4, <1>5

-----------------------------------------------------------------------------
(* What the two probe loops return.                                        *)

\* Process ids are natural numbers.
LEMMA EventPidsNat == EventPids \subseteq Nat
BY PidsAssumption DEF EventPids

\* A slot find_existing_slot returns holds the pid it was asked for.
LEMMA FoundHolds ==
  ASSUME NEW pid \in EventPids, Tracked(pid)
  PROVE  find_existing_slot(pid) \in Slots /\ Holds(pid, find_existing_slot(pid)) /\ pid > 0
<1> DEFINE S == {k \in Visited(pid) : Holds(pid, Probe(pid, k))}
<1>1. pid \in Nat /\ S \in SUBSET Slots
  BY EventPidsNat DEF Visited
<1>2. pid > 0 /\ find_existing_slot(pid) = FirstOf(pid, S)
  BY <1>1 DEF Tracked, find_existing_slot
<1>3. S # {}
  BY <1>1, <1>2, FirstOfSpec DEF Tracked
<1> HIDE DEF S
<1>4. find_existing_slot(pid) \in Slots /\ \E k \in S : find_existing_slot(pid) = Probe(pid, k)
  BY <1>1, <1>2, <1>3, FirstOfSpec
<1>5. \A k \in S : Holds(pid, Probe(pid, k))
  BY DEF S
<1> QED BY <1>2, <1>4, <1>5

\* Lookup is complete: while the probe chains are intact it finds every
\* stored pid, and only the one slot that holds it.
LEMMA StoredIsFound ==
  ASSUME TableInv, NEW i \in Occupied
  PROVE  Tracked(proc_table[i].pid) /\ find_existing_slot(proc_table[i].pid) = i
<1> DEFINE pid == proc_table[i].pid
           S == {k \in Visited(pid) : Holds(pid, Probe(pid, k))}
<1>1. i \in Slots /\ slot_states[i] = "OCCUPIED"
  BY DEF Occupied
<1>2. pid \in EventPids /\ pid > 0 /\ proc_table[i].used
  BY <1>1 DEF TableInv, TableTypeOK, proc_info, SlotsAgree, SnapshotConsistent
<1>3. Holds(pid, i)
  BY <1>1, <1>2 DEF Holds
<1>4. PICK k \in Visited(pid) : Probe(pid, k) = i
  BY DEF TableInv, ProbeChainIntact
<1>5. pid \in Nat /\ S \in SUBSET Slots /\ k \in S
  BY <1>2, <1>3, <1>4, EventPidsNat DEF Visited
<1>6. find_existing_slot(pid) = FirstOf(pid, S)
  BY <1>2, <1>5 DEF find_existing_slot
<1> HIDE DEF S
<1>7. find_existing_slot(pid) # NoSlot
  BY <1>5, <1>6, FirstOfSpec
<1>8. Tracked(pid)
  BY <1>7 DEF Tracked
<1>9. Holds(pid, find_existing_slot(pid)) /\ find_existing_slot(pid) \in Slots
  BY <1>2, <1>8, FoundHolds
<1>10. find_existing_slot(pid) \in Occupied /\ proc_table[find_existing_slot(pid)].pid = pid
  BY <1>9 DEF Holds, Occupied
<1> QED BY <1>8, <1>10 DEF TableInv, NoDuplicatePid

\* A slot chosen for a new pid is free and on the pid's intact probe path.
LEMMA InsertionSlot ==
  ASSUME TableTypeOK, NEW pid \in EventPids, insertion_slot(pid) # NoSlot
  PROVE  /\ insertion_slot(pid) \in Slots \ Occupied
         /\ \E k \in Visited(pid) : Probe(pid, k) = insertion_slot(pid)
<1> DEFINE In(state) == {k \in Visited(pid) : slot_states[Probe(pid, k)] = state}
           S == IF In("TOMBSTONE") # {} THEN In("TOMBSTONE") ELSE In("EMPTY")
<1>1. pid \in Nat /\ S \in SUBSET Slots
  BY EventPidsNat DEF Visited
<1>2. insertion_slot(pid) = FirstOf(pid, S)
  BY DEF insertion_slot
<1>3. \A k \in S : k \in Visited(pid) /\ slot_states[Probe(pid, k)] # "OCCUPIED"
  OBVIOUS
<1> HIDE DEF S
<1>4. S # {}
  BY <1>1, <1>2, FirstOfSpec
<1>5. insertion_slot(pid) \in Slots /\ \E k \in S : insertion_slot(pid) = Probe(pid, k)
  BY <1>1, <1>2, <1>4, FirstOfSpec
<1> QED BY <1>3, <1>5 DEF Occupied

\* The table refuses a new pid only when no slot is EMPTY or TOMBSTONE.
LEMMA RefusedOnlyWhenFull ==
  ASSUME TableTypeOK, NEW pid \in EventPids, insertion_slot(pid) = NoSlot
  PROVE  Occupied = Slots
<1> DEFINE In(state) == {k \in Visited(pid) : slot_states[Probe(pid, k)] = state}
           S == IF In("TOMBSTONE") # {} THEN In("TOMBSTONE") ELSE In("EMPTY")
           E == {k \in Slots : slot_states[Probe(pid, k)] = "EMPTY"}
<1>1. pid \in Nat /\ S \in SUBSET Slots
  BY EventPidsNat DEF Visited
<1>2. insertion_slot(pid) = FirstOf(pid, S)
  BY DEF insertion_slot
<1>3. S = {}
  <2> HIDE DEF S
  <2> QED BY <1>1, <1>2, FirstOfSpec
<1>4. In("TOMBSTONE") = {} /\ In("EMPTY") = {}
  BY <1>3
<1>5. E = {}
  <2> SUFFICES ASSUME E # {} PROVE FALSE
    OBVIOUS
  <2>1. E \in SUBSET Nat
    BY DEF Slots
  <2>2. Least(E) \in E /\ \A j \in E : Least(E) <= j
    BY <2>1, LeastSpec
  <2>3. Least(E) \in Slots /\ slot_states[Probe(pid, Least(E))] = "EMPTY"
    BY <2>2
  <2>4. ASSUME NEW j \in 0..Least(E) - 1
        PROVE  slot_states[Probe(pid, j)] # "EMPTY"
    <3>1. j \in Slots /\ ~(Least(E) <= j)
      BY <2>3, ProcMaxAssumption DEF Slots
    <3> QED BY <2>2, <3>1
  <2>5. Least(E) \in Visited(pid)
    BY <2>3, <2>4 DEF Visited
  <2> QED BY <1>4, <2>3, <2>5
<1>6. ASSUME NEW i \in Slots
      PROVE  slot_states[i] = "OCCUPIED"
  <2>1. PICK k \in Slots : Probe(pid, k) = i
    BY <1>1, ProbeCovers
  <2>2. \A j \in 0..k - 1 : slot_states[Probe(pid, j)] # "EMPTY"
    BY <1>5, ProcMaxAssumption DEF Slots
  <2>3. k \in Visited(pid)
    BY <2>2 DEF Visited
  <2>4. slot_states[i] \in SlotState
    BY DEF TableTypeOK
  <2> QED BY <1>4, <2>1, <2>3, <2>4 DEF SlotState
<1> QED BY <1>6 DEF Occupied

-----------------------------------------------------------------------------
(* The operations on the slots preserve TableInv.                          *)

\* Slot i is on the probe path of pid and no EMPTY slot precedes it, when
\* the slot states are st.
Reaches(st, pid, i) ==
  \E k \in Slots : Probe(pid, k) = i /\ \A j \in 0..k - 1 : st[Probe(pid, j)] # "EMPTY"

\* ProbeChainIntact in terms of Reaches, before and after a step.
LEMMA ChainIsReach ==
  /\ ProbeChainIntact <=> \A i \in Occupied : Reaches(slot_states, proc_table[i].pid, i)
  /\ ProbeChainIntact' <=> \A i \in Occupied' : Reaches(slot_states', proc_table'[i].pid, i)
<1>1. ProbeChainIntact <=> \A i \in Occupied : Reaches(slot_states, proc_table[i].pid, i)
  BY Zenon DEF ProbeChainIntact, Visited, Reaches
<1>2. ProbeChainIntact' <=> \A i \in Occupied' : Reaches(slot_states', proc_table'[i].pid, i)
  BY Zenon DEF ProbeChainIntact, Visited, Reaches, Probe, process_hash, Slots
<1> QED BY <1>1, <1>2

\* No operation but a reset makes a slot EMPTY, so a probe path never gets
\* shorter: what a lookup could reach before, it can reach after.
LEMMA ReachesGrows ==
  ASSUME NEW pid \in EventPids, NEW i \in Slots, NEW st, NEW ts,
         \A j \in Slots : st[j] # "EMPTY" => ts[j] # "EMPTY",
         Reaches(st, pid, i)
  PROVE  Reaches(ts, pid, i)
<1>1. PICK k \in Slots : Probe(pid, k) = i /\ \A j \in 0..k - 1 : st[Probe(pid, j)] # "EMPTY"
  BY DEF Reaches
<1>2. pid \in Nat /\ \A j \in 0..k - 1 : j \in Nat
  BY EventPidsNat, <1>1 DEF Slots
<1>3. \A j \in 0..k - 1 : Probe(pid, j) \in Slots
  BY <1>2, ProbeInSlots
<1> QED BY <1>1, <1>3 DEF Reaches

\* There are finitely many slots.
LEMMA OccupiedFinite == Occupied \subseteq Slots /\ IsFiniteSet(Slots) /\ IsFiniteSet(Occupied)
<1>1. IsFiniteSet(Slots)
  BY FS_Interval, ProcMaxAssumption DEF Slots
<1> QED BY <1>1, FS_Subset DEF Occupied

\* Insertion (or the rewriting of a stored pid's record) preserves it.
LEMMA StorePreservesInv ==
  ASSUME TableInv, NEW pid \in EventPids, NEW rec \in proc_info,
         rec.used, rec.pid = pid, CanUpsert(pid), Store(pid, rec)
  PROVE  TableInv'
<1> DEFINE i == find_upsert_slot(pid)
<1>1. pid > 0 /\ i = IF Tracked(pid) THEN find_existing_slot(pid) ELSE insertion_slot(pid)
  BY EventPidsNat DEF CanUpsert, find_upsert_slot
<1>2. /\ proc_table' = [proc_table EXCEPT ![i] = rec]
      /\ slot_states' = [slot_states EXCEPT ![i] = "OCCUPIED"]
      /\ occupied_count' = IF Tracked(pid) THEN occupied_count ELSE occupied_count + 1
  BY DEF Store
<1>3. TableTypeOK
  BY DEF TableInv
<1>4. CASE Tracked(pid)
  <2>1. i \in Slots /\ i \in Occupied /\ proc_table[i].pid = pid
    BY <1>1, <1>4, FoundHolds DEF Holds, Occupied
  <2>2. slot_states' = slot_states /\ occupied_count' = occupied_count
    BY <1>2, <1>3, <1>4, <2>1 DEF TableTypeOK, Occupied
  <2>3. \A j \in Slots : proc_table'[j].pid = proc_table[j].pid /\ proc_table'[j].used = (proc_table[j].used \/ j = i)
    BY <1>2, <1>3, <2>1 DEF TableTypeOK, proc_info
  <2>4. Occupied' = Occupied
    BY <2>2 DEF Occupied, Slots
  <2>5. TableTypeOK'
    BY <1>2, <1>3, <2>1, <2>2 DEF TableTypeOK, Slots
  <2>6. ProbeChainIntact'
    <3>1. \A j \in Occupied : Reaches(slot_states, proc_table[j].pid, j)
      BY ChainIsReach DEF TableInv
    <3>2. \A j \in Occupied' : Reaches(slot_states', proc_table'[j].pid, j)
      BY <2>2, <2>3, <2>4, <3>1 DEF Occupied
    <3> QED BY <3>2, ChainIsReach
  <2>7. NoDuplicatePid'
    BY <2>3, <2>4 DEF TableInv, NoDuplicatePid, Occupied
  <2>8. SlotsAgree'
    BY <2>1, <2>2, <2>3, <2>4 DEF TableInv, SlotsAgree, SnapshotConsistent, Occupied, Slots
  <2> QED BY <2>5, <2>6, <2>7, <2>8 DEF TableInv
<1>5. CASE ~Tracked(pid)
  <2>1. i # NoSlot /\ i = insertion_slot(pid)
    BY <1>1, <1>5 DEF CanUpsert
  <2>2. i \in Slots \ Occupied
    BY <1>3, <2>1, InsertionSlot
  <2>3. PICK ki \in Visited(pid) : Probe(pid, ki) = i
    BY <1>3, <2>1, InsertionSlot
  <2>4. Occupied' = Occupied \cup {i}
    BY <1>2, <1>3, <2>2 DEF Occupied, TableTypeOK, Slots
  <2>5. \A j \in Occupied : proc_table'[j] = proc_table[j] /\ proc_table[j].pid # pid
    <3> SUFFICES ASSUME NEW j \in Occupied
                 PROVE  proc_table'[j] = proc_table[j] /\ proc_table[j].pid # pid
      OBVIOUS
    <3>1. proc_table[j].pid # pid
      BY <1>5, StoredIsFound
    <3>2. j # i /\ j \in Slots
      BY <2>2 DEF Occupied
    <3> QED BY <1>2, <1>3, <3>1, <3>2 DEF TableTypeOK
  <2>6. proc_table'[i] = rec
    BY <1>2, <1>3, <2>2 DEF TableTypeOK
  <2>7. TableTypeOK'
    BY <1>2, <1>3, <1>5, <2>2 DEF TableTypeOK, Slots, SlotState
  <2>8. \A j \in Slots : slot_states[j] # "EMPTY" => slot_states'[j] # "EMPTY"
    BY <1>2, <1>3, <2>2 DEF TableTypeOK
  <2>9. ProbeChainIntact'
    <3>1. ASSUME NEW j \in Occupied
          PROVE  Reaches(slot_states', proc_table'[j].pid, j)
      <4>1. proc_table[j].pid \in EventPids /\ j \in Slots
        BY <1>3 DEF TableTypeOK, proc_info, Occupied
      <4>2. Reaches(slot_states, proc_table[j].pid, j)
        BY ChainIsReach DEF TableInv
      <4>3. Reaches(slot_states', proc_table[j].pid, j)
        BY <2>8, <4>1, <4>2, ReachesGrows
      <4> QED BY <2>5, <4>3
    <3>2. Reaches(slot_states', proc_table'[i].pid, i)
      <4>1. Reaches(slot_states, pid, i)
        BY <2>3 DEF Visited, Reaches
      <4>2. Reaches(slot_states', pid, i)
        BY <2>2, <2>8, <4>1, ReachesGrows
      <4> QED BY <2>6, <4>2
    <3> QED BY <2>4, <3>1, <3>2, ChainIsReach
  <2>10. NoDuplicatePid'
    BY <2>4, <2>5, <2>6 DEF TableInv, NoDuplicatePid
  <2>11. SlotsAgree'
    <3>1. Cardinality(Occupied') = Cardinality(Occupied) + 1
      BY <2>2, <2>4, OccupiedFinite, FS_AddElement
    <3>2. \A j \in Slots \ Occupied' : proc_table'[j] = proc_table[j] /\ j \notin Occupied
      BY <1>2, <1>3, <2>4 DEF TableTypeOK
    <3>3. Slots' = Slots
      BY DEF Slots
    <3>4. Cardinality(Occupied') = occupied_count'
      BY <1>2, <1>5, <3>1 DEF TableInv, SlotsAgree, SnapshotConsistent
    <3>5. \A j \in Occupied' : proc_table'[j].used /\ proc_table'[j].pid > 0
      BY <1>1, <2>4, <2>5, <2>6 DEF TableInv, SlotsAgree, SnapshotConsistent
    <3>6. \A j \in Slots \ Occupied' : ~proc_table'[j].used
      BY <3>2 DEF TableInv, SlotsAgree, SnapshotConsistent
    <3> QED BY <3>3, <3>4, <3>5, <3>6 DEF SlotsAgree, SnapshotConsistent
  <2> QED BY <2>7, <2>9, <2>10, <2>11 DEF TableInv
<1> QED BY <1>4, <1>5

\* Deletion preserves it: the slot becomes a TOMBSTONE, never EMPTY.
LEMMA DropPreservesInv ==
  ASSUME TableInv, NEW pid \in EventPids, Drop(pid)
  PROVE  TableInv'
<1> DEFINE i == find_existing_slot(pid)
<1>1. TableTypeOK
  BY DEF TableInv
<1>2. CASE ~Tracked(pid)
  <2>1. UNCHANGED table
    BY <1>2 DEF Drop
  <2> QED BY <2>1 DEF table, TableInv, TableTypeOK, ProbeChainIntact, NoDuplicatePid, SlotsAgree,
             SnapshotConsistent, Occupied, Visited, Slots, Probe, process_hash
<1>3. CASE Tracked(pid)
  <2>1. /\ proc_table' = [proc_table EXCEPT ![i] = Zeroed]
        /\ slot_states' = [slot_states EXCEPT ![i] = "TOMBSTONE"]
        /\ occupied_count' = IF occupied_count > 0 THEN occupied_count - 1 ELSE 0
    BY <1>3 DEF Drop
  <2>2. i \in Occupied /\ i \in Slots
    BY <1>3, FoundHolds DEF Holds, Occupied
  <2>3. Occupied' = Occupied \ {i}
    BY <1>1, <2>1, <2>2 DEF TableTypeOK, Occupied, Slots
  <2>4. \A j \in Slots \ {i} : proc_table'[j] = proc_table[j]
    BY <1>1, <2>1 DEF TableTypeOK
  <2>5. Zeroed \in proc_info
    BY DEF Zeroed, proc_info, EventPids, Group
  <2>6. TableTypeOK'
    BY <1>1, <2>1, <2>2, <2>5 DEF TableTypeOK, Slots, SlotState
  <2>7. ProbeChainIntact'
    <3>1. \A j \in Slots : slot_states[j] # "EMPTY" => slot_states'[j] # "EMPTY"
      BY <1>1, <2>1 DEF TableTypeOK
    <3>2. ASSUME NEW j \in Occupied'
          PROVE  Reaches(slot_states', proc_table'[j].pid, j)
      <4>1. j \in Occupied /\ j \in Slots /\ proc_table'[j] = proc_table[j]
        BY <2>3, <2>4 DEF Occupied
      <4>2. proc_table[j].pid \in EventPids
        BY <1>1, <4>1 DEF TableTypeOK, proc_info
      <4>3. Reaches(slot_states, proc_table[j].pid, j)
        BY <4>1, ChainIsReach DEF TableInv
      <4>4. Reaches(slot_states', proc_table[j].pid, j)
        BY <3>1, <4>1, <4>2, <4>3, ReachesGrows
      <4> QED BY <4>1, <4>4
    <3> QED BY <3>2, ChainIsReach
  <2>8. NoDuplicatePid'
    BY <2>3, <2>4 DEF TableInv, NoDuplicatePid, Occupied
  <2>9. SlotsAgree'
    <3>1. Cardinality(Occupied') = Cardinality(Occupied) - 1 /\ Cardinality(Occupied) > 0
      <4>1. Cardinality(Occupied') = Cardinality(Occupied) - 1
        BY <2>2, <2>3, OccupiedFinite, FS_RemoveElement
      <4>2. Cardinality(Occupied) \in Nat /\ Cardinality(Occupied) # 0
        BY <2>2, OccupiedFinite, FS_CardinalityType, FS_EmptySet
      <4> QED BY <4>1, <4>2
    <3>2. Cardinality(Occupied') = occupied_count'
      BY <2>1, <3>1 DEF TableInv, SlotsAgree, SnapshotConsistent
    <3>3. \A j \in Occupied' : proc_table'[j].used /\ proc_table'[j].pid > 0
      BY <2>3, <2>4 DEF TableInv, SlotsAgree, SnapshotConsistent, Occupied
    <3>4. proc_table'[i] = Zeroed
      BY <1>1, <2>1, <2>2 DEF TableTypeOK
    <3>5. \A j \in Slots \ Occupied' : ~proc_table'[j].used
      BY <2>3, <2>4, <3>4 DEF TableInv, SlotsAgree, SnapshotConsistent, Zeroed
    <3>6. Slots' = Slots
      BY DEF Slots
    <3> QED BY <3>2, <3>3, <3>5, <3>6 DEF SlotsAgree, SnapshotConsistent
  <2> QED BY <2>6, <2>7, <2>8, <2>9 DEF TableInv
<1> QED BY <1>2, <1>3

\* Rewriting fields other than used and pid of one record preserves it.
LEMMA RewritePreservesInv ==
  ASSUME TableInv, proc_table' \in [Slots -> proc_info],
         \A j \in Slots : proc_table'[j].pid = proc_table[j].pid /\ proc_table'[j].used = proc_table[j].used,
         UNCHANGED <<slot_states, occupied_count>>
  PROVE  TableInv'
<1>1. Occupied' = Occupied /\ Slots' = Slots /\ Occupied \subseteq Slots
  BY DEF Occupied, Slots
<1>2. TableTypeOK'
  BY DEF TableInv, TableTypeOK, Slots
<1>3. ProbeChainIntact'
  <2>1. \A j \in Occupied : Reaches(slot_states, proc_table[j].pid, j)
    BY ChainIsReach DEF TableInv
  <2>2. \A j \in Occupied' : Reaches(slot_states', proc_table'[j].pid, j)
    BY <1>1, <2>1
  <2> QED BY <2>2, ChainIsReach
<1>4. NoDuplicatePid'
  BY <1>1 DEF TableInv, NoDuplicatePid
<1>5. SlotsAgree'
  BY <1>1 DEF TableInv, SlotsAgree, SnapshotConsistent
<1> QED BY <1>2, <1>3, <1>4, <1>5 DEF TableInv

\* An empty table satisfies it.
LEMMA InitInv == TableInit => TableInv
<1> SUFFICES ASSUME TableInit PROVE TableInv
  OBVIOUS
<1>1. Occupied = {}
  BY DEF TableInit, Occupied
<1>2. TableTypeOK
  BY DEF TableInit, TableTypeOK, Zeroed, proc_info, EventPids, Group, SlotState
<1>3. SlotsAgree
  BY <1>1, FS_EmptySet DEF TableInit, SlotsAgree, SnapshotConsistent, Zeroed
<1> QED BY <1>1, <1>2, <1>3 DEF TableInv, ProbeChainIntact, NoDuplicatePid

-----------------------------------------------------------------------------
(* Every step of the table, and the theorems.                              *)

\* A lookup yields a record, the zeroed one when nothing is found.
LEMMA GetType ==
  ASSUME TableInv, NEW pid \in EventPids
  PROVE  process_get(pid) \in proc_info
<1>1. CASE Tracked(pid)
  BY <1>1, FoundHolds DEF process_get, TableInv, TableTypeOK
<1>2. CASE ~Tracked(pid)
  BY <1>2 DEF process_get, Zeroed, proc_info, EventPids, Group
<1> QED BY <1>1, <1>2

\* The records exec and fork write are well formed.
LEMMA RecordTypes ==
  ASSUME TableInv, NEW pid \in EventPids, NEW child \in EventPids,
         NEW comm \in Comms \cup {NoComm}
  PROVE  /\ ExecRecord(pid, comm) \in proc_info
         /\ ExecRecord(pid, comm).used /\ ExecRecord(pid, comm).pid = pid
         /\ ForkRecord(pid, child, comm) \in proc_info
         /\ ForkRecord(pid, child, comm).used /\ ForkRecord(pid, child, comm).pid = child
<1>1. process_get(pid) \in proc_info
  BY GetType
<1>2. Inherits(pid, child) \in BOOLEAN
  BY DEF Inherits
<1>3. ExecRecord(pid, comm) \in proc_info
  BY <1>1 DEF ExecRecord, proc_info, Group
<1>4. ForkRecord(pid, child, comm) \in proc_info
  BY <1>2 DEF ForkRecord, proc_info, Group
<1> QED BY <1>3, <1>4 DEF ExecRecord, ForkRecord

\* An upsert, granted or refused, preserves the invariant.
LEMMA UpsertPreservesInv ==
  ASSUME TableInv, NEW pid \in EventPids, NEW rec \in proc_info,
         rec.used, rec.pid = pid, Upsert(pid, rec)
  PROVE  TableInv'
<1>1. CASE CanUpsert(pid)
  BY <1>1, StorePreservesInv DEF Upsert
<1>2. CASE ~CanUpsert(pid)
  BY <1>2, RewritePreservesInv DEF Upsert, table, TableInv, TableTypeOK
<1> QED BY <1>1, <1>2

\* Marking a record as protected changes neither its pid nor its use.
LEMMA AsProtectedType ==
  \A rec \in proc_info : /\ AsProtected(rec) \in proc_info
                         /\ AsProtected(rec).pid = rec.pid
                         /\ AsProtected(rec).used = rec.used
BY DEF AsProtected, proc_info, Group

\* Every action of Next preserves the invariant and returns well-typed data.
LEMMA NextPreservesInv ==
  ASSUME TableInv, ret.out \subseteq proc_info, [Next]_vars
  PROVE  TableInv' /\ (ret.out \subseteq proc_info)'
<1> DEFINE Keeps == TableInv' /\ ret'.out \subseteq proc_info
<1>0. ASSUME UNCHANGED table PROVE TableInv'
  BY <1>0, RewritePreservesInv DEF table, TableInv, TableTypeOK
<1>1. ASSUME NEW pid \in EventPids, NEW comm \in Comms, process_upsert_exec(pid, comm)
      PROVE  Keeps
  <2>1. Upsert(pid, ExecRecord(pid, comm)) /\ ret'.out = {}
    BY <1>1 DEF process_upsert_exec, Returned
  <2> QED BY <2>1, RecordTypes, UpsertPreservesInv
<1>2. ASSUME NEW pid \in EventPids, NEW child \in EventPids, NEW comm \in Comms,
             process_upsert_fork(pid, child, comm)
      PROVE  Keeps
  <2>1. CASE pid > 0
    <3>1. ~(pid <= 0)
      BY <2>1, EventPidsNat
    <3>2. /\ Upsert(child, ForkRecord(pid, child, comm))
          /\ ret' = Returned("fork", child, UpsertCode(child), {})
      BY <1>2, <3>1, Zenon DEF process_upsert_fork
    <3>3. ret'.out = {}
      BY <3>2 DEF Returned
    <3> QED BY <3>2, <3>3, RecordTypes, UpsertPreservesInv
  <2>2. CASE pid <= 0
    <3>1. UNCHANGED table /\ ret'.out = {}
      <4>1. ~(pid > 0)
        BY <2>2, EventPidsNat
      <4>2. ret' = Returned("fork", child, "NULL", {}) /\ UNCHANGED table
        BY <1>2, <4>1, Zenon DEF process_upsert_fork
      <4> QED BY <4>2 DEF Returned
    <3> QED BY <1>0, <3>1
  <2> QED BY <1>2, <2>1, <2>2, EventPidsNat
<1>3. ASSUME NEW pid \in Pids, process_remove(pid)
      PROVE  Keeps
  <2>1. pid \in EventPids /\ Drop(pid) /\ ret'.out = {}
    BY <1>3 DEF process_remove, EventPids, Returned
  <2> QED BY <2>1, DropPreservesInv
<1>4. ASSUME NEW pid \in Pids, MarkProtected(pid)
      PROVE  Keeps
  <2> DEFINE i == find_existing_slot(pid)
  <2>1. i \in Slots
    BY <1>4, FoundHolds DEF MarkProtected, EventPids
  <2> HIDE DEF i
  <2>2. /\ proc_table' = [proc_table EXCEPT ![i] = AsProtected(proc_table[i])]
        /\ UNCHANGED <<slot_states, occupied_count>>
        /\ ret'.out = {}
    BY <1>4 DEF MarkProtected, Returned, i
  <2>3. proc_table \in [Slots -> proc_info]
    BY DEF TableInv, TableTypeOK
  <2>4. proc_table' \in [Slots -> proc_info]
    BY <2>1, <2>2, <2>3, AsProtectedType
  <2>5. \A j \in Slots : proc_table'[j].pid = proc_table[j].pid /\ proc_table'[j].used = proc_table[j].used
    BY <2>1, <2>2, <2>3, AsProtectedType
  <2> QED BY <2>2, <2>4, <2>5, RewritePreservesInv
<1>5. ASSUME process_table_reset
      PROVE  Keeps
  <2>1. TableInit' /\ ret'.out = {}
    BY <1>5 DEF process_table_reset, TableInit, Returned, Slots, Zeroed
  <2>2. TableInit' => TableInv'
    BY InitInv, PTL
  <2> QED BY <2>1, <2>2
<1>6. ASSUME NEW capacity \in 0..PROC_MAX, process_snapshot(capacity)
      PROVE  Keeps
  <2>1. UNCHANGED table /\ ret'.out \subseteq {proc_table[i] : i \in Occupied}
    BY <1>6 DEF process_snapshot, Returned
  <2>2. {proc_table[i] : i \in Occupied} \subseteq proc_info
    BY DEF TableInv, TableTypeOK, Occupied
  <2> QED BY <1>0, <2>1, <2>2
<1>7. ASSUME UNCHANGED vars
      PROVE  Keeps
  BY <1>0, <1>7 DEF vars, table
<1>8. Keeps
  BY <1>1, <1>2, <1>3, <1>4, <1>5, <1>6, <1>7 DEF Next
<1>9. proc_info' = proc_info
  BY DEF proc_info, EventPids, Group, NoComm
<1> QED BY <1>8, <1>9

\* In every reachable state of the table the types hold.
THEOREM TypeCorrect == Spec => []TypeOK
<1>1. Init => TableInv /\ ret.out \subseteq proc_info
  BY InitInv DEF Init, Returned
<1>2. TableInv /\ ret.out \subseteq proc_info /\ [Next]_vars
        => TableInv' /\ (ret.out \subseteq proc_info)'
  BY NextPreservesInv
<1>3. TableInv /\ ret.out \subseteq proc_info => TypeOK
  BY DEF TableInv, TypeOK
<1> QED BY <1>1, <1>2, <1>3, PTL DEF Spec

\* In every reachable state probe chains are intact, no pid is stored twice
\* and the bookkeeping agrees.
THEOREM TableCorrect == Spec => []TableInv
<1>1. Init => TableInv /\ ret.out \subseteq proc_info
  BY InitInv DEF Init, Returned
<1>2. TableInv /\ ret.out \subseteq proc_info /\ [Next]_vars
        => TableInv' /\ (ret.out \subseteq proc_info)'
  BY NextPreservesInv
<1> QED BY <1>1, <1>2, PTL DEF Spec

\* Lookup never misses a stored record.
THEOREM ChainsStayIntact == Spec => []ProbeChainIntact
<1>1. TableInv => ProbeChainIntact
  BY DEF TableInv
<1> QED BY <1>1, TableCorrect, PTL

\* No sequence of calls stores a pid twice.
THEOREM NeverDuplicated == Spec => []NoDuplicatePid
<1>1. TableInv => NoDuplicatePid
  BY DEF TableInv
<1> QED BY <1>1, TableCorrect, PTL

\* process_snapshot never finds the table inconsistent.
THEOREM SnapshotNeverInconsistent == Spec => []SlotsAgree
<1>1. TableInv => SlotsAgree
  BY DEF TableInv
<1> QED BY <1>1, TableCorrect, PTL

-----------------------------------------------------------------------------
(* The table as its callers see it: what each operation does to lookups.   *)

\* A stored record under its pid, without slots: pid is tracked exactly when
\* an occupied slot names it, and process_get returns that slot's record.
View ==
  /\ \A pid \in EventPids : Tracked(pid) <=> \E i \in Occupied : proc_table[i].pid = pid
  /\ \A pid \in EventPids : \A i \in Occupied : proc_table[i].pid = pid => process_get(pid) = proc_table[i]
  /\ \A pid \in EventPids : ~Tracked(pid) => process_get(pid) = Zeroed

\* While the invariant holds, find_existing_slot and process_get see exactly
\* the records in the occupied slots.
LEMMA LookupSeesSlots == TableInv => View
<1> SUFFICES ASSUME TableInv PROVE View
  OBVIOUS
<1>1. ASSUME NEW pid \in EventPids, Tracked(pid)
      PROVE  \E i \in Occupied : proc_table[i].pid = pid
  BY <1>1, FoundHolds DEF Holds, Occupied
<1>2. ASSUME NEW i \in Occupied
      PROVE  Tracked(proc_table[i].pid) /\ process_get(proc_table[i].pid) = proc_table[i]
  BY StoredIsFound DEF process_get
<1>3. \A pid \in EventPids : ~Tracked(pid) => process_get(pid) = Zeroed
  BY DEF process_get
<1> QED BY <1>1, <1>2, <1>3 DEF View

\* The same after a step.
LEMMA LookupSeesSlotsNext == TableInv' => View'
BY LookupSeesSlots, PTL

\* After a step that changes one slot i at most, lookups of pids that
\* neither the old nor the new record of i names give what they gave before.
LEMMA OtherLookupsKept ==
  ASSUME TableInv, TableInv', NEW i \in Slots,
         \A j \in Slots \ {i} : proc_table'[j] = proc_table[j] /\ (j \in Occupied' <=> j \in Occupied),
         NEW q \in EventPids,
         i \in Occupied => proc_table[i].pid # q,
         i \in Occupied' => proc_table'[i].pid # q
  PROVE  process_get(q)' = process_get(q) /\ (Tracked(q)' <=> Tracked(q))
<1>1. View /\ View'
  BY LookupSeesSlots, LookupSeesSlotsNext
<1>2. Occupied \subseteq Slots /\ Occupied' \subseteq Slots /\ EventPids' = EventPids /\ Slots' = Slots
  BY DEF Occupied, Slots, EventPids
<1>3. (\E j \in Occupied' : proc_table'[j].pid = q) <=> (\E j \in Occupied : proc_table[j].pid = q)
  BY <1>2
<1>4. Tracked(q)' <=> Tracked(q)
  BY <1>1, <1>2, <1>3 DEF View
<1>5. CASE ~Tracked(q)
  <2>1. process_get(q) = Zeroed
    BY <1>1, <1>5 DEF View
  <2>2. process_get(q)' = Zeroed'
    BY <1>1, <1>2, <1>4, <1>5 DEF View
  <2> QED BY <1>4, <2>1, <2>2 DEF Zeroed, NoComm
<1>6. CASE Tracked(q)
  <2>1. PICK j \in Occupied : proc_table[j].pid = q
    BY <1>1, <1>6 DEF View
  <2>2. j \in Slots \ {i} /\ j \in Occupied' /\ proc_table'[j] = proc_table[j]
    BY <1>2, <2>1
  <2>3. process_get(q) = proc_table[j]
    BY <1>1, <2>1 DEF View
  <2>4. process_get(q)' = proc_table'[j]
    BY <1>1, <1>2, <2>1, <2>2 DEF View
  <2> QED BY <1>4, <2>2, <2>3, <2>4
<1> QED BY <1>5, <1>6

\* An upsert that is granted makes process_get of its pid return the new
\* record, and leaves every other pid's record alone.
LEMMA GetAfterStore ==
  ASSUME TableInv, NEW pid \in EventPids, NEW rec \in proc_info,
         rec.used, rec.pid = pid, CanUpsert(pid), Store(pid, rec)
  PROVE  /\ Tracked(pid)' /\ process_get(pid)' = rec
         /\ \A q \in EventPids \ {pid} : process_get(q)' = process_get(q) /\ (Tracked(q)' <=> Tracked(q))
<1> DEFINE i == find_upsert_slot(pid)
<1>1. TableInv' /\ View /\ View'
  BY StorePreservesInv, LookupSeesSlots, LookupSeesSlotsNext
<1>2. /\ proc_table' = [proc_table EXCEPT ![i] = rec]
      /\ slot_states' = [slot_states EXCEPT ![i] = "OCCUPIED"]
  BY DEF Store
<1>3. i \in Slots /\ (i \in Occupied => proc_table[i].pid = pid)
  <2>1. pid > 0 /\ i = IF Tracked(pid) THEN find_existing_slot(pid) ELSE insertion_slot(pid)
    BY EventPidsNat DEF CanUpsert, find_upsert_slot
  <2>2. CASE Tracked(pid)
    BY <2>1, <2>2, FoundHolds DEF Holds
  <2>3. CASE ~Tracked(pid)
    <3>1. i # NoSlot /\ i = insertion_slot(pid) /\ TableTypeOK
      BY <2>1, <2>3 DEF CanUpsert, TableInv
    <3> QED BY <3>1, InsertionSlot
  <2> QED BY <2>2, <2>3
<1> HIDE DEF i
<1>4. EventPids' = EventPids /\ Slots' = Slots
  BY DEF EventPids, Slots
<1>5. proc_table'[i] = rec /\ i \in Occupied'
  BY <1>2, <1>3, <1>4 DEF TableInv, TableTypeOK, Occupied
<1>6. \A j \in Slots \ {i} : proc_table'[j] = proc_table[j] /\ (j \in Occupied' <=> j \in Occupied)
  BY <1>2, <1>3, <1>4 DEF TableInv, TableTypeOK, Occupied
<1>7. Tracked(pid)' /\ process_get(pid)' = rec
  BY <1>1, <1>4, <1>5 DEF View
<1>8. ASSUME NEW q \in EventPids \ {pid}
      PROVE  process_get(q)' = process_get(q) /\ (Tracked(q)' <=> Tracked(q))
  BY <1>1, <1>3, <1>5, <1>6, OtherLookupsKept
<1> QED BY <1>7, <1>8

\* process_remove makes its pid untracked and leaves every other one alone.
LEMMA GetAfterDrop ==
  ASSUME TableInv, NEW pid \in EventPids, Drop(pid)
  PROVE  /\ ~Tracked(pid)' /\ process_get(pid)' = Zeroed
         /\ \A q \in EventPids \ {pid} : process_get(q)' = process_get(q) /\ (Tracked(q)' <=> Tracked(q))
<1> DEFINE i == find_existing_slot(pid)
<1>1. TableInv' /\ View /\ View'
  BY DropPreservesInv, LookupSeesSlots, LookupSeesSlotsNext
<1>2. EventPids' = EventPids /\ Slots' = Slots /\ Zeroed' = Zeroed /\ Occupied \subseteq Slots
  BY DEF EventPids, Slots, Zeroed, NoComm, Occupied
<1>3. CASE ~Tracked(pid)
  <2>1. UNCHANGED table
    BY <1>3 DEF Drop
  <2>2. proc_table' = proc_table /\ Occupied' = Occupied
    BY <2>1 DEF table, Occupied, Slots
  <2>3. \A q \in EventPids : process_get(q)' = process_get(q) /\ (Tracked(q)' <=> Tracked(q))
    <3> SUFFICES ASSUME NEW q \in EventPids
                 PROVE  process_get(q)' = process_get(q) /\ (Tracked(q)' <=> Tracked(q))
      OBVIOUS
    <3>1. Tracked(q)' <=> Tracked(q)
      BY <1>1, <1>2, <2>2 DEF View
    <3> QED BY <1>1, <1>2, <2>2, <3>1 DEF View
  <2>4. process_get(pid) = Zeroed
    BY <1>1, <1>3 DEF View
  <2> QED BY <1>3, <2>3, <2>4
<1>4. CASE Tracked(pid)
  <2>1. i \in Slots /\ i \in Occupied /\ proc_table[i].pid = pid
    BY <1>4, FoundHolds DEF Holds, Occupied
  <2>2. /\ proc_table' = [proc_table EXCEPT ![i] = Zeroed]
        /\ slot_states' = [slot_states EXCEPT ![i] = "TOMBSTONE"]
    BY <1>4 DEF Drop
  <2> HIDE DEF i
  <2>3. i \notin Occupied'
    BY <1>2, <2>1, <2>2 DEF TableInv, TableTypeOK, Occupied
  <2>4. \A j \in Slots \ {i} : proc_table'[j] = proc_table[j] /\ (j \in Occupied' <=> j \in Occupied)
    BY <1>2, <2>1, <2>2 DEF TableInv, TableTypeOK, Occupied
  <2>5. \A j \in Occupied' : proc_table'[j].pid # pid
    <3>1. \A j \in Occupied' : j \in Slots \ {i} /\ j \in Occupied /\ proc_table'[j] = proc_table[j]
      BY <1>2, <2>3, <2>4 DEF Occupied
    <3> QED BY <2>1, <3>1 DEF TableInv, NoDuplicatePid
  <2>6. ~Tracked(pid)'
    BY <1>1, <1>2, <2>5 DEF View
  <2>7. process_get(pid)' = Zeroed
    BY <1>1, <1>2, <2>6 DEF View
  <2>8. ASSUME NEW q \in EventPids \ {pid}
        PROVE  process_get(q)' = process_get(q) /\ (Tracked(q)' <=> Tracked(q))
    BY <1>1, <2>1, <2>3, <2>4, OtherLookupsKept
  <2> QED BY <2>6, <2>7, <2>8
<1> QED BY <1>3, <1>4

\* The write through the pointer changes the pid's own record and no other.
LEMMA GetAfterMark ==
  ASSUME TableInv, TableInv', NEW pid \in EventPids, MarkProtected(pid)
  PROVE  /\ Tracked(pid) /\ Tracked(pid)' /\ process_get(pid)' = AsProtected(process_get(pid))
         /\ \A q \in EventPids \ {pid} : process_get(q)' = process_get(q) /\ (Tracked(q)' <=> Tracked(q))
<1> DEFINE i == find_existing_slot(pid)
<1>1. View /\ View' /\ Tracked(pid)
  BY LookupSeesSlots, LookupSeesSlotsNext DEF MarkProtected
<1>2. EventPids' = EventPids /\ Slots' = Slots /\ Occupied' = Occupied /\ Occupied \subseteq Slots
  BY DEF EventPids, Slots, Occupied, MarkProtected
<1>3. i \in Slots /\ i \in Occupied /\ proc_table[i].pid = pid
  BY <1>1, FoundHolds DEF Holds, Occupied
<1>4. proc_table' = [proc_table EXCEPT ![i] = AsProtected(proc_table[i])]
  BY DEF MarkProtected
<1> HIDE DEF i
<1>5. \A j \in Slots \ {i} : proc_table'[j] = proc_table[j] /\ (j \in Occupied' <=> j \in Occupied)
  BY <1>2, <1>3, <1>4 DEF TableInv, TableTypeOK
<1>6. proc_table[i] \in proc_info /\ proc_table'[i] = AsProtected(proc_table[i])
  BY <1>3, <1>4 DEF TableInv, TableTypeOK
<1>7. proc_table'[i].pid = pid
  BY <1>3, <1>6, AsProtectedType
<1>8. process_get(pid) = proc_table[i]
  BY <1>1, <1>3 DEF View
<1>9. Tracked(pid)' /\ process_get(pid)' = proc_table'[i]
  BY <1>1, <1>2, <1>3, <1>7 DEF View
<1>10. ASSUME NEW q \in EventPids \ {pid}
       PROVE  process_get(q)' = process_get(q) /\ (Tracked(q)' <=> Tracked(q))
  BY <1>3, <1>5, <1>7, OtherLookupsKept
<1> QED BY <1>1, <1>6, <1>8, <1>9, <1>10

\* Nothing is found in an empty table.
LEMMA GetAfterReset ==
  ASSUME TableInit
  PROVE  \A q \in EventPids : process_get(q) = Zeroed /\ ~Tracked(q)
<1>1. Occupied = {} /\ View
  BY InitInv, LookupSeesSlots DEF TableInit, Occupied
<1> QED BY <1>1 DEF View

\* Lookups read nothing but the table.
LEMMA GetUnchanged ==
  ASSUME UNCHANGED table
  PROVE  \A q \in EventPids : process_get(q)' = process_get(q) /\ (Tracked(q)' <=> Tracked(q))
BY DEF table, process_get, Tracked, find_existing_slot, FirstOf, Least, Visited, Holds, Probe, process_hash,
       Slots, NoSlot, Zeroed, NoComm

-----------------------------------------------------------------------------
(* Protection is lost only by a task's own event.                          *)

\* One step of the table takes the mark only from the pid its event names.
LEMMA ProtectionStep ==
  ASSUME TableInv, TableInv', Next, NEW pid \in Pids,
         process_get(pid).is_protected, ~process_get(pid)'.is_protected
  PROVE  \/ ret'.op = "reset"
         \/ ret'.op \in {"exit", "fork"} /\ ret'.pid = pid
<1>0. pid \in EventPids
  BY DEF EventPids
<1>1. ASSUME NEW q \in EventPids, NEW comm \in Comms, process_upsert_exec(q, comm)
      PROVE  FALSE
  <2>1. Upsert(q, ExecRecord(q, comm))
    BY <1>1 DEF process_upsert_exec
  <2>2. CASE CanUpsert(q)
    <3>1. Store(q, ExecRecord(q, comm))
      BY <2>1, <2>2 DEF Upsert
    <3>2. /\ process_get(q)' = ExecRecord(q, comm)
          /\ \A r \in EventPids \ {q} : process_get(r)' = process_get(r)
      BY <2>2, <3>1, RecordTypes, GetAfterStore
    <3>3. q # pid
      BY <3>2 DEF ExecRecord
    <3> QED BY <1>0, <3>2, <3>3
  <2>3. CASE ~CanUpsert(q)
    BY <1>0, <2>1, <2>3, GetUnchanged DEF Upsert
  <2> QED BY <2>2, <2>3
<1>2. ASSUME NEW q \in EventPids, NEW child \in EventPids, NEW comm \in Comms,
             process_upsert_fork(q, child, comm)
      PROVE  ret'.op = "fork" /\ ret'.pid = pid
  <2>1. ret'.op = "fork" /\ ret'.pid = child
    BY <1>2 DEF process_upsert_fork, Returned
  <2>2. Upsert(child, ForkRecord(q, child, comm)) \/ UNCHANGED table
    BY <1>2, Zenon DEF process_upsert_fork
  <2>3. CASE UNCHANGED table
    BY <1>0, <2>3, GetUnchanged
  <2>4. CASE CanUpsert(child) /\ Upsert(child, ForkRecord(q, child, comm))
    <3>1. Store(child, ForkRecord(q, child, comm))
      BY <2>4 DEF Upsert
    <3>2. \A r \in EventPids \ {child} : process_get(r)' = process_get(r)
      BY <2>4, <3>1, RecordTypes, GetAfterStore
    <3> QED BY <1>0, <2>1, <3>2
  <2>5. CASE ~CanUpsert(child) /\ Upsert(child, ForkRecord(q, child, comm))
    BY <2>3, <2>5 DEF Upsert
  <2> QED BY <2>2, <2>3, <2>4, <2>5
<1>3. ASSUME NEW q \in Pids, process_remove(q)
      PROVE  ret'.op = "exit" /\ ret'.pid = pid
  <2>1. ret'.op = "exit" /\ ret'.pid = q /\ Drop(q) /\ q \in EventPids
    BY <1>3 DEF process_remove, Returned, EventPids
  <2>2. \A r \in EventPids \ {q} : process_get(r)' = process_get(r)
    BY <2>1, GetAfterDrop
  <2> QED BY <1>0, <2>1, <2>2
<1>4. ASSUME NEW q \in Pids, MarkProtected(q)
      PROVE  FALSE
  <2>1. q \in EventPids
    BY DEF EventPids
  <2>2. /\ process_get(q)' = AsProtected(process_get(q))
        /\ \A r \in EventPids \ {q} : process_get(r)' = process_get(r)
    BY <1>4, <2>1, GetAfterMark
  <2>3. process_get(q) \in proc_info
    BY <2>1, GetType
  <2>4. process_get(q)'.is_protected
    BY <2>2, <2>3 DEF AsProtected, proc_info
  <2> QED BY <1>0, <2>2, <2>4
<1>5. ASSUME process_table_reset
      PROVE  ret'.op = "reset"
  BY <1>5 DEF process_table_reset, Returned
<1>6. ASSUME NEW capacity \in 0..PROC_MAX, process_snapshot(capacity)
      PROVE  FALSE
  BY <1>0, <1>6, GetUnchanged DEF process_snapshot
<1> QED BY <1>1, <1>2, <1>3, <1>4, <1>5, <1>6 DEF Next

\* No call sequence takes a process's protection by way of an exec or of
\* another process's event: only its exit, a fork event that names it as the
\* child, or a reset of the table does.
THEOREM ProtectionIsKept == Spec => ProtectionLostOnlyByOwnEvent
<1> DEFINE Lost(pid) == process_get(pid).is_protected /\ ~process_get(pid)'.is_protected
           Own(pid) == \/ ret'.op = "reset"
                       \/ ret'.op \in {"exit", "fork"} /\ ret'.pid = pid
<1>1. TableInv /\ TableInv' /\ [Next]_vars => [\A pid \in Pids : Lost(pid) => Own(pid)]_vars
  <2>1. TableInv /\ TableInv' /\ Next => \A pid \in Pids : Lost(pid) => Own(pid)
    BY ProtectionStep
  <2> HIDE DEF Lost, Own
  <2> QED BY <2>1
<1> QED BY <1>1, TableCorrect, PTL DEF Spec, ProtectionLostOnlyByOwnEvent

-----------------------------------------------------------------------------
(* The table implements the bounded map of ProcessMap.                     *)

\* The map as lookups see it.
Lookups == [pid \in {q \in EventPids : Tracked(q)} |-> process_get(pid)]

\* The refinement mapping gives what lookups see.
LEMMA AbstractIsLookups == TableInv => Abstract = Lookups
<1> SUFFICES ASSUME TableInv PROVE Abstract = Lookups
  OBVIOUS
<1> DEFINE D == {proc_table[i].pid : i \in Occupied}
<1>1. View
  BY LookupSeesSlots
<1>2. \A i \in Occupied : proc_table[i].pid \in EventPids
  BY DEF TableInv, TableTypeOK, proc_info, Occupied
<1>3. D = {q \in EventPids : Tracked(q)}
  BY <1>1, <1>2 DEF View
<1>4. ASSUME NEW pid \in D
      PROVE  proc_table[CHOOSE i \in Occupied : proc_table[i].pid = pid] = process_get(pid)
  <2> DEFINE c == CHOOSE i \in Occupied : proc_table[i].pid = pid
  <2>1. c \in Occupied /\ proc_table[c].pid = pid
    OBVIOUS
  <2> HIDE DEF c
  <2>2. pid \in EventPids
    BY <1>2
  <2> QED BY <1>1, <2>1, <2>2 DEF View, c
<1> QED BY <1>3, <1>4 DEF Abstract, Lookups

\* The same after a step.
LEMMA AbstractIsLookupsNext == TableInv' => (Abstract = Lookups)'
BY AbstractIsLookups, PTL

\* The incremental count is the number of pids the map holds.
LEMMA CountIsSize ==
  ASSUME TableInv
  PROVE  Cardinality(DOMAIN Abstract) = Cardinality(Occupied) /\ Cardinality(Occupied) = occupied_count
<1> DEFINE D == {proc_table[i].pid : i \in Occupied}
           f == [i \in Occupied |-> proc_table[i].pid]
<1>1. DOMAIN Abstract = D
  BY DEF Abstract
<1>2. f \in [Occupied -> D] /\ \A i, j \in Occupied : f[i] = f[j] => i = j
  BY DEF TableInv, NoDuplicatePid
<1>3. \A d \in D : \E i \in Occupied : f[i] = d
  OBVIOUS
<1> HIDE DEF D, f
<1>4. f \in Bijection(Occupied, D)
  BY <1>2, <1>3 DEF Bijection, Injection, IsInjective, Surjection
<1>5. ExistsBijection(Occupied, D)
  BY <1>4 DEF ExistsBijection
<1>6. Cardinality(D) = Cardinality(Occupied)
  BY <1>5, OccupiedFinite, FS_Bijection
<1> QED BY <1>1, <1>6 DEF TableInv, SlotsAgree, SnapshotConsistent

\* An insertion is refused for pid 0, and otherwise only when PROC_MAX pids
\* are stored: tombstones never take room from new pids.
LEMMA RefusalIsFull ==
  ASSUME TableInv, NEW pid \in EventPids
  PROVE  CanUpsert(pid) <=>
           pid > 0 /\ (pid \in DOMAIN Abstract \/ Cardinality(DOMAIN Abstract) < PROC_MAX)
<1>1. Cardinality(DOMAIN Abstract) = occupied_count
  BY CountIsSize
<1>2. pid \in DOMAIN Abstract <=> Tracked(pid)
  BY AbstractIsLookups DEF Lookups
<1>3. pid \in Nat
  BY EventPidsNat
<1>4. CASE ~(pid > 0)
  BY <1>3, <1>4 DEF CanUpsert, find_upsert_slot
<1>5. CASE pid > 0 /\ Tracked(pid)
  BY <1>2, <1>3, <1>5 DEF CanUpsert, find_upsert_slot, Tracked
<1>6. CASE pid > 0 /\ ~Tracked(pid)
  <2>1. find_upsert_slot(pid) = insertion_slot(pid)
    BY <1>3, <1>6 DEF find_upsert_slot
  <2>2. occupied_count < PROC_MAX => insertion_slot(pid) # NoSlot
    <3> SUFFICES ASSUME insertion_slot(pid) = NoSlot PROVE ~(occupied_count < PROC_MAX)
      OBVIOUS
    <3>1. Occupied = Slots
      BY RefusedOnlyWhenFull DEF TableInv
    <3>2. Cardinality(Slots) = PROC_MAX
      BY FS_Interval, ProcMaxAssumption DEF Slots
    <3> QED BY <3>1, <3>2, CountIsSize, ProcMaxAssumption
  <2> QED BY <1>1, <1>2, <1>6, <2>1, <2>2 DEF CanUpsert
<1> QED BY <1>4, <1>5, <1>6

\* The map counts its pids as the table does.
LEMMA SameCardinality ==
  ASSUME NEW S
  PROVE  Map!Cardinality(S) = Cardinality(S)
BY DEF Map!Cardinality, Cardinality

\* A granted upsert binds its pid in the map; a refused one leaves it.
LEMMA UpsertBinds ==
  ASSUME TableInv, NEW pid \in EventPids, NEW rec \in proc_info, rec.used, rec.pid = pid,
         NEW op, Upsert(pid, rec), ret' = Returned(op, pid, UpsertCode(pid), {})
  PROVE  Map!Bind(op, pid, rec)
<1>1. TableInv'
  BY UpsertPreservesInv
<1>2. Abstract = Lookups /\ Abstract' = Lookups'
  BY <1>1, AbstractIsLookups, AbstractIsLookupsNext
<1>3. EventPids' = EventPids
  BY DEF EventPids
<1>4. CASE CanUpsert(pid)
  <2>1. Store(pid, rec)
    BY <1>4 DEF Upsert
  <2>2. /\ Tracked(pid)' /\ process_get(pid)' = rec
        /\ \A q \in EventPids \ {pid} : process_get(q)' = process_get(q) /\ (Tracked(q)' <=> Tracked(q))
    BY <1>4, <2>1, GetAfterStore
  <2>3. {q \in EventPids : Tracked(q)}' = {q \in EventPids : Tracked(q)} \cup {pid}
    BY <1>3, <2>2
  <2>4. Lookups' = [q \in {r \in EventPids : Tracked(r)} \cup {pid} |->
                      IF q = pid THEN rec ELSE process_get(q)]
    BY <1>3, <2>2, <2>3 DEF Lookups
  <2>5. Abstract' = Map!With(pid, rec)
    BY <1>2, <2>4 DEF Map!With, Map!Tracked, Lookups
  <2>6. ret' = Map!Returned(op, pid, "OK", {})
    BY <1>4 DEF Returned, Map!Returned, UpsertCode
  <2>7. pid > 0 /\ (pid \in Map!Tracked \/ Map!Cardinality(Map!Tracked) < PROC_MAX)
    BY <1>4, RefusalIsFull, SameCardinality DEF Map!Tracked
  <2> QED BY <2>5, <2>6, <2>7, Zenon DEF Map!Bind
<1>5. CASE ~CanUpsert(pid)
  <2>1. UNCHANGED table
    BY <1>5 DEF Upsert
  <2>2. Abstract' = Abstract
    BY <1>2, <1>3, <2>1, GetUnchanged DEF Lookups
  <2>3. ret' = Map!Returned(op, pid, "NULL", {})
    BY <1>5 DEF Returned, Map!Returned, UpsertCode
  <2>4. ~(pid > 0 /\ (pid \in Map!Tracked \/ Map!Cardinality(Map!Tracked) < PROC_MAX))
    BY <1>5, RefusalIsFull, SameCardinality DEF Map!Tracked
  <2> QED BY <2>2, <2>3, <2>4, Zenon DEF Map!Bind
<1> QED BY <1>4, <1>5

\* What the map says of a pid is what process_get says of it.
LEMMA MapReads ==
  ASSUME TableInv, NEW pid \in EventPids
  PROVE  /\ pid \in Map!Tracked <=> Tracked(pid)
         /\ Tracked(pid) => Abstract[pid] = process_get(pid) /\ process_get(pid).used
         /\ Map!IsProtected(pid) <=> process_get(pid).is_protected
         /\ process_get(pid).is_protected \in BOOLEAN
         /\ process_get(pid).inherited_protected \in BOOLEAN
<1>1. pid \in Map!Tracked <=> Tracked(pid)
  BY AbstractIsLookups DEF Map!Tracked, Lookups
<1>2. process_get(pid) \in proc_info
  BY GetType
<1>3. Tracked(pid) => Abstract[pid] = process_get(pid)
  BY AbstractIsLookups DEF Lookups
<1>4. Tracked(pid) => process_get(pid).used
  BY FoundHolds DEF process_get, Holds
<1>5. ~Tracked(pid) => ~process_get(pid).is_protected
  BY DEF process_get, Zeroed
<1> QED BY <1>1, <1>2, <1>3, <1>4, <1>5 DEF Map!IsProtected, proc_info

\* Every step of the table is a step of the map, or leaves it as it is.
LEMMA StepIsMapStep ==
  ASSUME TableInv, TableInv', [Next]_vars
  PROVE  [Map!Next]_(Map!vars)
<1>0. /\ Abstract = Lookups /\ Abstract' = Lookups'
      /\ EventPids' = EventPids /\ EventPids = Pids \cup {0} /\ Zeroed' = Zeroed
  BY AbstractIsLookups, AbstractIsLookupsNext DEF EventPids, Zeroed, NoComm
<1>1. ASSUME UNCHANGED table PROVE Abstract' = Abstract
  BY <1>0, <1>1, GetUnchanged DEF Lookups
<1>2. ASSUME NEW pid \in EventPids, NEW comm \in Comms, process_upsert_exec(pid, comm)
      PROVE  Map!Next
  <2>1. ExecRecord(pid, comm) =
          [used |-> TRUE, pid |-> pid, is_protected |-> Map!IsProtected(pid),
           inherited_protected |-> pid \in Map!Tracked /\ Abstract[pid].inherited_protected,
           group |-> IF pid \in Map!Tracked THEN Abstract[pid].group ELSE "UNKNOWN",
           comm |-> comm]
    <3>1. Map!IsProtected(pid) = process_get(pid).is_protected
      BY MapReads DEF Map!IsProtected
    <3>2. (pid \in Map!Tracked /\ Abstract[pid].inherited_protected) = process_get(pid).inherited_protected
      BY MapReads DEF process_get, Zeroed
    <3> QED BY <3>1, <3>2, MapReads DEF ExecRecord
  <2>2. Map!Bind("exec", pid, ExecRecord(pid, comm))
    BY <1>2, RecordTypes, UpsertBinds DEF process_upsert_exec
  <2>3. Map!Exec(pid, comm)
    BY <2>1, <2>2 DEF Map!Exec
  <2> QED BY <1>0, <2>3 DEF Map!Next
<1>3. ASSUME NEW pid \in EventPids, NEW child \in EventPids, NEW comm \in Comms,
             process_upsert_fork(pid, child, comm)
      PROVE  Map!Next
  <2>1. CASE pid > 0
    <3>1. ~(pid <= 0)
      BY <2>1, EventPidsNat
    <3>2. /\ Upsert(child, ForkRecord(pid, child, comm))
          /\ ret' = Returned("fork", child, UpsertCode(child), {})
      BY <1>3, <3>1, Zenon DEF process_upsert_fork
    <3>3. Map!Bind("fork", child, ForkRecord(pid, child, comm))
      BY <3>2, RecordTypes, UpsertBinds
    <3>4. Inherits(pid, child) = (pid # child /\ Map!IsProtected(pid))
      BY MapReads DEF Inherits, Map!IsProtected
    <3>5. Map!Fork(pid, child, comm)
      BY <3>1, <3>3, <3>4 DEF Map!Fork, ForkRecord
    <3> QED BY <1>0, <3>5 DEF Map!Next
  <2>2. CASE pid <= 0
    <3>1. ~(pid > 0)
      BY <2>2, EventPidsNat
    <3>2. ret' = Returned("fork", child, "NULL", {}) /\ UNCHANGED table
      BY <1>3, <3>1, Zenon DEF process_upsert_fork
    <3>3. Map!Fork(pid, child, comm)
      BY <1>1, <2>2, <3>2 DEF Map!Fork, Map!Returned, Returned
    <3> QED BY <1>0, <3>3 DEF Map!Next
  <2> QED BY <2>1, <2>2, EventPidsNat
<1>4. ASSUME NEW pid \in Pids, process_remove(pid)
      PROVE  Map!Next
  <2>1. pid \in EventPids /\ Drop(pid) /\ ret' = Map!Returned("exit", pid, "OK", {})
    BY <1>4 DEF process_remove, EventPids, Returned, Map!Returned
  <2>2. /\ ~Tracked(pid)'
        /\ \A q \in EventPids \ {pid} : process_get(q)' = process_get(q) /\ (Tracked(q)' <=> Tracked(q))
    BY <2>1, GetAfterDrop
  <2>3. Lookups' = [q \in {r \in EventPids : Tracked(r)} \ {pid} |-> process_get(q)]
    BY <1>0, <2>2 DEF Lookups
  <2>4. Map!Exit(pid)
    BY <1>0, <2>1, <2>3 DEF Map!Exit, Map!Without, Map!Tracked, Lookups
  <2> QED BY <2>4 DEF Map!Next
<1>5. ASSUME NEW pid \in Pids, MarkProtected(pid)
      PROVE  Map!Next
  <2>1. pid \in EventPids /\ ret' = Map!Returned("protect", pid, "OK", {})
    BY <1>5 DEF MarkProtected, EventPids, Returned, Map!Returned
  <2>2. /\ Tracked(pid) /\ Tracked(pid)' /\ process_get(pid)' = AsProtected(process_get(pid))
        /\ \A q \in EventPids \ {pid} : process_get(q)' = process_get(q) /\ (Tracked(q)' <=> Tracked(q))
    BY <1>5, <2>1, GetAfterMark
  <2>3. {r \in EventPids : Tracked(r)}' = {r \in EventPids : Tracked(r)}
    BY <1>0, <2>2
  <2>4. Lookups' = [q \in {r \in EventPids : Tracked(r)} |->
                      IF q = pid THEN AsProtected(process_get(q)) ELSE process_get(q)]
    BY <1>0, <2>2, <2>3 DEF Lookups
  <2>5. Abstract' = [Abstract EXCEPT ![pid].is_protected = TRUE, ![pid].group = "PROTECTED"]
    BY <1>0, <2>1, <2>2, <2>4 DEF Lookups, AsProtected
  <2>6. Map!Protect(pid)
    BY <2>1, <2>2, <2>5, MapReads DEF Map!Protect
  <2> QED BY <2>6 DEF Map!Next
<1>6. ASSUME process_table_reset
      PROVE  Map!Next
  <2>1. TableInit' /\ ret' = Map!Returned("reset", 0, "OK", {})
    BY <1>6 DEF process_table_reset, TableInit, Returned, Map!Returned, Slots, Zeroed
  <2>2. Abstract' = [p \in {} |-> p]
    <3>1. Occupied' = {}
      BY <1>6 DEF process_table_reset, Occupied
    <3> QED BY <3>1 DEF Abstract
  <2>3. Map!Reset
    BY <2>1, <2>2 DEF Map!Reset
  <2> QED BY <2>3 DEF Map!Next
<1>7. ASSUME NEW capacity \in 0..PROC_MAX, process_snapshot(capacity)
      PROVE  Map!Next
  <2>1. {proc_table[i] : i \in Occupied} = {Abstract[p] : p \in Map!Tracked}
    <3>1. View
      BY LookupSeesSlots
    <3>2. \A i \in Occupied : proc_table[i].pid \in EventPids
      BY DEF TableInv, TableTypeOK, proc_info, Occupied
    <3>3. Map!Tracked = {r \in EventPids : Tracked(r)} /\ \A p \in Map!Tracked : Abstract[p] = process_get(p)
      BY <1>0 DEF Map!Tracked, Lookups
    <3>4. ASSUME NEW i \in Occupied PROVE \E p \in Map!Tracked : Abstract[p] = proc_table[i]
      BY <3>1, <3>2, <3>3 DEF View
    <3>5. ASSUME NEW p \in Map!Tracked PROVE \E i \in Occupied : Abstract[p] = proc_table[i]
      BY <3>1, <3>3 DEF View
    <3> QED BY <3>4, <3>5
  <2>2. SnapshotConsistent /\ Cardinality(Map!Tracked) = Cardinality(Occupied) /\ Cardinality(Occupied) \in Nat
    BY CountIsSize DEF TableInv, SlotsAgree, TableTypeOK, Map!Tracked
  <2>3. /\ ret' = IF capacity < Cardinality(Occupied) THEN Returned("snapshot", 0, "NO_SPACE", {})
                  ELSE Returned("snapshot", 0, "OK", {proc_table[i] : i \in Occupied})
        /\ UNCHANGED table
    BY <1>7, <2>2 DEF process_snapshot
  <2>4. CASE capacity < Cardinality(Occupied)
    <3>1. ~(Map!Cardinality(Map!Tracked) <= capacity)
      BY <2>2, <2>4, ProcMaxAssumption, SameCardinality
    <3>2. ret' = Map!Returned("snapshot", 0, "NO_SPACE", {})
      BY <2>3, <2>4 DEF Returned, Map!Returned
    <3>3. Map!Snapshot(capacity)
      BY <1>1, <2>3, <3>1, <3>2, Zenon DEF Map!Snapshot
    <3> QED BY <3>3 DEF Map!Next
  <2>5. CASE ~(capacity < Cardinality(Occupied))
    <3>1. Map!Cardinality(Map!Tracked) <= capacity
      BY <2>2, <2>5, ProcMaxAssumption, SameCardinality
    <3>2. ret' = Map!Returned("snapshot", 0, "OK", {Abstract[p] : p \in Map!Tracked})
      BY <2>1, <2>3, <2>5 DEF Returned, Map!Returned
    <3>3. Map!Snapshot(capacity)
      BY <1>1, <2>3, <3>1, <3>2, Zenon DEF Map!Snapshot
    <3> QED BY <3>3 DEF Map!Next
  <2> QED BY <2>4, <2>5
<1>8. ASSUME UNCHANGED vars
      PROVE  UNCHANGED Map!vars
  BY <1>1, <1>8 DEF vars, table, Map!vars
<1> QED BY <1>2, <1>3, <1>4, <1>5, <1>6, <1>7, <1>8 DEF Next

\* process.c is a bounded map: whatever was inserted and deleted before,
\* every call returns, stores and refuses what a map of at most PROC_MAX
\* pids would, and no slot, probe or tombstone can be told from outside.
THEOREM TableIsMap == Spec => ImplementsMap
<1>1. Init => Map!Init
  <2> SUFFICES ASSUME Init PROVE Map!Init
    OBVIOUS
  <2>1. Occupied = {}
    BY DEF Init, TableInit, Occupied
  <2> QED BY <2>1 DEF Init, Map!Init, Abstract, Returned, Map!Returned
<1>2. TableInv /\ TableInv' /\ [Next]_vars => [Map!Next]_(Map!vars)
  BY StepIsMapStep
<1> QED BY <1>1, <1>2, TableCorrect, PTL DEF Spec, ImplementsMap, Map!Spec

-----------------------------------------------------------------------------
(* The inductive invariant.                                                *)

\* Event e takes the tasks that ought to be protected from o to o2, and
\* those with threads from t to t2.  An exit event may be a thread's.
Follows(e, o, t, o2, t2) ==
  \/ /\ e.type = "FORK" /\ e.child_pid \in Pids /\ e.child_pid # e.pid
     /\ o2 = IF e.pid \in o THEN o \cup {e.child_pid} ELSE o \ {e.child_pid}
     /\ t2 = IF e.pid \in t THEN t \cup {e.child_pid} ELSE t \ {e.child_pid}
  \/ e.type = "FORK" /\ e.child_pid = e.pid /\ o2 = o /\ t2 = t \cup {e.pid}
  \/ e.type = "EXIT" /\ e.pid \in t /\ o2 = o /\ t2 = t
  \/ e.type = "EXIT" /\ o2 = o \ {e.pid} /\ t2 = t \ {e.pid}
  \/ /\ e.type = "EXEC" /\ t2 = t
     /\ o2 = IF e.comm \in ProtectedComms /\ ~e.own THEN o \cup {e.pid} ELSE o

\* The table's marks are the tasks in o, those in t set aside.
Marks(o, t) == \A p \in Pids \ t : process_get(p).is_protected <=> p \in o

\* While nothing is lost or refused, the events in the ring lead from the
\* table's marks to the tasks that ought to be protected now.
Backlog ==
  ~lost /\ ~refused =>
    \E o, t \in [0..Len(ring) -> SUBSET Pids] :
      /\ Marks(o[0], t[0])
      /\ o[Len(ring)] = ought /\ t[Len(ring)] = threaded
      /\ \A i \in 1..Len(ring) : Follows(ring[i], o[i - 1], t[i - 1], o[i], t[i])

\* A task that has threads now is among those that had one.
ThreadsTraced == \A p \in Pids : task[p].threads > 0 => p \in threaded

\* Two of a record's three signs of protection imply the third.
Agrees(rec) == rec.inherited_protected \/ rec.group = "PROTECTED" => rec.is_protected

\* They do in every record of the table.
RecordsAgree == \A pid \in EventPids : Tracked(pid) => Agrees(process_get(pid))

DaemonIndInv == DaemonInv /\ ThreadsTraced /\ RecordsAgree /\ Backlog

-----------------------------------------------------------------------------
(* The kernel's side.                                                      *)

Live == [alive : {TRUE}, comm : Comms, protected : BOOLEAN, threads : 0..MaxThreads, own : BOOLEAN]

\* A task is live or absent.
LEMMA LiveTask ==
  ASSUME NEW t \in Task, t.alive
  PROVE  t \in Live /\ t.comm \in Comms /\ t.own \in BOOLEAN /\ t.threads \in 0..MaxThreads
<1>1. ~NoTask.alive
  BY DEF NoTask
<1>2. t \in Live
  BY <1>1 DEF Task, Live
<1> QED BY <1>2 DEF Live

\* What a system call makes of a live task is a task.
LEMMA TaskUpdates ==
  ASSUME NEW t \in Live
  PROVE  /\ Live \subseteq Task /\ NoTask \in Task
         /\ \A n \in 0..MaxThreads : [t EXCEPT !.threads = n] \in Live
         /\ \A comm \in Comms : [t EXCEPT !.comm = comm] \in Live
         /\ [t EXCEPT !.protected = TRUE] \in Live
         /\ [t EXCEPT !.threads = 0, !.own = FALSE] \in Live
<1>1. 0 \in 0..MaxThreads
  BY DaemonAssumption
<1>2. Live \subseteq Task /\ NoTask \in Task
  BY DEF Live, Task
<1>3. \A n \in 0..MaxThreads : [t EXCEPT !.threads = n] \in Live
  BY DEF Live
<1>4. \A comm \in Comms : [t EXCEPT !.comm = comm] \in Live
  BY DEF Live
<1>5. [t EXCEPT !.protected = TRUE] \in Live
  BY DEF Live
<1>6. [t EXCEPT !.threads = 0, !.own = FALSE] \in Live
  BY <1>1 DEF Live
<1> QED BY <1>2, <1>3, <1>4, <1>5, <1>6

\* A tracepoint program puts its event at the end of the ring, or marks it
\* lost; either way the ring keeps to its size.
LEMMA EmitStep ==
  ASSUME ring \in Seq(Event), Len(ring) <= RingMax, events \in 0..MaxEvents, lost \in BOOLEAN,
         NEW e \in Event, Emit(e)
  PROVE  /\ ring' \in Seq(Event) /\ Len(ring') <= RingMax
         /\ events' \in 0..MaxEvents /\ lost' \in BOOLEAN
         /\ ~lost' => ~lost /\ ring' = Append(ring, e)
<1>1. RingMax \in Nat /\ MaxEvents \in Nat
  BY DaemonAssumption
<1>2. events' \in 0..MaxEvents
  BY <1>1 DEF Emit
<1>a. lost' \in BOOLEAN
  BY Zenon DEF Emit
<1>3. ring' \in Seq(Event) /\ Len(ring') <= RingMax
  BY <1>1 DEF Emit
<1>4. ~lost' => ~lost /\ ring' = Append(ring, e)
  BY <1>1 DEF Emit
<1> QED BY <1>2, <1>a, <1>3, <1>4

\* An event that describes what the kernel's tasks just did extends the
\* backlog by one.
LEMMA BacklogGrows ==
  ASSUME Backlog, ring \in Seq(Event), NEW e \in Event,
         ~lost' => ~lost /\ ring' = Append(ring, e),
         UNCHANGED <<table, refused>>,
         ought \subseteq Pids, threaded \subseteq Pids, ought' \subseteq Pids, threaded' \subseteq Pids,
         Follows(e, ought, threaded, ought', threaded')
  PROVE  Backlog'
<1> SUFFICES ASSUME ~lost', ~refused'
    PROVE \E o, t \in [0..Len(ring') -> SUBSET Pids] :
      /\ \A p \in Pids \ t[0] : process_get(p)'.is_protected <=> p \in o[0]
      /\ o[Len(ring')] = ought' /\ t[Len(ring')] = threaded'
      /\ \A i \in 1..Len(ring') : Follows(ring'[i], o[i - 1], t[i - 1], o[i], t[i])
  BY DEF Backlog, Marks, Follows
<1> DEFINE n == Len(ring)
<1>1. ~lost /\ ~refused /\ ring' = Append(ring, e) /\ n \in Nat /\ Len(ring') = n + 1
  OBVIOUS
<1>2. PICK o \in [0..n -> SUBSET Pids], t \in [0..n -> SUBSET Pids] :
      /\ Marks(o[0], t[0])
      /\ o[n] = ought /\ t[n] = threaded
      /\ \A i \in 1..n : Follows(ring[i], o[i - 1], t[i - 1], o[i], t[i])
  BY <1>1 DEF Backlog
<1> DEFINE o2 == [i \in 0..n + 1 |-> IF i = n + 1 THEN ought' ELSE o[i]]
           t2 == [i \in 0..n + 1 |-> IF i = n + 1 THEN threaded' ELSE t[i]]
<1>3. o2 \in [0..Len(ring') -> SUBSET Pids] /\ t2 \in [0..Len(ring') -> SUBSET Pids]
  BY <1>1, <1>2
<1>4. /\ \A i \in 0..n : o2[i] = o[i] /\ t2[i] = t[i]
      /\ o2[n + 1] = ought' /\ t2[n + 1] = threaded'
  BY <1>1, <1>2
<1> HIDE DEF o2, t2
<1>5. \A p \in Pids \ t2[0] : process_get(p)'.is_protected <=> p \in o2[0]
  <2>1. o2[0] = o[0] /\ t2[0] = t[0]
    BY <1>1, <1>4
  <2>2. \A p \in Pids : process_get(p)' = process_get(p)
    BY GetUnchanged DEF EventPids
  <2> QED BY <1>2, <2>1, <2>2 DEF Marks
<1>6. ASSUME NEW i \in 1..Len(ring')
      PROVE  Follows(ring'[i], o2[i - 1], t2[i - 1], o2[i], t2[i])
  <2>1. CASE i = n + 1
    <3>1. ring'[i] = e /\ i - 1 = n
      BY <1>1, <2>1
    <3>2. o2[i - 1] = ought /\ t2[i - 1] = threaded /\ o2[i] = ought' /\ t2[i] = threaded'
      BY <1>1, <1>2, <1>4, <2>1, <3>1
    <3> QED BY <3>1, <3>2
  <2>2. CASE i # n + 1
    <3>1. i \in 1..n /\ i \in 0..n /\ i - 1 \in 0..n
      BY <1>1, <2>2
    <3>2. ring'[i] = ring[i]
      BY <1>1, <3>1
    <3>3. o2[i - 1] = o[i - 1] /\ t2[i - 1] = t[i - 1] /\ o2[i] = o[i] /\ t2[i] = t[i]
      BY <1>4, <3>1
    <3> QED BY <1>2, <3>1, <3>2, <3>3
  <2> QED BY <2>1, <2>2
<1> QED BY <1>1, <1>3, <1>4, <1>5, <1>6

\* The part of the invariant that is about the table survives a step that
\* leaves the table alone, whatever records the caller's array gets.
LEMMA TableUntouched ==
  ASSUME TableInv, RecordsAgree, ret'.out \subseteq proc_info, UNCHANGED table
  PROVE  TableInv' /\ RecordsAgree' /\ TypeOK'
<1>1. TableInv'
  BY RewritePreservesInv DEF table, TableInv, TableTypeOK
<1>2. proc_info' = proc_info /\ EventPids' = EventPids
  BY DEF proc_info, EventPids, Group, NoComm
<1>3. TypeOK'
  BY <1>1, <1>2 DEF TableInv, TypeOK
<1>4. RecordsAgree'
  BY <1>2, GetUnchanged DEF RecordsAgree, Agrees
<1> QED BY <1>1, <1>3, <1>4

\* A system call that changes the tasks as its event says preserves the
\* invariant.
LEMMA KernelStep ==
  ASSUME DaemonIndInv, NEW e \in Event, Emit(e), daemonUnchanged,
         task' \in [Pids -> Task], ThreadsTraced',
         ought' \subseteq Pids, threaded' \subseteq Pids,
         Follows(e, ought, threaded, ought', threaded')
  PROVE  DaemonIndInv'
<1>1. DaemonTypeOK /\ TableInv /\ RecordsAgree /\ Backlog
  BY DEF DaemonIndInv, DaemonInv
<1>2. UNCHANGED <<table, ret, refused, unmoved>>
  BY DEF daemonUnchanged
<1>3. /\ ring' \in Seq(Event) /\ Len(ring') <= RingMax
      /\ events' \in 0..MaxEvents /\ lost' \in BOOLEAN
      /\ ~lost' => ~lost /\ ring' = Append(ring, e)
  BY <1>1, EmitStep DEF DaemonTypeOK
<1>4. TableInv' /\ RecordsAgree' /\ TypeOK'
  <2>1. ret'.out \subseteq proc_info
    BY <1>1, <1>2 DEF DaemonTypeOK, TypeOK
  <2> QED BY <1>1, <1>2, <2>1, TableUntouched
<1>5. Backlog'
  BY <1>1, <1>2, <1>3, BacklogGrows DEF DaemonTypeOK
<1>6. Task' = Task /\ Event' = Event
  BY DEF Task, Event, NoTask, EventPids, NoComm
<1>7. DaemonTypeOK'
  BY <1>1, <1>2, <1>3, <1>4, <1>6 DEF DaemonTypeOK
<1> QED BY <1>4, <1>5, <1>7 DEF DaemonIndInv, DaemonInv

\* fork(2).
LEMMA ForkKeeps ==
  ASSUME DaemonIndInv, NEW p \in Pids, NEW c \in Pids, Fork(p, c)
  PROVE  DaemonIndInv'
<1> DEFINE e == [type |-> "FORK", pid |-> p, child_pid |-> c, comm |-> task[p].comm, own |-> FALSE]
<1>1. /\ task \in [Pids -> Task] /\ ought \subseteq Pids /\ threaded \subseteq Pids
      /\ ThreadsTraced
  BY DEF DaemonIndInv, DaemonInv, DaemonTypeOK
<1>2. /\ Alive(p) /\ ~Alive(c)
      /\ task' = [task EXCEPT ![c] = [task[p] EXCEPT !.threads = 0, !.own = FALSE]]
      /\ ought' = IF p \in ought THEN ought \cup {c} ELSE ought \ {c}
      /\ threaded' = IF p \in threaded THEN threaded \cup {c} ELSE threaded \ {c}
      /\ Emit(e) /\ daemonUnchanged
  BY DEF Fork, handle_fork
<1>3. task[p] \in Live /\ task[p].comm \in Comms
  BY <1>1, <1>2, LiveTask DEF Alive
<1>4. e \in Event
  BY <1>3 DEF Event, EventPids
<1>5. p # c
  BY <1>2
<1> DEFINE new == [task[p] EXCEPT !.threads = 0, !.own = FALSE]
<1>6. new \in Task /\ new.threads = 0
  BY <1>3, TaskUpdates DEF Live
<1>7. Follows(e, ought, threaded, ought', threaded')
  BY <1>2, <1>5 DEF Follows
<1> HIDE DEF e, new
<1>8. task' \in [Pids -> Task]
  BY <1>1, <1>2, <1>6 DEF new
<1>9. ThreadsTraced'
  <2> SUFFICES ASSUME NEW q \in Pids, task'[q].threads > 0 PROVE q \in threaded'
    BY DEF ThreadsTraced
  <2>1. task' = [task EXCEPT ![c] = new]
    BY <1>2 DEF new
  <2>2. q # c
    BY <1>1, <1>6, <2>1
  <2>3. task'[q] = task[q]
    BY <1>1, <2>1, <2>2
  <2>4. q \in threaded
    BY <1>1, <2>3 DEF ThreadsTraced
  <2> QED BY <1>2, <2>2, <2>4
<1>10. ought' \subseteq Pids /\ threaded' \subseteq Pids
  BY <1>1, <1>2
<1> QED BY <1>2, <1>4, <1>7, <1>8, <1>9, <1>10, KernelStep

\* clone(2) of a thread.
LEMMA StartThreadKeeps ==
  ASSUME DaemonIndInv, NEW p \in Pids, StartThread(p)
  PROVE  DaemonIndInv'
<1> DEFINE e == [type |-> "FORK", pid |-> p, child_pid |-> p, comm |-> task[p].comm, own |-> FALSE]
           new == [task[p] EXCEPT !.threads = task[p].threads + 1]
<1>1. /\ task \in [Pids -> Task] /\ ought \subseteq Pids /\ threaded \subseteq Pids
      /\ ThreadsTraced
  BY DEF DaemonIndInv, DaemonInv, DaemonTypeOK
<1>2. /\ Alive(p) /\ task[p].threads < MaxThreads
      /\ task' = [task EXCEPT ![p] = new]
      /\ threaded' = threaded \cup {p} /\ ought' = ought
      /\ Emit(e) /\ daemonUnchanged
  BY DEF StartThread, handle_fork
<1>3. task[p] \in Live /\ task[p].comm \in Comms /\ task[p].threads \in 0..MaxThreads
  BY <1>1, <1>2, LiveTask DEF Alive
<1>4. e \in Event
  BY <1>3 DEF Event, EventPids
<1>5. task[p].threads + 1 \in 0..MaxThreads
  BY <1>2, <1>3, DaemonAssumption
<1>6. new \in Task
  BY <1>3, <1>5, TaskUpdates
<1>7. Follows(e, ought, threaded, ought', threaded')
  BY <1>2 DEF Follows
<1> HIDE DEF e, new
<1>8. task' \in [Pids -> Task]
  BY <1>1, <1>2, <1>6
<1>9. ThreadsTraced'
  BY <1>1, <1>2 DEF ThreadsTraced
<1> QED BY <1>1, <1>2, <1>4, <1>7, <1>8, <1>9, KernelStep

\* exit(2) of one thread: its task is among those that had threads.
LEMMA EndThreadKeeps ==
  ASSUME DaemonIndInv, NEW p \in Pids, EndThread(p)
  PROVE  DaemonIndInv'
<1> DEFINE e == [type |-> "EXIT", pid |-> p, child_pid |-> 0, comm |-> NoComm, own |-> FALSE]
           new == [task[p] EXCEPT !.threads = task[p].threads - 1]
<1>1. /\ task \in [Pids -> Task] /\ ought \subseteq Pids /\ threaded \subseteq Pids
      /\ ThreadsTraced
  BY DEF DaemonIndInv, DaemonInv, DaemonTypeOK
<1>2. /\ Alive(p) /\ task[p].threads > 0
      /\ task' = [task EXCEPT ![p] = new]
      /\ threaded' = threaded /\ ought' = ought
      /\ Emit(e) /\ daemonUnchanged
  BY DEF EndThread, handle_exit
<1>3. task[p] \in Live /\ task[p].threads \in 0..MaxThreads
  BY <1>1, <1>2, LiveTask DEF Alive
<1>4. e \in Event
  BY DEF Event, EventPids
<1>5. task[p].threads - 1 \in 0..MaxThreads
  BY <1>2, <1>3, DaemonAssumption
<1>6. new \in Task
  BY <1>3, <1>5, TaskUpdates
<1>7. p \in threaded
  BY <1>1, <1>2 DEF ThreadsTraced
<1>8. Follows(e, ought, threaded, ought', threaded')
  BY <1>2, <1>7 DEF Follows
<1> HIDE DEF e, new
<1>9. task' \in [Pids -> Task]
  BY <1>1, <1>2, <1>6
<1>10. ThreadsTraced'
  BY <1>1, <1>2, <1>7 DEF ThreadsTraced
<1> QED BY <1>1, <1>2, <1>4, <1>8, <1>9, <1>10, KernelStep

\* execve(2).
LEMMA ExecKeeps ==
  ASSUME DaemonIndInv, NEW p \in Pids, NEW comm \in Comms, Exec(p, comm)
  PROVE  DaemonIndInv'
<1> DEFINE e == [type |-> "EXEC", pid |-> p, child_pid |-> 0, comm |-> comm, own |-> task[p].own]
           new == [task[p] EXCEPT !.comm = comm]
<1>1. /\ task \in [Pids -> Task] /\ ought \subseteq Pids /\ threaded \subseteq Pids
      /\ ThreadsTraced
  BY DEF DaemonIndInv, DaemonInv, DaemonTypeOK
<1>2. /\ Alive(p)
      /\ task' = [task EXCEPT ![p] = new]
      /\ threaded' = threaded
      /\ ought' = IF comm \in ProtectedComms /\ ~task[p].own THEN ought \cup {p} ELSE ought
      /\ Emit(e) /\ daemonUnchanged
  BY DEF Exec, handle_exec
<1>3. task[p] \in Live /\ task[p].own \in BOOLEAN
  BY <1>1, <1>2, LiveTask DEF Alive
<1>4. e \in Event
  BY <1>3 DEF Event, EventPids
<1>5. new \in Task /\ new.threads = task[p].threads
  BY <1>3, TaskUpdates DEF Live
<1>6. Follows(e, ought, threaded, ought', threaded')
  <2>1. e.type = "EXEC" /\ e.comm = comm /\ e.own = task[p].own /\ e.pid = p
    OBVIOUS
  <2> HIDE DEF e
  <2> QED BY <1>2, <2>1 DEF Follows
<1> HIDE DEF e, new
<1>7. task' \in [Pids -> Task]
  BY <1>1, <1>2, <1>5
<1>8. ThreadsTraced'
  BY <1>1, <1>2, <1>5 DEF ThreadsTraced
<1>9. ought' \subseteq Pids
  BY <1>1, <1>2
<1> QED BY <1>1, <1>2, <1>4, <1>6, <1>7, <1>8, <1>9, KernelStep

\* exit_group(2).
LEMMA ExitKeeps ==
  ASSUME DaemonIndInv, NEW p \in Pids, Exit(p)
  PROVE  DaemonIndInv'
<1> DEFINE e == [type |-> "EXIT", pid |-> p, child_pid |-> 0, comm |-> NoComm, own |-> FALSE]
<1>1. /\ task \in [Pids -> Task] /\ ought \subseteq Pids /\ threaded \subseteq Pids
      /\ ThreadsTraced
  BY DEF DaemonIndInv, DaemonInv, DaemonTypeOK
<1>2. /\ task' = [task EXCEPT ![p] = NoTask]
      /\ ought' = ought \ {p} /\ threaded' = threaded \ {p}
      /\ Emit(e) /\ daemonUnchanged
  BY DEF Exit, handle_exit
<1>3. e \in Event
  BY DEF Event, EventPids
<1>4. Follows(e, ought, threaded, ought', threaded')
  BY <1>2 DEF Follows
<1> HIDE DEF e
<1>5. task' \in [Pids -> Task]
  BY <1>1, <1>2 DEF Task
<1>6. ThreadsTraced'
  BY <1>1, <1>2 DEF ThreadsTraced, NoTask
<1>7. ought' \subseteq Pids /\ threaded' \subseteq Pids
  BY <1>1, <1>2
<1> QED BY <1>2, <1>3, <1>4, <1>5, <1>6, <1>7, KernelStep

-----------------------------------------------------------------------------
(* The daemon's side.                                                      *)

\* handle_event takes the oldest event off the backlog, if it brings the
\* table's marks to where that event leads.
LEMMA BacklogShrinks ==
  ASSUME Backlog, ring \in Seq(Event), ring # <<>>, ring' = Tail(ring),
         UNCHANGED <<lost, ought, threaded>>, refused => refused',
         ASSUME NEW o \in SUBSET Pids, NEW t \in SUBSET Pids, NEW o2 \in SUBSET Pids, NEW t2 \in SUBSET Pids,
                ~refused', Marks(o, t), Follows(Head(ring), o, t, o2, t2), NEW p \in Pids \ t2
         PROVE  process_get(p)'.is_protected <=> p \in o2
  PROVE  Backlog'
<1> SUFFICES ASSUME ~lost', ~refused'
    PROVE \E o, t \in [0..Len(ring') -> SUBSET Pids] :
      /\ \A p \in Pids \ t[0] : process_get(p)'.is_protected <=> p \in o[0]
      /\ o[Len(ring')] = ought' /\ t[Len(ring')] = threaded'
      /\ \A i \in 1..Len(ring') : Follows(ring'[i], o[i - 1], t[i - 1], o[i], t[i])
  BY DEF Backlog, Marks, Follows
<1> DEFINE n == Len(ring)
<1>1. /\ ~lost /\ ~refused /\ n \in Nat \ {0} /\ Len(ring') = n - 1
      /\ Head(ring) = ring[1] /\ \A i \in 1..n - 1 : ring'[i] = ring[i + 1]
  OBVIOUS
<1>2. PICK o \in [0..n -> SUBSET Pids], t \in [0..n -> SUBSET Pids] :
      /\ Marks(o[0], t[0])
      /\ o[n] = ought /\ t[n] = threaded
      /\ \A i \in 1..n : Follows(ring[i], o[i - 1], t[i - 1], o[i], t[i])
  BY <1>1 DEF Backlog
<1> DEFINE o2 == [i \in 0..n - 1 |-> o[i + 1]]
           t2 == [i \in 0..n - 1 |-> t[i + 1]]
<1>3. o2 \in [0..Len(ring') -> SUBSET Pids] /\ t2 \in [0..Len(ring') -> SUBSET Pids]
  BY <1>1, <1>2
<1>4. \A i \in 0..n - 1 : o2[i] = o[i + 1] /\ t2[i] = t[i + 1]
  BY <1>1, <1>2
<1> HIDE DEF o2, t2
<1>5. \A p \in Pids \ t2[0] : process_get(p)'.is_protected <=> p \in o2[0]
  <2>0. 0 \in 0..n /\ 1 \in 0..n /\ 0 \in 0..n - 1 /\ 0 + 1 = 1
    BY <1>1
  <2>1. /\ o2[0] = o[1] /\ t2[0] = t[1]
        /\ o[0] \in SUBSET Pids /\ t[0] \in SUBSET Pids /\ o[1] \in SUBSET Pids /\ t[1] \in SUBSET Pids
    BY <1>4, <2>0
  <2>2. 1 \in 1..n /\ 1 - 1 = 0
    BY <1>1
  <2>3. Follows(Head(ring), o[0], t[0], o[1], t[1])
    BY <1>1, <1>2, <2>2
  <2> QED BY <1>2, <2>1, <2>3
<1>6. ASSUME NEW i \in 1..Len(ring')
      PROVE  Follows(ring'[i], o2[i - 1], t2[i - 1], o2[i], t2[i])
  <2>1. i \in 1..n - 1 /\ i \in 0..n - 1 /\ i - 1 \in 0..n - 1 /\ (i - 1) + 1 = i /\ i + 1 \in 1..n /\ (i + 1) - 1 = i
    BY <1>1
  <2>2. o2[i - 1] = o[i] /\ t2[i - 1] = t[i] /\ o2[i] = o[i + 1] /\ t2[i] = t[i + 1]
    BY <1>4, <2>1
  <2>3. ring'[i] = ring[i + 1]
    BY <1>1, <2>1
  <2> QED BY <1>2, <2>1, <2>2, <2>3
<1>7. o2[Len(ring')] = ought' /\ t2[Len(ring')] = threaded'
  BY <1>1, <1>2, <1>4
<1> QED BY <1>3, <1>5, <1>6, <1>7

\* A cgroup move, done or failed, changes nothing of a task but its cgroup.
LEMMA MoveKeeps ==
  ASSUME task \in [Pids -> Task], unmoved \in BOOLEAN, ThreadsTraced, UNCHANGED threaded,
         NEW condition \in BOOLEAN, NEW pid \in EventPids, condition => pid \in Pids,
         MoveIf(condition, pid)
  PROVE  task' \in [Pids -> Task] /\ unmoved' \in BOOLEAN /\ ThreadsTraced'
<1>1. CASE task' = task /\ unmoved' \in BOOLEAN
  BY <1>1 DEF ThreadsTraced
<1>2. CASE pid \in Pids /\ Alive(pid) /\ task' = [task EXCEPT ![pid].protected = TRUE] /\ unmoved' = unmoved
  <2> DEFINE new == [task[pid] EXCEPT !.protected = TRUE]
  <2>1. task[pid] \in Live
    BY <1>2, LiveTask DEF Alive
  <2>2. new \in Task /\ new.threads = task[pid].threads
    BY <2>1, TaskUpdates DEF Live
  <2>3. task' = [task EXCEPT ![pid] = new]
    BY <1>2
  <2> HIDE DEF new
  <2> QED BY <1>2, <2>2, <2>3 DEF ThreadsTraced
<1>3. MoveToProtected(pid) \/ UNCHANGED <<task, unmoved>>
  BY DEF MoveIf
<1>4. condition \/ UNCHANGED <<task, unmoved>>
  BY DEF MoveIf
<1> QED BY <1>1, <1>2, <1>3, <1>4 DEF MoveToProtected

\* Applying the policy keeps a record well formed, adds protection exactly
\* for a protected name, and leaves the signs of protection in agreement.
LEMMA ClassifiedSpec ==
  ASSUME NEW rec \in proc_info, rec.inherited_protected => rec.is_protected
  PROVE  /\ Classified(rec) \in proc_info
         /\ Classified(rec).used = rec.used /\ Classified(rec).pid = rec.pid
         /\ Classified(rec).is_protected <=> rec.is_protected \/ rec.comm \in ProtectedComms
         /\ Agrees(Classified(rec))
<1> DEFINE b == rec.is_protected \/ policy_is_protected(rec)
           marked == [rec EXCEPT !.is_protected = b]
           g == policy_decide_group(marked)
<1>1. Classified(rec) = [marked EXCEPT !.group = g]
  BY DEF Classified
<1>2. b \in BOOLEAN /\ (b <=> rec.is_protected \/ rec.comm \in ProtectedComms)
  BY DEF policy_is_protected, proc_info
<1>3. /\ marked \in proc_info /\ marked.is_protected = b /\ marked.comm = rec.comm
      /\ marked.used = rec.used /\ marked.pid = rec.pid
      /\ marked.inherited_protected = rec.inherited_protected
  BY <1>2 DEF proc_info
<1>4. g \in Group /\ (g = "PROTECTED" => b)
  <2>1. g \in {"IGNORED", "PROTECTED", "BACKGROUND"}
    BY DEF policy_decide_group
  <2>2. policy_is_protected(marked) <=> policy_is_protected(rec)
    BY <1>3 DEF policy_is_protected
  <2>3. g = "PROTECTED" => b
    BY <1>3, <2>2 DEF policy_decide_group
  <2> QED BY <2>1, <2>3 DEF Group
<1> HIDE DEF marked, g, b
<1>5. /\ Classified(rec) \in proc_info /\ Classified(rec).is_protected = b
      /\ Classified(rec).used = rec.used /\ Classified(rec).pid = rec.pid
      /\ Classified(rec).inherited_protected = rec.inherited_protected
      /\ Classified(rec).group = g
  BY <1>1, <1>3, <1>4 DEF proc_info
<1> QED BY <1>2, <1>4, <1>5 DEF Agrees

\* The records exec writes: exec keeps what the pid's record said.
LEMMA ExecWrites ==
  ASSUME TableInv, RecordsAgree, NEW pid \in EventPids, NEW comm \in Comms \cup {NoComm}, NEW own \in BOOLEAN
  PROVE  LET rec == IF own THEN ExecRecord(pid, comm) ELSE Classified(ExecRecord(pid, comm))
         IN  /\ rec \in proc_info /\ rec.used /\ rec.pid = pid /\ Agrees(rec)
             /\ rec.is_protected <=>
                  process_get(pid).is_protected \/ (comm \in ProtectedComms /\ ~own)
<1> DEFINE plain == ExecRecord(pid, comm)
<1>1. plain \in proc_info /\ plain.used /\ plain.pid = pid
  BY RecordTypes
<1>2. plain.is_protected = process_get(pid).is_protected /\ plain.comm = comm
  BY DEF ExecRecord
<1>3. Agrees(plain)
  <2>1. CASE Tracked(pid)
    BY <2>1 DEF RecordsAgree, Agrees, ExecRecord
  <2>2. CASE ~Tracked(pid)
    BY <2>2 DEF Agrees, ExecRecord, process_get, Zeroed
  <2> QED BY <2>1, <2>2
<1> HIDE DEF plain
<1>4. CASE own
  BY <1>1, <1>2, <1>3, <1>4 DEF plain
<1>5. CASE ~own
  <2>1. plain.inherited_protected => plain.is_protected
    BY <1>3 DEF Agrees
  <2>2. /\ Classified(plain) \in proc_info
        /\ Classified(plain).used = plain.used /\ Classified(plain).pid = plain.pid
        /\ Classified(plain).is_protected <=> plain.is_protected \/ plain.comm \in ProtectedComms
        /\ Agrees(Classified(plain))
    BY <1>1, <2>1, ClassifiedSpec
  <2> QED BY <1>1, <1>2, <1>5, <2>2 DEF plain
<1> QED BY <1>4, <1>5

\* What an upsert of a well-formed record does to the daemon's invariant on
\* the table.
LEMMA UpsertKeepsRecords ==
  ASSUME TableInv, RecordsAgree, NEW pid \in EventPids, NEW rec \in proc_info,
         rec.used, rec.pid = pid, Agrees(rec), Upsert(pid, rec)
  PROVE  /\ TableInv' /\ RecordsAgree'
         /\ CanUpsert(pid) => /\ process_get(pid)' = rec
                              /\ \A q \in EventPids \ {pid} : process_get(q)' = process_get(q)
<1>1. TableInv'
  BY UpsertPreservesInv
<1>2. EventPids' = EventPids
  BY DEF EventPids
<1>3. CASE CanUpsert(pid)
  <2>1. Store(pid, rec)
    BY <1>3 DEF Upsert
  <2>2. /\ process_get(pid)' = rec
        /\ \A q \in EventPids \ {pid} : process_get(q)' = process_get(q) /\ (Tracked(q)' <=> Tracked(q))
    BY <1>3, <2>1, GetAfterStore
  <2>3. RecordsAgree'
    BY <1>2, <2>2 DEF RecordsAgree, Agrees
  <2> QED BY <1>1, <2>2, <2>3
<1>4. CASE ~CanUpsert(pid)
  <2>1. UNCHANGED table
    BY <1>4 DEF Upsert
  <2>2. RecordsAgree'
    BY <1>2, <2>1, GetUnchanged DEF RecordsAgree, Agrees
  <2> QED BY <1>1, <1>4, <2>2
<1> QED BY <1>3, <1>4

\* A refused or unfound pid is not one of Pids.
LEMMA GrantedPid ==
  ASSUME NEW pid \in EventPids, CanUpsert(pid)
  PROVE  pid \in Pids
<1>1. pid # 0
  BY DEF CanUpsert, find_upsert_slot
<1> QED BY <1>1 DEF EventPids

\* A lookup that finds a protected record finds a used one.
LEMMA ProtectedIsUsed ==
  ASSUME NEW pid \in EventPids, process_get(pid).is_protected
  PROVE  process_get(pid).used
<1>1. Tracked(pid)
  BY DEF process_get, Zeroed
<1> QED BY <1>1, FoundHolds DEF process_get, Holds

\* The exec path of handle_event: the record it writes carries the mark the
\* pid had, and the one its new name earns.
LEMMA HandleExecKeeps ==
  ASSUME DaemonIndInv, handle_event, NEW e \in Event, e = Head(ring), e.type = "EXEC", HandleExec(e)
  PROVE  /\ TableInv' /\ RecordsAgree' /\ ThreadsTraced'
         /\ task' \in [Pids -> Task] /\ unmoved' \in BOOLEAN /\ refused' \in BOOLEAN
         /\ Backlog'
<1> DEFINE plain == ExecRecord(e.pid, e.comm)
           rec == IF e.own THEN plain ELSE Classified(plain)
           moves == CanUpsert(e.pid) /\ ~e.own /\ rec.group = "PROTECTED"
<1>1. /\ DaemonTypeOK /\ TableInv /\ RecordsAgree /\ ThreadsTraced /\ Backlog
  BY DEF DaemonIndInv, DaemonInv
<1>2. e.pid \in EventPids /\ e.pid \in Pids /\ e.comm \in Comms \cup {NoComm} /\ e.own \in BOOLEAN
  BY DEF Event, EventPids
<1>3. /\ rec \in proc_info /\ rec.used /\ rec.pid = e.pid /\ Agrees(rec)
      /\ rec.is_protected <=>
           process_get(e.pid).is_protected \/ (e.comm \in ProtectedComms /\ ~e.own)
  BY <1>1, <1>2, ExecWrites
<1>4. /\ Upsert(e.pid, rec) /\ MoveIf(moves, e.pid)
      /\ refused' = (refused \/ ~CanUpsert(e.pid))
  BY DEF HandleExec
<1>5. /\ ring # <<>> /\ ring' = Tail(ring)
      /\ UNCHANGED <<ret, events, lost, ought, threaded>>
  BY DEF handle_event
<1>6. moves \in BOOLEAN
  OBVIOUS
<1> HIDE DEF rec, moves, plain
<1>7. /\ TableInv' /\ RecordsAgree'
      /\ CanUpsert(e.pid) => /\ process_get(e.pid)' = rec
                             /\ \A q \in EventPids \ {e.pid} : process_get(q)' = process_get(q)
  BY <1>1, <1>2, <1>3, <1>4, UpsertKeepsRecords
<1>8. task' \in [Pids -> Task] /\ unmoved' \in BOOLEAN /\ ThreadsTraced'
  BY <1>1, <1>2, <1>4, <1>5, <1>6, MoveKeeps DEF DaemonTypeOK
<1>9. refused' \in BOOLEAN /\ (refused => refused') /\ (~refused' => CanUpsert(e.pid))
  BY <1>1, <1>4 DEF DaemonTypeOK
<1>10. ASSUME NEW o \in SUBSET Pids, NEW t \in SUBSET Pids, NEW o2 \in SUBSET Pids, NEW t2 \in SUBSET Pids,
              ~refused', Marks(o, t), Follows(e, o, t, o2, t2), NEW p \in Pids \ t2
       PROVE  process_get(p)'.is_protected <=> p \in o2
  <2>1. /\ t2 = t
        /\ o2 = IF e.comm \in ProtectedComms /\ ~e.own THEN o \cup {e.pid} ELSE o
    BY <1>10 DEF Follows
  <2>2. CanUpsert(e.pid)
    BY <1>9, <1>10
  <2>3. process_get(p).is_protected <=> p \in o
    BY <1>10, <2>1 DEF Marks
  <2>4. CASE p = e.pid
    <3>1. process_get(p)' = rec
      BY <1>7, <2>2, <2>4
    <3> QED BY <1>3, <2>1, <2>3, <2>4, <3>1
  <2>5. CASE p # e.pid
    <3>1. process_get(p)' = process_get(p)
      BY <1>7, <2>2, <2>5 DEF EventPids
    <3> QED BY <2>1, <2>3, <2>5, <3>1
  <2> QED BY <2>4, <2>5
<1>11. Backlog'
  BY <1>1, <1>5, <1>9, <1>10, BacklogShrinks DEF DaemonTypeOK
<1> QED BY <1>7, <1>8, <1>9, <1>11

\* The fork path: the child is marked exactly when its parent is.
LEMMA HandleForkKeeps ==
  ASSUME DaemonIndInv, handle_event, NEW e \in Event, e = Head(ring), e.type = "FORK", HandleFork(e)
  PROVE  /\ TableInv' /\ RecordsAgree' /\ ThreadsTraced'
         /\ task' \in [Pids -> Task] /\ unmoved' \in BOOLEAN /\ refused' \in BOOLEAN
         /\ Backlog'
<1> DEFINE c == e.child_pid
           rec == ForkRecord(e.pid, c, e.comm)
           moves == CanUpsert(c) /\ Inherits(e.pid, c)
<1>1. /\ DaemonTypeOK /\ TableInv /\ RecordsAgree /\ ThreadsTraced /\ Backlog
  BY DEF DaemonIndInv, DaemonInv
<1>2. e.pid \in EventPids /\ e.pid \in Pids /\ e.comm \in Comms \cup {NoComm} /\ c \in EventPids
  BY DEF Event, EventPids
<1>3. /\ rec \in proc_info /\ rec.used /\ rec.pid = c /\ rec.is_protected = Inherits(e.pid, c)
      /\ Agrees(rec)
  <2>1. rec \in proc_info /\ rec.used /\ rec.pid = c
    BY <1>1, <1>2, RecordTypes
  <2>2. rec.is_protected = Inherits(e.pid, c) /\ Agrees(rec)
    BY DEF ForkRecord, Agrees
  <2> QED BY <2>1, <2>2
<1>4. /\ Upsert(c, rec) /\ MoveIf(moves, c)
      /\ refused' = (refused \/ ~CanUpsert(c))
  BY DEF HandleFork
<1>5. /\ ring # <<>> /\ ring' = Tail(ring)
      /\ UNCHANGED <<ret, events, lost, ought, threaded>>
  BY DEF handle_event
<1>6. moves \in BOOLEAN /\ (moves => c \in Pids)
  BY <1>2, GrantedPid
<1> HIDE DEF rec, moves, c
<1>7. /\ TableInv' /\ RecordsAgree'
      /\ CanUpsert(c) => /\ process_get(c)' = rec
                         /\ \A q \in EventPids \ {c} : process_get(q)' = process_get(q)
  BY <1>1, <1>2, <1>3, <1>4, UpsertKeepsRecords
<1>8. task' \in [Pids -> Task] /\ unmoved' \in BOOLEAN /\ ThreadsTraced'
  BY <1>1, <1>2, <1>4, <1>5, <1>6, MoveKeeps DEF DaemonTypeOK
<1>9. refused' \in BOOLEAN /\ (refused => refused') /\ (~refused' => CanUpsert(c))
  BY <1>1, <1>4 DEF DaemonTypeOK
<1>10. ASSUME NEW o \in SUBSET Pids, NEW t \in SUBSET Pids, NEW o2 \in SUBSET Pids, NEW t2 \in SUBSET Pids,
              ~refused', Marks(o, t), Follows(e, o, t, o2, t2), NEW p \in Pids \ t2
       PROVE  process_get(p)'.is_protected <=> p \in o2
  <2>1. CanUpsert(c)
    BY <1>9, <1>10
  <2>2. CASE p # c
    <3>1. process_get(p)' = process_get(p)
      BY <1>7, <2>1, <2>2 DEF EventPids
    <3>2. p \notin t /\ (p \in o2 <=> p \in o)
      BY <1>10, <2>2 DEF Follows, c
    <3> QED BY <1>10, <3>1, <3>2 DEF Marks
  <2>3. CASE p = c
    <3>1. /\ c # e.pid
          /\ o2 = IF e.pid \in o THEN o \cup {c} ELSE o \ {c}
          /\ t2 = IF e.pid \in t THEN t \cup {c} ELSE t \ {c}
      BY <1>10, <2>3 DEF Follows, c
    <3>2. e.pid \notin t /\ (p \in o2 <=> e.pid \in o)
      BY <1>10, <2>3, <3>1
    <3>3. process_get(e.pid).is_protected <=> e.pid \in o
      BY <1>2, <1>10, <3>2 DEF Marks
    <3>4. Inherits(e.pid, c) <=> process_get(e.pid).is_protected
      BY <1>2, <3>1, ProtectedIsUsed DEF Inherits
    <3>5. process_get(p)'.is_protected <=> Inherits(e.pid, c)
      BY <1>3, <1>7, <2>1, <2>3
    <3> QED BY <3>2, <3>3, <3>4, <3>5
  <2> QED BY <2>2, <2>3
<1>11. Backlog'
  BY <1>1, <1>5, <1>9, <1>10, BacklogShrinks DEF DaemonTypeOK
<1> QED BY <1>7, <1>8, <1>9, <1>11

\* The exit path: the pid's record goes, whoever's exit it was.
LEMMA HandleExitKeeps ==
  ASSUME DaemonIndInv, handle_event, NEW e \in Event, e = Head(ring), e.type = "EXIT", HandleExit(e)
  PROVE  /\ TableInv' /\ RecordsAgree' /\ ThreadsTraced'
         /\ task' \in [Pids -> Task] /\ unmoved' \in BOOLEAN /\ refused' \in BOOLEAN
         /\ Backlog'
<1>1. /\ DaemonTypeOK /\ TableInv /\ RecordsAgree /\ ThreadsTraced /\ Backlog
  BY DEF DaemonIndInv, DaemonInv
<1>2. e.pid \in EventPids /\ e.pid \in Pids /\ EventPids' = EventPids
  BY DEF Event, EventPids
<1>3. Drop(e.pid) /\ UNCHANGED <<task, refused, unmoved>>
  BY DEF HandleExit
<1>4. /\ ring # <<>> /\ ring' = Tail(ring)
      /\ UNCHANGED <<ret, events, lost, ought, threaded>>
  BY DEF handle_event
<1>5. TableInv'
  BY <1>1, <1>2, <1>3, DropPreservesInv
<1>6. /\ ~Tracked(e.pid)' /\ process_get(e.pid)' = Zeroed
      /\ \A q \in EventPids \ {e.pid} : process_get(q)' = process_get(q) /\ (Tracked(q)' <=> Tracked(q))
  BY <1>1, <1>2, <1>3, GetAfterDrop
<1>7. RecordsAgree'
  BY <1>1, <1>2, <1>6 DEF RecordsAgree, Agrees
<1>8. ThreadsTraced' /\ task' \in [Pids -> Task] /\ unmoved' \in BOOLEAN /\ refused' \in BOOLEAN
  BY <1>1, <1>3, <1>4 DEF ThreadsTraced, DaemonTypeOK
<1>9. ASSUME NEW o \in SUBSET Pids, NEW t \in SUBSET Pids, NEW o2 \in SUBSET Pids, NEW t2 \in SUBSET Pids,
             ~refused', Marks(o, t), Follows(e, o, t, o2, t2), NEW p \in Pids \ t2
      PROVE  process_get(p)'.is_protected <=> p \in o2
  <2>1. CASE p # e.pid
    <3>1. process_get(p)' = process_get(p)
      BY <1>6, <2>1 DEF EventPids
    <3>2. p \notin t /\ (p \in o2 <=> p \in o)
      BY <1>9, <2>1 DEF Follows
    <3> QED BY <1>9, <3>1, <3>2 DEF Marks
  <2>2. CASE p = e.pid
    <3>1. ~process_get(p)'.is_protected
      BY <1>6, <2>2 DEF Zeroed
    <3>2. p \notin o2
      BY <1>9, <2>2 DEF Follows
    <3> QED BY <3>1, <3>2
  <2> QED BY <2>1, <2>2
<1>10. Backlog'
  BY <1>1, <1>3, <1>4, <1>9, BacklogShrinks DEF DaemonTypeOK
<1> QED BY <1>5, <1>7, <1>8, <1>10

\* Whatever event is next, handle_event preserves the invariant.
LEMMA HandleEventKeeps ==
  ASSUME DaemonIndInv, handle_event
  PROVE  DaemonIndInv'
<1>1. /\ DaemonTypeOK /\ ring \in Seq(Event) /\ Len(ring) <= RingMax /\ ret.out \subseteq proc_info
  BY DEF DaemonIndInv, DaemonInv, DaemonTypeOK, TypeOK
<1>2. /\ ring # <<>> /\ ring' = Tail(ring)
      /\ UNCHANGED <<ret, events, lost, ought, threaded>>
      /\ \/ Head(ring).type = "EXEC" /\ HandleExec(Head(ring))
         \/ Head(ring).type = "FORK" /\ HandleFork(Head(ring))
         \/ Head(ring).type = "EXIT" /\ HandleExit(Head(ring))
  BY Zenon DEF handle_event
<1>3. Head(ring) \in Event /\ ring' \in Seq(Event) /\ Len(ring') <= RingMax
  BY <1>1, <1>2, DaemonAssumption
<1>4. /\ TableInv' /\ RecordsAgree' /\ ThreadsTraced'
      /\ task' \in [Pids -> Task] /\ unmoved' \in BOOLEAN /\ refused' \in BOOLEAN
      /\ Backlog'
  BY <1>2, <1>3, HandleExecKeeps, HandleForkKeeps, HandleExitKeeps
<1>5. proc_info' = proc_info /\ Task' = Task /\ Event' = Event
  BY DEF proc_info, Task, Event, NoTask, EventPids, Group, NoComm
<1>6. TypeOK'
  BY <1>1, <1>2, <1>4, <1>5 DEF TypeOK, TableInv
<1>7. DaemonTypeOK'
  BY <1>1, <1>2, <1>3, <1>4, <1>5, <1>6 DEF DaemonTypeOK
<1> QED BY <1>4, <1>7 DEF DaemonIndInv, DaemonInv

-----------------------------------------------------------------------------
(* The theorems.                                                           *)

\* The daemon starts with an empty table and an empty ring.
LEMMA DaemonInitInv == DaemonInit => DaemonIndInv
<1> SUFFICES ASSUME DaemonInit PROVE DaemonIndInv
  OBVIOUS
<1>1. TableInv /\ TableInit /\ ret.out \subseteq proc_info
  BY InitInv DEF DaemonInit, Init, Returned
<1>2. \A q \in EventPids : process_get(q) = Zeroed /\ ~Tracked(q)
  BY <1>1, GetAfterReset
<1>3. RecordsAgree
  BY <1>2 DEF RecordsAgree
<1>4. task \in [Pids -> Task] /\ \A p \in Pids : task[p].threads = 0
  BY DEF DaemonInit
<1>5. ThreadsTraced
  BY <1>4 DEF ThreadsTraced
<1>6. DaemonTypeOK
  <2>1. /\ ring = <<>> /\ events = 0 /\ lost = FALSE /\ refused = FALSE /\ unmoved = FALSE
        /\ ought = {} /\ threaded = {}
    BY DEF DaemonInit
  <2>2. ring \in Seq(Event) /\ Len(ring) <= RingMax /\ events \in 0..MaxEvents
    BY <2>1, DaemonAssumption
  <2> QED BY <1>1, <1>4, <2>1, <2>2 DEF DaemonTypeOK, TypeOK, TableInv
<1>7. Backlog
  <2> DEFINE o == [i \in 0..0 |-> {}]
  <2>1. Len(ring) = 0 /\ ought = {} /\ threaded = {}
    BY DEF DaemonInit
  <2>2. o \in [0..Len(ring) -> SUBSET Pids] /\ o[0] = {} /\ o[Len(ring)] = {}
    BY <2>1
  <2>3. Marks({}, {})
    BY <1>2 DEF Marks, EventPids, Zeroed
  <2> HIDE DEF o
  <2>4. \A i \in 1..Len(ring) : FALSE
    BY <2>1
  <2> QED BY <2>1, <2>2, <2>3, <2>4 DEF Backlog
<1> QED BY <1>1, <1>3, <1>5, <1>6, <1>7 DEF DaemonIndInv, DaemonInv

\* A step that changes at most the caller's array of records, as taking a
\* snapshot does, preserves the invariant.
LEMMA DaemonStutter ==
  ASSUME DaemonIndInv, ret'.out \subseteq proc_info, UNCHANGED table,
         UNCHANGED <<task, ring, events, lost, refused, unmoved, ought, threaded>>
  PROVE  DaemonIndInv'
<1>1. UNCHANGED <<task, ring, events, lost, refused, unmoved>> /\ UNCHANGED <<ought, threaded>>
  OBVIOUS
<1>2. /\ DaemonTypeOK /\ TableInv /\ RecordsAgree /\ ThreadsTraced /\ Backlog
  BY DEF DaemonIndInv, DaemonInv
<1>3. TableInv' /\ RecordsAgree' /\ TypeOK'
  BY <1>2, TableUntouched
<1>4. Task' = Task /\ Event' = Event
  BY DEF Task, Event, NoTask, EventPids, NoComm
<1>5. DaemonTypeOK' /\ ThreadsTraced'
  BY <1>1, <1>2, <1>3, <1>4 DEF DaemonTypeOK, ThreadsTraced
<1>6. \A p \in Pids : process_get(p)' = process_get(p)
  BY <1>1, GetUnchanged DEF EventPids
<1>7. Backlog'
  <2> SUFFICES ASSUME ~lost', ~refused'
      PROVE \E o, t \in [0..Len(ring') -> SUBSET Pids] :
        /\ \A p \in Pids \ t[0] : process_get(p)'.is_protected <=> p \in o[0]
        /\ o[Len(ring')] = ought' /\ t[Len(ring')] = threaded'
        /\ \A i \in 1..Len(ring') : Follows(ring'[i], o[i - 1], t[i - 1], o[i], t[i])
    BY DEF Backlog, Marks, Follows
  <2>0. ~lost /\ ~refused
    <3>1. lost' = lost /\ refused' = refused
      BY <1>1
    <3>2. lost \in BOOLEAN /\ refused \in BOOLEAN
      BY <1>2 DEF DaemonTypeOK
    <3> QED BY <3>1, <3>2
  <2>1. PICK o \in [0..Len(ring) -> SUBSET Pids], t \in [0..Len(ring) -> SUBSET Pids] :
        /\ Marks(o[0], t[0])
        /\ o[Len(ring)] = ought /\ t[Len(ring)] = threaded
        /\ \A i \in 1..Len(ring) : Follows(ring[i], o[i - 1], t[i - 1], o[i], t[i])
    BY <1>2, <2>0 DEF Backlog
  <2>2. \A p \in Pids \ t[0] : process_get(p)'.is_protected <=> p \in o[0]
    BY <1>6, <2>1 DEF Marks
  <2> QED BY <1>1, <2>1, <2>2
<1> QED BY <1>3, <1>5, <1>7 DEF DaemonIndInv, DaemonInv

\* So does every step of the kernel and of the daemon.
LEMMA DaemonNextKeeps == ASSUME DaemonIndInv, DaemonNext PROVE DaemonIndInv'
BY ForkKeeps, StartThreadKeeps, EndThreadKeeps, ExecKeeps, ExitKeeps, HandleEventKeeps DEF DaemonNext

\* The inductive invariant holds in every reachable state: system calls,
\* lost events, refusals and failed moves in any order.
THEOREM DaemonInductive == DaemonSpec => []DaemonIndInv
<1>1. ASSUME DaemonIndInv, UNCHANGED allVars PROVE DaemonIndInv'
  <2>1. ret'.out \subseteq proc_info
    BY <1>1 DEF allVars, DaemonIndInv, DaemonInv, DaemonTypeOK, TypeOK
  <2> QED BY <1>1, <2>1, DaemonStutter DEF allVars, table
<1> QED BY <1>1, DaemonNextKeeps, DaemonInitInv, PTL DEF DaemonSpec

\* The ring keeps to its size, and the daemon's table stays searchable and
\* without duplicates whatever events are lost, late or refused.
THEOREM DaemonCorrect == DaemonSpec => []DaemonInv
<1>1. DaemonIndInv => DaemonInv
  BY DEF DaemonIndInv
<1> QED BY <1>1, DaemonInductive, PTL

\* With no event waiting, Backlog is about the table alone.
LEMMA CaughtUp == DaemonIndInv => CaughtUpIsExact
<1> SUFFICES ASSUME DaemonIndInv, ring = <<>>, ~lost, ~refused
             PROVE  \A p \in Pids \ threaded : process_get(p).is_protected <=> p \in ought
  BY DEF CaughtUpIsExact
<1>1. Len(ring) = 0
  OBVIOUS
<1>2. \E o, t \in [0..Len(ring) -> SUBSET Pids] :
        Marks(o[0], t[0]) /\ o[Len(ring)] = ought /\ t[Len(ring)] = threaded
  BY DEF DaemonIndInv, Backlog
<1>3. Marks(ought, threaded)
  BY <1>1, <1>2
<1> QED BY <1>3 DEF Marks

\* When the ring is empty and nothing was lost or refused, the table marks
\* exactly the tasks that ought to be protected, reused pids included.
THEOREM DaemonCatchesUp == DaemonSpec => []CaughtUpIsExact
BY CaughtUp, DaemonInductive, PTL

-----------------------------------------------------------------------------
(* The candidate filter.                                                   *)

\* What the snapshot still says of a settled task: its record is a valid one
\* and marks it exactly if it ought to have been protected at the time.
SnapshotAgrees ==
  \A r \in ret.out : /\ process_record_is_valid(r) /\ r.pid \in Pids
                     /\ r.pid \in settled => (process_record_is_protected(r) <=> r.pid \in entitled)

\* A settled task runs, and what it was entitled to it still is.
SettledRuns == \A p \in settled : p \in Pids /\ Alive(p) /\ (p \in entitled => p \in ought)

VerdictAgrees ==
  verdict.pid \in settled => (verdict.kind = "PROTECTED" <=> verdict.pid \in entitled)

FilterIndInv == DaemonIndInv /\ SnapshotAgrees /\ SettledRuns /\ VerdictAgrees

\* A task that neither starts nor ends in a step keeps its protection: only
\* the exit of the task itself, or the fork of a task that was not there,
\* takes a pid out of ought.
LEMMA OughtIsKept ==
  ASSUME DaemonIndInv, DaemonNext, NEW p \in Pids, Alive(p), task'[p].alive, p \in ought
  PROVE  p \in ought'
<1>1. task \in [Pids -> Task]
  BY DEF DaemonIndInv, DaemonInv, DaemonTypeOK
<1>2. ASSUME NEW q \in Pids, NEW c \in Pids, Fork(q, c) PROVE p \in ought'
  BY <1>2 DEF Fork, Alive
<1>3. ASSUME NEW q \in Pids, StartThread(q) \/ EndThread(q) PROVE p \in ought'
  BY <1>3 DEF StartThread, EndThread
<1>4. ASSUME NEW q \in Pids, Exit(q) PROVE p \in ought'
  BY <1>1, <1>4 DEF Exit, NoTask
<1>5. ASSUME NEW q \in Pids, NEW comm \in Comms, Exec(q, comm) PROVE p \in ought'
  BY <1>5 DEF Exec
<1>6. ASSUME handle_event PROVE p \in ought'
  BY <1>6 DEF handle_event
<1> QED BY <1>2, <1>3, <1>4, <1>5, <1>6 DEF DaemonNext

\* Steps of the kernel and the daemon leave the caller's array alone.
LEMMA SystemKeepsSnapshot == DaemonNext => ret' = ret
BY DEF DaemonNext, Fork, StartThread, EndThread, Exit, Exec, handle_event, daemonUnchanged

LEMMA SystemStepKeeps ==
  ASSUME FilterIndInv, SystemStep
  PROVE  FilterIndInv'
<1>1. /\ DaemonNext /\ DaemonIndInv /\ DaemonIndInv' /\ ret' = ret
      /\ settled' = {p \in settled : task'[p].alive} /\ verdict' = NoVerdict /\ entitled' = entitled
  BY DaemonNextKeeps, SystemKeepsSnapshot DEF FilterIndInv, SystemStep
<1>2. SettledRuns'
  <2> SUFFICES ASSUME NEW p \in settled'
               PROVE  p \in Pids /\ task'[p].alive /\ (p \in entitled' => p \in ought')
    BY DEF SettledRuns, Alive
  <2>1. p \in settled /\ task'[p].alive /\ p \in Pids /\ Alive(p) /\ (p \in entitled => p \in ought)
    BY <1>1 DEF FilterIndInv, SettledRuns
  <2> QED BY <1>1, <2>1, OughtIsKept
<1>3. SnapshotAgrees'
  BY <1>1 DEF FilterIndInv, SnapshotAgrees, process_record_is_valid, process_record_is_protected
<1>4. VerdictAgrees'
  BY <1>1, <1>2, PidsAssumption DEF SettledRuns, VerdictAgrees, NoVerdict
<1> QED BY <1>1, <1>2, <1>3, <1>4 DEF FilterIndInv

LEMMA TakeSnapshotKeeps ==
  ASSUME FilterIndInv, TakeSnapshot
  PROVE  FilterIndInv'
<1>1. /\ DaemonIndInv /\ TableInv /\ RecordsAgree /\ View /\ CaughtUpIsExact
  BY LookupSeesSlots, CaughtUp DEF FilterIndInv, DaemonIndInv, DaemonInv
<1>2. /\ UNCHANGED table /\ UNCHANGED <<task, ring, events, lost, refused, unmoved, ought, threaded>>
      /\ verdict' = NoVerdict /\ entitled' = ought
      /\ settled' = {p \in Pids \ threaded : Alive(p) /\ ring = <<>> /\ ~lost /\ ~refused}
      /\ ret'.out \subseteq {proc_table[i] : i \in Occupied}
  BY DEF TakeSnapshot, process_snapshot, Returned
<1>3. ASSUME NEW i \in Occupied
      PROVE  /\ proc_table[i] \in proc_info
             /\ process_record_is_valid(proc_table[i]) /\ proc_table[i].pid \in Pids
             /\ proc_table[i].pid \in settled' =>
                  (process_record_is_protected(proc_table[i]) <=> proc_table[i].pid \in ought)
  <2> DEFINE r == proc_table[i]
  <2>1. r \in proc_info /\ r.used /\ r.pid > 0
    BY <1>1 DEF TableInv, TableTypeOK, SlotsAgree, SnapshotConsistent, Occupied
  <2>2. r.pid \in Pids /\ r.pid \in EventPids
    BY <2>1 DEF proc_info, EventPids
  <2>3. process_get(r.pid) = r /\ Tracked(r.pid)
    BY <1>1, <2>2 DEF View
  <2>4. Agrees(r)
    BY <1>1, <2>2, <2>3 DEF RecordsAgree
  <2>5. process_record_is_protected(r) <=> r.is_protected
    BY <2>4 DEF Agrees, process_record_is_protected
  <2>6. r.pid \in settled' => (r.is_protected <=> r.pid \in ought)
    BY <1>1, <1>2, <2>2, <2>3 DEF CaughtUpIsExact
  <2> QED BY <2>1, <2>2, <2>5, <2>6 DEF process_record_is_valid
<1>4. DaemonIndInv'
  BY <1>1, <1>2, <1>3, DaemonStutter
<1>5. SnapshotAgrees'
  BY <1>2, <1>3 DEF SnapshotAgrees, process_record_is_valid, process_record_is_protected
<1>6. SettledRuns'
  BY <1>2 DEF SettledRuns, Alive
<1>7. VerdictAgrees'
  <2>1. 0 \notin Pids
    BY PidsAssumption
  <2> QED BY <1>2, <2>1 DEF VerdictAgrees, NoVerdict
<1> QED BY <1>4, <1>5, <1>6, <1>7 DEF FilterIndInv

LEMMA ClassifyKeeps ==
  ASSUME FilterIndInv, NEW r \in ret.out, candidate_filter_classify_pid(r)
  PROVE  FilterIndInv'
<1>1. PICK path : /\ verdict'.pid = r.pid
                  /\ verdict'.kind = candidate_filter_classify_path(r, path).kind
  BY DEF candidate_filter_classify_pid
<1>2. UNCHANGED <<table, ret>> /\ UNCHANGED <<task, ring, events, lost, refused, unmoved, ought, threaded>>
      /\ settled' = settled /\ entitled' = entitled
  BY DEF candidate_filter_classify_pid, allVars, table
<1>3. DaemonIndInv'
  <2>1. ret'.out \subseteq proc_info
    BY <1>2 DEF FilterIndInv, DaemonIndInv, DaemonInv, DaemonTypeOK, TypeOK
  <2> QED BY <1>2, <2>1, DaemonStutter DEF FilterIndInv
<1>4. /\ process_record_is_valid(r) /\ r.pid # daemon_pid
      /\ r.pid \in settled => (process_record_is_protected(r) <=> r.pid \in entitled)
  BY DaemonPidAssumption DEF FilterIndInv, SnapshotAgrees
<1>5. candidate_filter_classify_path(r, path).kind = "PROTECTED" <=> process_record_is_protected(r)
  BY <1>4 DEF candidate_filter_classify_path, Result
<1>6. VerdictAgrees'
  BY <1>1, <1>2, <1>4, <1>5 DEF VerdictAgrees
<1>7. SnapshotAgrees' /\ SettledRuns'
  BY <1>2 DEF FilterIndInv, SnapshotAgrees, SettledRuns, Alive, process_record_is_valid, process_record_is_protected
<1> QED BY <1>3, <1>6, <1>7 DEF FilterIndInv

\* However old the snapshot: a task the daemon was up to date with when it
\* was taken, and that still runs, is never offered as a background candidate
\* if it ought to have been protected then, and is taken for protected only
\* if it ought to be.
THEOREM FilterIsSafe == FilterSpec => []FilterSparesProtected
<1>1. ASSUME FilterInit PROVE FilterIndInv
  <2>1. DaemonIndInv /\ ret.out = {} /\ settled = {}
    BY <1>1, DaemonInitInv DEF FilterInit, DaemonInit, Init, Returned
  <2> QED BY <2>1 DEF FilterIndInv, SnapshotAgrees, SettledRuns, VerdictAgrees
<1>2. ASSUME FilterIndInv, UNCHANGED filterVars PROVE FilterIndInv'
  <2>1. UNCHANGED <<table, ret>> /\ UNCHANGED <<task, ring, events, lost, refused, unmoved, ought, threaded>>
        /\ verdict' = verdict /\ settled' = settled /\ entitled' = entitled
    BY <1>2 DEF filterVars, allVars, table
  <2>2. ret'.out \subseteq proc_info
    BY <1>2, <2>1 DEF FilterIndInv, DaemonIndInv, DaemonInv, DaemonTypeOK, TypeOK
  <2>3. DaemonIndInv'
    BY <1>2, <2>1, <2>2, DaemonStutter DEF FilterIndInv
  <2> QED BY <1>2, <2>1, <2>3
          DEF FilterIndInv, SnapshotAgrees, SettledRuns, VerdictAgrees, Alive, process_record_is_valid,
              process_record_is_protected
<1>3. ASSUME FilterIndInv, [FilterNext]_filterVars PROVE FilterIndInv'
  BY <1>2, <1>3, SystemStepKeeps, TakeSnapshotKeeps, ClassifyKeeps DEF FilterNext
<1>4. FilterIndInv => FilterSparesProtected
  BY DEF FilterIndInv, SettledRuns, VerdictAgrees, FilterSparesProtected
<1> QED BY <1>1, <1>3, <1>4, PTL DEF FilterSpec
=============================================================================
