------------------------- MODULE CalibrationProofs -------------------------
(***************************************************************************)
(* TLAPS proofs about the DRAM mapping, for words of every width, every    *)
(* number of masks and every set of result files, and about the daemon's   *)
(* start and calibration_run, for every number of starts, every timeout    *)
(* and every set of result files, with crashes, clock failures and workers *)
(* that outlive their daemon.                                              *)
(*                                                                         *)
(* The properties speak of the end of calibration_run; the inductive       *)
(* invariant says what holds on the way there: which phases have a worker, *)
(* which file may lie at result_path, and what the loaded result is.       *)
(***************************************************************************)
EXTENDS Calibration, FiniteSetTheorems, SequenceTheorems, TLAPS

-----------------------------------------------------------------------------
(* The mapping.                                                            *)

\* The size of a set, split by another one.
LEMMA SplitCardinality ==
  ASSUME NEW A, IsFiniteSet(A), NEW B, IsFiniteSet(B)
  PROVE  /\ Cardinality(A) \in Nat /\ Cardinality(A \cap B) \in Nat /\ Cardinality(A \ B) \in Nat
         /\ Cardinality(A) = Cardinality(A \cap B) + Cardinality(A \ B)
<1>1. IsFiniteSet(A \cap B) /\ IsFiniteSet(A \ B)
  BY FS_Subset
<1>2. (A \cap B) \cup (A \ B) = A /\ (A \cap B) \cap (A \ B) = {}
  OBVIOUS
<1>3. Cardinality((A \cap B) \cup (A \ B)) =
        Cardinality(A \cap B) + Cardinality(A \ B) - Cardinality((A \cap B) \cap (A \ B))
  BY <1>1, FS_Union
<1>4. Cardinality({}) = 0
  BY FS_EmptySet
<1>5. Cardinality(A) \in Nat /\ Cardinality(A \cap B) \in Nat /\ Cardinality(A \ B) \in Nat
  BY <1>1, FS_CardinalityType
<1>6. /\ Cardinality((A \cap B) \cup (A \ B)) = Cardinality(A)
      /\ Cardinality((A \cap B) \cap (A \ B)) = 0
  BY <1>2, <1>4, Zenon
<1>7. Cardinality(A) = Cardinality(A \cap B) + Cardinality(A \ B) - 0
  BY <1>3, <1>6, Zenon
<1> QED BY <1>5, <1>7

\* Two sums with a common part are equal modulo two exactly when the other
\* parts add up to an even number.
LEMMA EvenSum ==
  ASSUME NEW a \in Nat, NEW b \in Nat, NEW c \in Nat
  PROVE  (a + b) % 2 = 0 <=> (c + a) % 2 = (c + b) % 2
OBVIOUS

\* The parity of an XOR tells whether the parities differ.
LEMMA ParityOfXor ==
  ASSUME NEW a, IsFiniteSet(a), NEW b, IsFiniteSet(b)
  PROVE  parity64(Xor(a, b)) = 0 <=> parity64(a) = parity64(b)
<1>1. /\ Cardinality(a) = Cardinality(a \cap b) + Cardinality(a \ b)
      /\ Cardinality(a \cap b) \in Nat /\ Cardinality(a \ b) \in Nat
  BY SplitCardinality
<1>2. /\ Cardinality(b) = Cardinality(b \cap a) + Cardinality(b \ a)
      /\ Cardinality(b \ a) \in Nat
  BY SplitCardinality
<1>3. b \cap a = a \cap b
  OBVIOUS
<1>4. IsFiniteSet(a \ b) /\ IsFiniteSet(b \ a) /\ (a \ b) \cap (b \ a) = {}
  BY FS_Subset
<1>5. Cardinality(Xor(a, b)) = Cardinality(a \ b) + Cardinality(b \ a)
  <2>1. Cardinality((a \ b) \cup (b \ a)) =
          Cardinality(a \ b) + Cardinality(b \ a) - Cardinality((a \ b) \cap (b \ a))
    BY <1>4, FS_Union
  <2>2. Cardinality({}) = 0
    BY FS_EmptySet
  <2>3. Cardinality(Xor(a, b)) = Cardinality(a \ b) + Cardinality(b \ a) - 0
    BY <2>1, <2>2, <1>4, Zenon DEF Xor
  <2> QED BY <2>3, <1>1, <1>2
<1>6. (Cardinality(a \ b) + Cardinality(b \ a)) % 2 = 0 <=>
        (Cardinality(a \cap b) + Cardinality(a \ b)) % 2 = (Cardinality(a \cap b) + Cardinality(b \ a)) % 2
  BY <1>1, <1>2, EvenSum
<1> QED BY <1>1, <1>2, <1>3, <1>5, <1>6 DEF parity64

\* Whether a mask tells two addresses apart can be read off their XOR.
XorTells(pa1, pa2, mask) ==
    parity64(Xor(pa1, pa2) \cap mask) = 0 <=> parity64(pa1 \cap mask) = parity64(pa2 \cap mask)

\* Masking distributes over XOR, and a parity is a bit.
LEMMA MaskedXor ==
  \A pa1, pa2, mask \in SUBSET Bits :
      /\ XorTells(pa1, pa2, mask)
      /\ parity64(pa1 \cap mask) \in {0, 1}
      /\ parity64(pa2 \cap mask) \in {0, 1}
<1> TAKE pa1, pa2, mask \in SUBSET Bits
<1>1. IsFiniteSet(pa1 \cap mask) /\ IsFiniteSet(pa2 \cap mask)
  BY MaskAssumption, FS_Subset DEF MaskAssumption
<1>2. Xor(pa1, pa2) \cap mask = Xor(pa1 \cap mask, pa2 \cap mask)
  BY DEF Xor
<1>3. Cardinality(pa1 \cap mask) \in Nat /\ Cardinality(pa2 \cap mask) \in Nat
  BY <1>1, FS_CardinalityType
<1>4. \A n \in Nat : n % 2 \in {0, 1}
  OBVIOUS
<1>5. XorTells(pa1, pa2, mask)
  <2>1. parity64(Xor(pa1 \cap mask, pa2 \cap mask)) = 0
          <=> parity64(pa1 \cap mask) = parity64(pa2 \cap mask)
    BY <1>1, ParityOfXor
  <2> QED BY <2>1, <1>2, Zenon DEF XorTells
<1>6. parity64(pa1 \cap mask) \in {0, 1} /\ parity64(pa2 \cap mask) \in {0, 1}
  BY <1>3, <1>4, Zenon DEF parity64
<1> QED BY <1>5, <1>6

\* The comparison without classes agrees with the comparison of classes, for
\* every sequence of masks and every two addresses.
THEOREM SameIsEqualClass ==
  ASSUME NEW masks \in Seq(Mask), NEW pa1 \in SUBSET Bits, NEW pa2 \in SUBSET Bits
  PROVE  SameBankClass(masks, pa1, pa2) <=> BankClass(masks, pa1) = BankClass(masks, pa2)
<1>1. \A i \in 1..Len(masks) : masks[i] \in SUBSET Bits
  BY DEF Mask
<1>2. \A i \in 1..Len(masks) :
        /\ parity64(Xor(pa1, pa2) \cap masks[i]) = 0
             <=> parity64(pa1 \cap masks[i]) = parity64(pa2 \cap masks[i])
        /\ parity64(pa1 \cap masks[i]) \in {0, 1} /\ parity64(pa2 \cap masks[i]) \in {0, 1}
  <2> TAKE i \in 1..Len(masks)
  <2>1. masks[i] \in SUBSET Bits
    BY <1>1
  <2>2. pa1 \in SUBSET Bits /\ pa2 \in SUBSET Bits
    OBVIOUS
  <2>3. XorTells(pa1, pa2, masks[i])
    BY <2>1, <2>2, MaskedXor, Zenon
  <2>4. parity64(pa1 \cap masks[i]) \in {0, 1}
    BY <2>1, <2>2, MaskedXor, Zenon
  <2>5. parity64(pa2 \cap masks[i]) \in {0, 1}
    BY <2>1, <2>2, MaskedXor, Zenon
  <2> QED BY <2>3, <2>4, <2>5 DEF XorTells
<1>3. BankClass(masks, pa1) = BankClass(masks, pa2) <=>
        \A i \in 1..Len(masks) : parity64(pa1 \cap masks[i]) = 1 <=> parity64(pa2 \cap masks[i]) = 1
  BY Zenon DEF BankClass
<1>4. ASSUME NEW i \in 1..Len(masks)
      PROVE  (parity64(pa1 \cap masks[i]) = 1 <=> parity64(pa2 \cap masks[i]) = 1)
                <=> parity64(Xor(pa1, pa2) \cap masks[i]) = 0
  <2> DEFINE x == parity64(pa1 \cap masks[i])
             y == parity64(pa2 \cap masks[i])
  <2>1. x \in {0, 1} /\ y \in {0, 1}
    BY <1>2
  <2>2. parity64(Xor(pa1, pa2) \cap masks[i]) = 0 <=> x = y
    BY <1>2
  <2> HIDE DEF x, y
  <2>3. (x = 1 <=> y = 1) <=> x = y
    BY <2>1
  <2> QED BY <2>2, <2>3, Zenon DEF x, y
<1> QED BY <1>3, <1>4, Zenon DEF SameBankClass

-----------------------------------------------------------------------------
\* Whatever a file holds, the loaded result has its type and its id fits.
LEMMA LoadedType ==
  ASSUME NEW loaded \in File
  PROVE  Loaded(loaded) \in calibration_result /\ Loaded(loaded).id_len < ID_MAX
<1>1. parse_bank_masks(loaded.masks) \in Seq(Mask)
  <2> DEFINE m == loaded.masks
  <2>1. m \in Seq(Mask)
    BY DEF File
  <2> DEFINE S == {i \in 1..Len(m) : \A j \in 1..i : j \notin BadMasks(m)}
  <2>2. IsFiniteSet(1..Len(m)) /\ Cardinality(1..Len(m)) = Len(m) /\ Len(m) \in Nat
    <3>1. Len(m) \in Nat
      BY <2>1
    <3> QED BY <3>1, FS_Interval
  <2>3. S \in SUBSET (1..Len(m))
    OBVIOUS
  <2>4. IsFiniteSet(S) /\ Cardinality(S) <= Len(m)
    BY <2>2, <2>3, FS_Subset
  <2>5. Cardinality(S) \in Nat
    BY <2>4, FS_CardinalityType
  <2>6. Parsed(m) \in Nat /\ Parsed(m) <= Len(m)
    BY <2>4, <2>5 DEF Parsed
  <2>7. \A i \in 1..Parsed(m) : m[i] \in Mask
    BY <2>1, <2>2, <2>6
  <2> QED BY <2>6, <2>7, SubSeqProperties DEF parse_bank_masks
<1>2. StoredIdLen(loaded.id_len) \in Nat /\ StoredIdLen(loaded.id_len) < ID_MAX
  BY MaskAssumption DEF MaskAssumption, File, StoredIdLen, MissingId
<1>3. Loaded(loaded) \in calibration_result
  BY <1>1, <1>2 DEF Loaded, calibration_result, Passes
<1>4. Loaded(loaded).id_len < ID_MAX
  BY <1>2, MaskAssumption DEF Loaded, MaskAssumption
<1> QED BY <1>3, <1>4

\* The inductive invariant: types, and a failed initialization leaves the
\* mapping not ready.
MappingInv == TypeOK /\ FailClosed

\* Every step keeps types and the fail-closed rule.
LEMMA MappingStep == MappingInv /\ [Next]_vars => MappingInv'
<1> SUFFICES ASSUME MappingInv, [Next]_vars PROVE MappingInv'
  OBVIOUS
<1> USE DEF MappingInv
<1>0. NoMapping \in [masks : Seq(Mask), id_len : 0..ID_MAX - 1, ready : BOOLEAN]
  BY MaskAssumption DEF MaskAssumption, NoMapping
<1>1. ASSUME NEW loaded \in Files, calibration_load_result(loaded) PROVE MappingInv'
  <2>1. loaded \in File
    BY FilesAssumption DEF FilesAssumption
  <2>2. TypeOK'
    BY <1>1, <2>1, LoadedType DEF calibration_load_result, TypeOK
  <2> QED BY <1>1, <2>2 DEF calibration_load_result, FailClosed
<1>2. CASE LoadFails
  <2>1. TypeOK'
    BY <1>2, MaskAssumption DEF LoadFails, TypeOK, calibration_result_reset, calibration_result, MaskAssumption
  <2> QED BY <1>2, <2>1 DEF LoadFails, FailClosed
<1>3. CASE dram_mapping_init_from_calibration
  <2>1. CASE validate_calibration_result(result) = "OK"
    <3>1. result \in calibration_result /\ result.id_len < ID_MAX
      BY DEF TypeOK
    <3>2. mapping' = [masks |-> result.bank_masks, id_len |-> result.id_len, ready |-> TRUE]
      BY <1>3, <2>1 DEF dram_mapping_init_from_calibration, InitFrom
    <3>3. mapping' \in [masks : Seq(Mask), id_len : 0..ID_MAX - 1, ready : BOOLEAN]
      BY <3>1, <3>2, MaskAssumption DEF MaskAssumption, calibration_result
    <3>4. TypeOK'
      BY <1>3, <3>3 DEF TypeOK, dram_mapping_init_from_calibration
    <3> QED BY <1>3, <2>1, <3>4 DEF FailClosed, dram_mapping_init_from_calibration
  <2>2. CASE validate_calibration_result(result) # "OK"
    <3>1. mapping' = NoMapping /\ UNCHANGED result
      BY <1>3, <2>2 DEF dram_mapping_init_from_calibration, InitFrom
    <3>2. TypeOK'
      BY <3>1, <1>0 DEF TypeOK
    <3> QED BY <3>1, <3>2 DEF FailClosed, dram_mapping_is_ready, NoMapping
  <2> QED BY <2>1, <2>2
<1>4. CASE dram_mapping_reset
  <2>1. TypeOK'
    BY <1>4, <1>0 DEF dram_mapping_reset, TypeOK
  <2> QED BY <1>4, <2>1 DEF dram_mapping_reset, FailClosed
<1>5. CASE UNCHANGED vars
  BY <1>5 DEF vars, TypeOK, FailClosed
<1> QED BY <1>1, <1>2, <1>3, <1>4, <1>5 DEF Next

\* Types and the fail-closed rule hold always.
THEOREM MappingCorrect == Spec => []MappingInv
<1>1. Init => MappingInv
  BY MaskAssumption DEF Init, MappingInv, TypeOK, FailClosed, NoMapping, calibration_result_reset,
     calibration_result, MaskAssumption
<1> QED BY <1>1, MappingStep, PTL DEF Spec

\* Fail closed: dram_mapping_init_from_calibration never leaves an old
\* mapping usable when it reports an error.
THEOREM NeverReadyAfterFailure == Spec => []FailClosed
<1>1. MappingInv => FailClosed
  BY DEF MappingInv
<1> QED BY <1>1, MappingCorrect, PTL

\* same_bank_class agrees with equality of bank classes in every state, for
\* words of every width.
THEOREM SameIffEqualHolds == Spec => []SameIffEqual
<1>1. MappingInv => SameIffEqual
  <2> SUFFICES ASSUME MappingInv, NEW pa1 \in SUBSET Bits, NEW pa2 \in SUBSET Bits
               PROVE  SameBankClass(mapping.masks, pa1, pa2)
                        <=> BankClass(mapping.masks, pa1) = BankClass(mapping.masks, pa2)
    BY DEF SameIffEqual
  <2>1. mapping.masks \in Seq(Mask)
    BY DEF MappingInv, TypeOK
  <2> QED BY <2>1, SameIsEqualClass
<1> QED BY <1>1, MappingCorrect, PTL

\* The oracle experiments find the class of a cache line from the class of its
\* page's base address and the class of its offset (count_line_classes) and
\* check it later against the whole address (address_bank_class).  For masks
\* of every number and width the two are one class, as base and offset have
\* no bit in common.
THEOREM LineClassIsAddressClass ==
  ASSUME NEW masks \in Seq(Mask), NEW base \in SUBSET Bits, NEW offset \in SUBSET Bits,
         base \cap offset = {}
  PROVE  LineClass(masks, base, offset) = BankClass(masks, base \cup offset)
<1>1. \A i \in 1..Len(masks) : masks[i] \in SUBSET Bits
  BY DEF Mask
<1>2. Xor(base, offset) = base \cup offset
  BY DEF Xor
<1>3. base \cup offset \in SUBSET Bits
  OBVIOUS
<1>4. ASSUME NEW i \in 1..Len(masks)
      PROVE  i \in LineClass(masks, base, offset) <=> i \in BankClass(masks, base \cup offset)
  <2>1. masks[i] \in SUBSET Bits
    BY <1>1
  <2>2. XorTells(base, offset, masks[i])
    BY <2>1, MaskedXor, Zenon
  <2>3. parity64(base \cap masks[i]) \in {0, 1} /\ parity64(offset \cap masks[i]) \in {0, 1}
    BY <2>1, MaskedXor, Zenon
  <2>4. parity64((base \cup offset) \cap masks[i]) \in {0, 1}
    BY <1>3, <2>1, MaskedXor, Zenon
  <2>5. parity64((base \cup offset) \cap masks[i]) = 0
          <=> parity64(base \cap masks[i]) = parity64(offset \cap masks[i])
    BY <1>2, <2>2, Zenon DEF XorTells
  <2>6. i \in LineClass(masks, base, offset) <=>
          ~(parity64(base \cap masks[i]) = 1 <=> parity64(offset \cap masks[i]) = 1)
    BY Zenon DEF LineClass, Xor, BankClass
  <2>7. i \in BankClass(masks, base \cup offset)
          <=> parity64((base \cup offset) \cap masks[i]) = 1
    BY Zenon DEF BankClass
  <2> QED BY <2>3, <2>4, <2>5, <2>6, <2>7
<1>5. LineClass(masks, base, offset) \subseteq 1..Len(masks)
  BY Zenon DEF LineClass, Xor, BankClass
<1>6. BankClass(masks, base \cup offset) \subseteq 1..Len(masks)
  BY Zenon DEF BankClass
<1> QED BY <1>4, <1>5, <1>6, Zenon

-----------------------------------------------------------------------------
(* What passes the checks can be used.                                     *)

\* A nonempty set of indices has a first one: the loops of both layers stop
\* at a definite check or mask.
LEMMA FirstIndex ==
  ASSUME NEW S \in SUBSET Nat, S # {}
  PROVE  \E x \in S : \A y \in S : x <= y
<1>1. IsWellFoundedOn(OpToRel(<, Nat), Nat)
  BY NatLessThanWellFounded
<1>2. \A x, y \in Nat : y < x => <<y, x>> \in OpToRel(<, Nat)
  BY Zenon DEF OpToRel
<1>3. \E R : IsWellFoundedOn(R, Nat) /\ \A x, y \in Nat : y < x => <<y, x>> \in R
  BY <1>1, <1>2, Zenon
<1>4. PICK R : IsWellFoundedOn(R, Nat) /\ \A x, y \in Nat : y < x => <<y, x>> \in R
  BY <1>3
<1>5. PICK x \in S : \A y \in S : ~(<<y, x>> \in R)
  BY <1>4, WFMin
<1>6. \A y \in S : ~(y < x)
  BY <1>4, <1>5
<1> QED BY <1>6

\* A check that fails has a code that says so.
LEMMA FailingCheckHasCode ==
  ASSUME NEW f \in File, NEW i \in 1..8, ~Checks(f)[i].ok
  PROVE  Checks(f)[i].code # "OK"
<1>1. i \in {1, 2, 3, 4, 5, 6, 7, 8}
  OBVIOUS
<1>2. ASSUME MasksCode(f.masks, f.array) = "OK" PROVE Checks(f)[6].ok
  <2> DEFINE ok == MasksCode(f.masks, f.array) = "OK"
  <2>1. Checks(f)[6].ok = ok
    BY DEF Checks
  <2> QED BY <1>2, <2>1, Zenon
<1>3. i = 6 => MasksCode(f.masks, f.array) # "OK"
  BY <1>2, Zenon
<1> QED BY <1>1, <1>3 DEF Checks

\* calibration_load_result returns success exactly when every check passed.
LEMMA LoadedOkPasses ==
  ASSUME NEW f \in File
  PROVE  LoadCode(f) = "OK" <=> Passes(f, 8)
<1>1. CASE Passes(f, 8)
  BY <1>1 DEF LoadCode
<1>2. CASE ~Passes(f, 8)
  <2> DEFINE S == {i \in 1..8 : ~Checks(f)[i].ok}
             First(i) == Passes(f, i - 1) /\ ~Checks(f)[i].ok
  <2>1. S \in SUBSET Nat /\ S # {}
    BY <1>2 DEF Passes
  <2>2. PICK i \in S : \A j \in S : i <= j
    BY <2>1, FirstIndex
  <2>3. i \in 1..8 /\ First(i)
    <3>1. \A j \in 1..i - 1 : j \in 1..8 /\ ~(i <= j)
      BY <2>2
    <3>2. Passes(f, i - 1)
      BY <2>2, <3>1 DEF Passes
    <3> QED BY <2>2, <3>2
  <2> DEFINE c == CHOOSE j \in 1..8 : First(j)
  <2> HIDE DEF First
  <2>4. c \in 1..8 /\ First(c)
    BY <2>3
  <2>5. LoadCode(f) = Checks(f)[c].code
    BY <1>2 DEF LoadCode, First
  <2> HIDE DEF c
  <2>6. Checks(f)[c].code # "OK"
    BY <2>4, FailingCheckHasCode DEF First
  <2> QED BY <1>2, <2>5, <2>6
<1> QED BY <1>1, <1>2

\* When every mask of the file was parsed, they fit their array and none is
\* zero, and the struct holds them all.
LEMMA ParsedMasks ==
  ASSUME NEW m \in Seq(Mask), NEW a, MasksCode(m, a) = "OK"
  PROVE  /\ Len(m) \in 1..MAX_MASKS
         /\ \A i \in 1..Len(m) : m[i] # {}
         /\ parse_bank_masks(m) = m
<1> DEFINE S == {i \in 1..Len(m) : \A j \in 1..i : j \notin BadMasks(m)}
<1>0. Len(m) \in Nat /\ IsFiniteSet(1..Len(m)) /\ Cardinality(1..Len(m)) = Len(m)
  <2>1. Len(m) \in Nat
    OBVIOUS
  <2>2. IsFiniteSet(1..Len(m)) /\ Cardinality(1..Len(m)) = Len(m)
    BY <2>1, FS_Interval
  <2> QED BY <2>1, <2>2
<1>1. m # <<>> /\ Parsed(m) = Len(m) /\ Len(m) \in Nat \ {0}
  <2>1. m # <<>> /\ ~(Parsed(m) < Len(m))
    BY DEF MasksCode
  <2>2. S \in SUBSET (1..Len(m))
    OBVIOUS
  <2>3. Cardinality(S) \in Nat /\ Cardinality(S) <= Len(m)
    BY <1>0, <2>2, FS_Subset, FS_CardinalityType
  <2>4. Parsed(m) \in Nat /\ Parsed(m) <= Len(m)
    BY <2>3 DEF Parsed
  <2> QED BY <1>0, <2>1, <2>4
<1>2. IsFiniteSet(1..Len(m)) /\ Cardinality(1..Len(m)) = Len(m)
  BY <1>0
<1>3. S \in SUBSET (1..Len(m)) /\ Cardinality(S) = Len(m)
  BY <1>1 DEF Parsed
<1>4. S = 1..Len(m)
  BY <1>2, <1>3, FS_Subset
<1>5. \A i \in 1..Len(m) : i \notin BadMasks(m)
  <2>1. \A i \in 1..Len(m) : i \in 1..i
    BY <1>1
  <2> QED BY <1>4, <2>1
<1>6. \A i \in 1..Len(m) : ~(i > MAX_MASKS) /\ m[i] # {}
  BY <1>5 DEF BadMasks
<1>7. Len(m) \in 1..MAX_MASKS
  BY <1>1, <1>6, MaskAssumption
<1>8. parse_bank_masks(m) = m
  BY <1>1 DEF parse_bank_masks
<1> QED BY <1>6, <1>7, <1>8

\* The struct after a load without error.
LEMMA LoadedOkIs ==
  ASSUME NEW f \in File, LoadCode(f) = "OK"
  PROVE  /\ f.status = "success" /\ f.passed = "true"
         /\ Loaded(f).status_success /\ Loaded(f).acceptance_passed
         /\ Loaded(f).bank_masks = f.masks /\ Loaded(f).id_len \in 0..ID_MAX - 1
         /\ Len(f.masks) \in 1..MAX_MASKS /\ \A i \in 1..Len(f.masks) : f.masks[i] # {}
<1>1. \A i \in 1..8 : Checks(f)[i].ok
  BY LoadedOkPasses DEF Passes
<1>2. Passes(f, 2) /\ Passes(f, 4) /\ Passes(f, 5) /\ Passes(f, 6)
  BY <1>1 DEF Passes
<1>3. /\ f.status = "success" /\ f.passed = "true" /\ MasksCode(f.masks, f.array) = "OK"
      /\ f.id_len \in 0..ID_MAX - 1
  <2>1. Checks(f)[2].ok /\ Checks(f)[4].ok /\ Checks(f)[6].ok /\ Checks(f)[7].ok
    BY <1>1
  <2> QED BY <2>1 DEF Checks
<1>4. f.masks \in Seq(Mask)
  BY DEF File
<1>5. /\ Len(f.masks) \in 1..MAX_MASKS /\ \A i \in 1..Len(f.masks) : f.masks[i] # {}
      /\ parse_bank_masks(f.masks) = f.masks
  BY <1>3, <1>4, ParsedMasks
<1>6. StoredIdLen(f.id_len) = f.id_len
  BY <1>3, MaskAssumption DEF StoredIdLen, MissingId
<1> QED BY <1>2, <1>3, <1>5, <1>6 DEF Loaded

\* Such a struct is refused by the mapping at most for a repeated mask.
LEMMA LoadedOkValidates ==
  ASSUME NEW f \in File, LoadCode(f) = "OK", Loaded(f).id_len > 0
  PROVE  validate_calibration_result(Loaded(f)) \in {"OK", "DUPLICATE_MASK"}
<1> DEFINE r == Loaded(f)
           bad == Unusable(r.bank_masks)
           first == CHOOSE i \in bad : \A j \in bad : i <= j
<1>1. /\ r.status_success /\ r.acceptance_passed
      /\ Len(r.bank_masks) \in 1..MAX_MASKS /\ \A i \in 1..Len(r.bank_masks) : r.bank_masks[i] # {}
      /\ r.id_len \in 1..ID_MAX - 1
  BY LoadedOkIs, MaskAssumption
<1>2. bad # {} => first \in 1..Len(r.bank_masks)
  <2> SUFFICES ASSUME bad # {} PROVE first \in 1..Len(r.bank_masks)
    OBVIOUS
  <2>1. bad \in SUBSET Nat /\ bad \subseteq 1..Len(r.bank_masks)
    BY DEF Unusable
  <2> HIDE DEF bad
  <2>2. first \in bad
    BY <2>1, FirstIndex
  <2> QED BY <2>1, <2>2
<1>3. validate_calibration_result(r) =
        IF ~r.status_success \/ ~r.acceptance_passed THEN "CALIBRATION_REJECTED"
        ELSE IF Len(r.bank_masks) \notin 1..MAX_MASKS THEN "MASK_COUNT"
        ELSE IF r.id_len \notin 1..ID_MAX - 1 THEN "MASK_SET_ID"
        ELSE IF bad = {} THEN "OK"
        ELSE IF r.bank_masks[first] = {} THEN "ZERO_MASK" ELSE "DUPLICATE_MASK"
  BY DEF validate_calibration_result
<1> HIDE DEF r, bad, first
<1>4. validate_calibration_result(r) \in {"OK", "DUPLICATE_MASK"}
  BY <1>1, <1>2, <1>3
<1> QED BY <1>4 DEF r

\* A mapping that is ready has masks the validation loop found usable.
ReadyIsUsable == mapping.ready => Unusable(mapping.masks) = {}

\* A validated result has usable masks.
LEMMA ValidIsUsable ==
  ASSUME NEW r, validate_calibration_result(r) = "OK"
  PROVE  /\ Unusable(r.bank_masks) = {} /\ Len(r.bank_masks) \in 1..MAX_MASKS
         /\ r.status_success /\ r.acceptance_passed
BY DEF validate_calibration_result

\* Usable masks are nonzero and differ, so each of them tells some address
\* from the address 0, and each two of them differ on some address.
LEMMA UsableMasksCount ==
  ASSUME NEW masks \in Seq(Mask), Unusable(masks) = {}, NEW i \in 1..Len(masks), NEW j \in 1..Len(masks)
  PROVE  /\ \E pa \in SUBSET Bits : parity64(pa \cap masks[i]) = 1
         /\ i # j => \E pa \in SUBSET Bits : parity64(pa \cap masks[i]) # parity64(pa \cap masks[j])
<1>1. masks[i] \in SUBSET Bits /\ masks[j] \in SUBSET Bits
  BY DEF Mask
<1>2. \A k \in 1..Len(masks) : masks[k] # {} /\ \A l \in 1..k - 1 : masks[l] # masks[k]
  BY DEF Unusable
<1>3. ASSUME NEW b, NEW mask, b \in mask PROVE parity64({b} \cap mask) = 1
  <2>1. {b} \cap mask = {b}
    BY <1>3
  <2>2. Cardinality({b}) = 1
    BY FS_Singleton
  <2>3. parity64({b} \cap mask) = 1 % 2
    BY <2>1, <2>2, Zenon DEF parity64
  <2> QED BY <2>3
<1>4. ASSUME NEW b, NEW mask, b \notin mask PROVE parity64({b} \cap mask) = 0
  <2>1. {b} \cap mask = {}
    BY <1>4
  <2>2. Cardinality({}) = 0
    BY FS_EmptySet
  <2>3. parity64({b} \cap mask) = 0 % 2
    BY <2>1, <2>2, Zenon DEF parity64
  <2> QED BY <2>3
<1>5. \E pa \in SUBSET Bits : parity64(pa \cap masks[i]) = 1
  <2>1. PICK b \in masks[i] : TRUE
    BY <1>2
  <2>2. {b} \in SUBSET Bits /\ parity64({b} \cap masks[i]) = 1
    BY <1>1, <1>3, <2>1
  <2> QED BY <2>2
<1>6. ASSUME i # j
      PROVE  \E pa \in SUBSET Bits : parity64(pa \cap masks[i]) # parity64(pa \cap masks[j])
  <2>1. masks[i] # masks[j]
    <3>1. Len(masks) \in Nat /\ (i \in 1..j - 1 \/ j \in 1..i - 1)
      BY <1>6
    <3> QED BY <1>2, <3>1
  <2>2. PICK b \in Bits : (b \in masks[i] /\ b \notin masks[j]) \/ (b \notin masks[i] /\ b \in masks[j])
    BY <1>1, <2>1
  <2>3. {b} \in SUBSET Bits
    OBVIOUS
  <2>4. \/ parity64({b} \cap masks[i]) = 1 /\ parity64({b} \cap masks[j]) = 0
        \/ parity64({b} \cap masks[i]) = 0 /\ parity64({b} \cap masks[j]) = 1
    BY <1>3, <1>4, <2>2
  <2>5. parity64({b} \cap masks[i]) # parity64({b} \cap masks[j])
    BY <2>4
  <2> QED BY <2>3, <2>5, Zenon
<1> QED BY <1>5, <1>6

\* The two further invariants are preserved by every step.
LEMMA ChecksStep ==
  ASSUME MappingInv, ReadyIsUsable, LoadedIsUsable, [Next]_vars
  PROVE  ReadyIsUsable' /\ LoadedIsUsable'
<1>1. ASSUME NEW loaded \in Files, calibration_load_result(loaded) PROVE ReadyIsUsable' /\ LoadedIsUsable'
  <2>1. loaded \in File
    BY FilesAssumption
  <2>2. /\ result' = Loaded(loaded) /\ ret' = [op |-> "load", code |-> LoadCode(loaded)]
        /\ mapping' = mapping
    BY <1>1 DEF calibration_load_result
  <2>3. LoadCode(loaded) = "OK" /\ Loaded(loaded).id_len > 0 =>
          validate_calibration_result(Loaded(loaded)) \in {"OK", "DUPLICATE_MASK"}
    BY <2>1, LoadedOkValidates
  <2>4. LoadedIsUsable'
    <3> SUFFICES ASSUME ret'.code = "OK", result'.id_len > 0
                 PROVE  validate_calibration_result(result)' \in {"OK", "DUPLICATE_MASK"}
      BY DEF LoadedIsUsable
    <3>1. validate_calibration_result(result)' = validate_calibration_result(Loaded(loaded))
      BY <2>2 DEF validate_calibration_result, Unusable
    <3> QED BY <2>2, <2>3, <3>1
  <2> QED BY <2>2, <2>4 DEF ReadyIsUsable, Unusable
<1>2. CASE LoadFails
  BY <1>2 DEF LoadFails, ReadyIsUsable, Unusable, LoadedIsUsable
<1>3. CASE dram_mapping_init_from_calibration
  <2>1. LoadedIsUsable'
    BY <1>3 DEF dram_mapping_init_from_calibration, LoadedIsUsable
  <2>2. ReadyIsUsable'
    <3>1. CASE validate_calibration_result(result) = "OK"
      <4>1. mapping' = [masks |-> result.bank_masks, id_len |-> result.id_len, ready |-> TRUE]
        BY <1>3, <3>1 DEF dram_mapping_init_from_calibration, InitFrom
      <4>2. Unusable(result.bank_masks) = {}
        BY <3>1, ValidIsUsable
      <4> QED BY <4>1, <4>2 DEF ReadyIsUsable, Unusable
    <3>2. CASE validate_calibration_result(result) # "OK"
      BY <1>3, <3>2 DEF dram_mapping_init_from_calibration, InitFrom, NoMapping, ReadyIsUsable
    <3> QED BY <3>1, <3>2
  <2> QED BY <2>1, <2>2
<1>4. CASE dram_mapping_reset
  BY <1>4 DEF dram_mapping_reset, NoMapping, ReadyIsUsable, LoadedIsUsable
<1>5. CASE UNCHANGED vars
  <2>1. UNCHANGED <<result, mapping, ret>>
    BY <1>5 DEF vars
  <2>2. validate_calibration_result(result)' = validate_calibration_result(result)
    BY <2>1 DEF validate_calibration_result, Unusable
  <2>3. LoadedIsUsable'
    BY <2>1, <2>2 DEF LoadedIsUsable
  <2> QED BY <2>1, <2>3 DEF ReadyIsUsable, Unusable
<1> QED BY <1>1, <1>2, <1>3, <1>4, <1>5 DEF Next

\* The checks of both layers do their work, for words of every width, every
\* number of masks and every set of result files.
THEOREM ChecksAreEnough == Spec => []ChecksInv
<1>1. Init => ReadyIsUsable /\ LoadedIsUsable
  BY DEF Init, NoMapping, ReadyIsUsable, LoadedIsUsable
<1>2. MappingInv /\ ReadyIsUsable /\ LoadedIsUsable /\ [Next]_vars => ReadyIsUsable' /\ LoadedIsUsable'
  BY ChecksStep
<1>3. MappingInv /\ ReadyIsUsable /\ LoadedIsUsable => ChecksInv
  <2> SUFFICES ASSUME MappingInv, ReadyIsUsable PROVE TypeOK /\ EveryMaskCounts
    BY DEF ChecksInv
  <2>1. TypeOK /\ mapping.masks \in Seq(Mask)
    BY DEF MappingInv, TypeOK
  <2>2. ASSUME dram_mapping_is_ready(mapping) PROVE Unusable(mapping.masks) = {}
    BY <2>2 DEF ReadyIsUsable, dram_mapping_is_ready
  <2>3. EveryMaskCounts
    BY <2>1, <2>2, UsableMasksCount DEF EveryMaskCounts
  <2> QED BY <2>1, <2>3
<1> QED BY <1>1, <1>2, <1>3, MappingCorrect, PTL DEF Spec

-----------------------------------------------------------------------------
(* The inductive invariant.                                                *)

Phase == {"down", "failed", "calibrating", "launching", "joining", "waiting", "loading", "mapping",
          "attaching", "running", "terminating", "draining", "killing"}
FileState == {NoFile} \cup [by : Run, text : Files]

\* Types, with those of the variables the run's type invariant leaves open.
Types ==
    /\ CalTypeOK
    /\ phase \in Phase /\ (phase # "down" => run \in Run)
    /\ file \in FileState /\ accepted \in FileState

\* A worker not forked yet has no state at all, and no later daemon's
\* worker has been forked.
Workers ==
    \A r \in Run : /\ worker[r].st = "none" => worker[r] = NoWorker
                   /\ r > run => worker[r].st = "none"

\* In which phases the present daemon has a worker.
Stages ==
    /\ phase \in {"calibrating", "launching"} => worker[run].st = "none"
    /\ phase = "joining" => worker[run].st # "none"
    /\ phase \in {"loading", "mapping", "attaching", "running"} => worker[run].st = "reaped"
    /\ phase = "failed" /\ rc[run] # "WAIT" => worker[run].st \in {"none", "reaped"}

\* From the removal of the stale file on, a file is this run's, or that of a
\* worker nobody waited for.
FreshFile ==
    phase \in {"launching", "joining", "waiting", "loading"} /\ file # NoFile =>
        file.by = run \/ worker[file.by].st # "reaped"

\* The mapping is built from a result that was loaded without error.
LoadedOk ==
    phase = "mapping" =>
        /\ exit_code = 0 /\ rc[run] = "OK"
        /\ accepted # NoFile /\ LoadCode(accepted.text) = "OK" /\ result = Loaded(accepted.text)

CalIndInv == Types /\ Workers /\ Stages /\ FreshFile /\ LoadedOk /\ AttachedIsCalibrated

-----------------------------------------------------------------------------
(* What the loaded and checked data are.                                   *)

\* A load ends with one of four codes.
LEMMA LoadCodeType ==
  ASSUME NEW f \in File
  PROVE  LoadCode(f) \in {"OK", "JSON", "REJECTED", "TOO_MANY_MASKS"}
<1>1. CASE LoadCode(f) = "OK"
  BY <1>1
<1>2. CASE LoadCode(f) # "OK"
  <2> DEFINE S == {i \in 1..8 : ~Checks(f)[i].ok}
             First(i) == Passes(f, i - 1) /\ ~Checks(f)[i].ok
  <2>1. ~Passes(f, 8)
    BY <1>2, LoadedOkPasses
  <2>2. S \in SUBSET Nat /\ S # {}
    BY <2>1 DEF Passes
  <2>3. PICK i \in S : \A j \in S : i <= j
    BY <2>2, FirstIndex
  <2>4. i \in 1..8 /\ First(i)
    <3>1. \A j \in 1..i - 1 : j \in 1..8 /\ ~(i <= j)
      BY <2>3
    <3>2. Passes(f, i - 1)
      BY <2>3, <3>1 DEF Passes
    <3> QED BY <2>3, <3>2
  <2> DEFINE c == CHOOSE j \in 1..8 : First(j)
  <2> HIDE DEF First
  <2>5. c \in 1..8
    BY <2>4
  <2>6. LoadCode(f) = Checks(f)[c].code
    BY <2>1 DEF LoadCode, First
  <2> HIDE DEF c
  <2>7. MasksCode(f.masks, f.array) \in {"OK", "JSON", "REJECTED", "TOO_MANY_MASKS"}
    BY DEF MasksCode
  <2>8. c \in {1, 2, 3, 4, 5, 6, 7, 8}
    BY <2>5
  <2> QED BY <2>6, <2>7, <2>8 DEF Checks
<1> QED BY <1>1, <1>2

\* dram_mapping_init_from_calibration keeps the mapping's type.
LEMMA InitFromType ==
  ASSUME NEW old, NEW r \in calibration_result, r.id_len < ID_MAX
  PROVE  InitFrom(old, r) \in [masks : Seq(Mask), id_len : 0..ID_MAX - 1, ready : BOOLEAN]
<1>1. NoMapping \in [masks : Seq(Mask), id_len : 0..ID_MAX - 1, ready : BOOLEAN]
  BY MaskAssumption DEF NoMapping
<1>2. r.id_len \in 0..ID_MAX - 1 /\ r.bank_masks \in Seq(Mask)
  BY MaskAssumption DEF calibration_result
<1> QED BY <1>1, <1>2 DEF InitFrom

\* The state after calibration_result_reset is well typed.
LEMMA ResetType == calibration_result_reset \in calibration_result /\ calibration_result_reset.id_len < ID_MAX
BY MaskAssumption DEF calibration_result_reset, calibration_result

-----------------------------------------------------------------------------
(* The worker's side.                                                      *)

\* A step of the workers: those not forked yet and those reaped stay as they
\* are, no other becomes one of these, and a new file is its writer's.
WorkersStep ==
    /\ worker' \in [Run -> Worker] /\ collector' \in [Run -> Collector]
    /\ \A r \in Run : /\ worker[r].st \in {"none", "reaped"} => worker'[r] = worker[r]
                      /\ worker[r].st \notin {"none", "reaped"} => worker'[r].st \notin {"none", "reaped"}
    /\ \/ file' = file
       \/ \E r \in Run, text \in Files :
            file' = [by |-> r, text |-> text] /\ worker[r].st \notin {"none", "reaped"}

\* A WorkersStep while the daemon itself does nothing preserves the invariant.
LEMMA WorkersStepKeeps ==
  ASSUME CalIndInv, WorkersStep, daemonUnchanged
  PROVE  CalIndInv'
<1>1. /\ phase' = phase /\ run' = run /\ rc' = rc /\ exit_code' = exit_code /\ result' = result
      /\ mapping' = mapping /\ bank_mapping_ready' = bank_mapping_ready /\ accepted' = accepted
  BY DEF daemonUnchanged, context
<1>2. Types /\ Workers /\ Stages /\ FreshFile /\ LoadedOk /\ AttachedIsCalibrated
  BY DEF CalIndInv
<1>3. file' \in FileState /\ file'.by \in 0..MaxRuns
  <2>1. CASE file' = file
    BY <1>2, <2>1 DEF Types, CalTypeOK
  <2>2. CASE file' # file
    <3>1. PICK r \in Run, text \in Files : file' = [by |-> r, text |-> text]
      BY <2>2 DEF WorkersStep
    <3> QED BY <3>1, CalibrationAssumption DEF FileState, Run
  <2> QED BY <2>1, <2>2
<1>4. Types'
  <2>1. /\ (\A r \in Run : r \in Run) /\ Run' = Run /\ FileState' = FileState /\ Phase' = Phase
        /\ Worker' = Worker /\ Collector' = Collector /\ ErrorCode' = ErrorCode
    BY DEF Run, FileState, Phase, Worker, Collector, ErrorCode, NoFile, Status
  <2>2. TypeOK'
    BY <1>1, <1>2 DEF Types, CalTypeOK, TypeOK
  <2> QED BY <1>1, <1>2, <1>3, <2>1, <2>2 DEF Types, CalTypeOK, WorkersStep
<1>5. Workers'
  <2> SUFFICES ASSUME NEW r \in Run
               PROVE  (worker'[r].st = "none" => worker'[r] = NoWorker) /\ (r > run => worker'[r].st = "none")
    BY <1>1 DEF Workers, Run, NoWorker
  <2> QED BY <1>2 DEF Workers, WorkersStep
<1>6. Stages'
  <2>1. CASE phase = "down"
    BY <1>1, <2>1 DEF Stages
  <2>2. CASE phase # "down"
    <3>1. run \in Run
      BY <1>2, <2>2 DEF Types
    <3>2. /\ worker[run].st \in {"none", "reaped"} => worker'[run].st = worker[run].st
          /\ worker[run].st \notin {"none", "reaped"} => worker'[run].st \notin {"none", "reaped"}
      BY <3>1 DEF WorkersStep
    <3> QED BY <1>1, <1>2, <3>2 DEF Stages
  <2> QED BY <2>1, <2>2
<1>7. FreshFile'
  <2> SUFFICES ASSUME phase \in {"launching", "joining", "waiting", "loading"}, file' # NoFile
               PROVE  file'.by = run \/ worker'[file'.by].st # "reaped"
    BY <1>1 DEF FreshFile, NoFile
  <2>1. CASE file' = file
    <3>1. file.by \in Run
      BY <1>2, <2>1 DEF Types, FileState
    <3>2. file.by = run \/ worker[file.by].st # "reaped"
      BY <1>2, <2>1 DEF FreshFile
    <3>3. worker[file.by].st # "reaped" => worker'[file.by].st # "reaped"
      BY <3>1 DEF WorkersStep
    <3> QED BY <2>1, <3>2, <3>3
  <2>2. CASE file' # file
    <3>1. PICK r \in Run, text \in Files :
            file' = [by |-> r, text |-> text] /\ worker[r].st \notin {"none", "reaped"}
      BY <2>2 DEF WorkersStep
    <3>2. file'.by = r /\ worker'[r].st # "reaped"
      BY <3>1 DEF WorkersStep
    <3> QED BY <3>2
  <2> QED BY <2>1, <2>2
<1>8. LoadedOk' /\ AttachedIsCalibrated'
  BY <1>1, <1>2 DEF LoadedOk, AttachedIsCalibrated, dram_mapping_is_ready, NoFile
<1> QED BY <1>4, <1>5, <1>6, <1>7, <1>8 DEF CalIndInv

\* A worker that ends keeps its type and becomes a zombie.
LEMMA ExitsStep ==
  ASSUME worker \in [Run -> Worker], NEW r \in Run, NEW how \in {"exit", "signal"}, NEW n \in 0..127,
         Exits(r, how, n), worker[r].st \notin {"none", "reaped"}
  PROVE  /\ worker' \in [Run -> Worker]
         /\ \A q \in Run : /\ worker[q].st \in {"none", "reaped"} => worker'[q] = worker[q]
                           /\ worker[q].st \notin {"none", "reaped"} => worker'[q].st \notin {"none", "reaped"}
<1> DEFINE new == [worker[r] EXCEPT !.st = "zombie", !.status = [how |-> how, n |-> n]]
<1>1. worker' = [worker EXCEPT ![r] = new]
  BY DEF Exits
<1>2. new \in Worker /\ new.st = "zombie"
  BY DEF Worker, Status
<1> HIDE DEF new
<1> QED BY <1>1, <1>2

\* Every action of kk_calibrate.py, its collectors and the signals is such a
\* step.
LEMMA WorkerActions ==
  ASSUME CalIndInv, NEW r \in Run,
         \/ WorkerStarts(r) \/ Collect(r) \/ CollectorEnds(r) \/ WorkerExits(r)
         \/ WorkerLost(r) \/ WorkerKilled(r) \/ CollectorKilled(r)
         \/ \E text \in Files : WorkerWrites(r, text)
  PROVE  WorkersStep /\ daemonUnchanged
<1>1. /\ worker \in [Run -> Worker] /\ collector \in [Run -> Collector]
      /\ \A q \in Run : worker[q].st = "none" => worker[q] = NoWorker
  BY DEF CalIndInv, Types, CalTypeOK, Workers
<1>2. CASE WorkerStarts(r)
  <2>1. worker[r].st = "forked" /\ UNCHANGED <<collector, file>> /\ daemonUnchanged
    BY <1>2 DEF WorkerStarts
  <2>2. CASE worker' = [worker EXCEPT ![r].st = "running", ![r].group = TRUE]
    <3> DEFINE new == [worker[r] EXCEPT !.st = "running", !.group = TRUE]
    <3>1. new \in Worker /\ new.st = "running"
      BY <1>1 DEF Worker
    <3>2. worker' = [worker EXCEPT ![r] = new]
      BY <2>2
    <3> HIDE DEF new
    <3> QED BY <1>1, <2>1, <3>1, <3>2 DEF WorkersStep
  <2>3. CASE Exits(r, "exit", 126) \/ Exits(r, "exit", 127)
    BY <1>1, <2>1, <2>3, ExitsStep DEF WorkersStep
  <2> QED BY <1>2, <2>2, <2>3 DEF WorkerStarts
<1>3. CASE Collect(r)
  <2>1. UNCHANGED <<worker, file>> /\ daemonUnchanged /\ collector' = [collector EXCEPT ![r].st = "running"]
    BY <1>3 DEF Collect
  <2>2. collector' \in [Run -> Collector]
    BY <1>1, <2>1 DEF Collector
  <2> QED BY <1>1, <2>1, <2>2 DEF WorkersStep
<1>4. CASE CollectorEnds(r) \/ CollectorKilled(r)
  <2>1. UNCHANGED <<worker, file>> /\ daemonUnchanged /\ collector' = [collector EXCEPT ![r] = NoCollector]
    BY <1>4 DEF CollectorEnds, CollectorKilled
  <2>2. collector' \in [Run -> Collector]
    BY <1>1, <2>1 DEF Collector, NoCollector
  <2> QED BY <1>1, <2>1, <2>2 DEF WorkersStep
<1>5. CASE WorkerExits(r)
  <2>1. UNCHANGED <<collector, file>> /\ daemonUnchanged
    BY <1>5 DEF WorkerExits
  <2>2. worker[r].st \notin {"none", "reaped"} /\ \E n \in 0..127 : Exits(r, "exit", n)
    <3>1. worker[r].status.n \in 0..127
      BY <1>1 DEF Worker, Status
    <3> QED BY <1>5, <3>1 DEF WorkerExits
  <2> QED BY <1>1, <2>1, <2>2, ExitsStep DEF WorkersStep
<1>6. CASE WorkerLost(r)
  <2>1. UNCHANGED <<collector, file>> /\ daemonUnchanged
    BY <1>6 DEF WorkerLost
  <2>2. worker[r].st \notin {"none", "reaped"} /\ Exits(r, "signal", 9)
    BY <1>6 DEF WorkerLost
  <2> QED BY <1>1, <2>1, <2>2, ExitsStep DEF WorkersStep
<1>7. CASE WorkerKilled(r)
  <2>1. UNCHANGED <<collector, file>> /\ daemonUnchanged
    BY <1>7 DEF WorkerKilled
  <2>2. worker[r].st \notin {"none", "reaped"}
    BY <1>1, <1>7 DEF WorkerKilled, Exited, NoWorker
  <2>3. \E n \in 0..127 : Exits(r, "signal", n)
    BY <1>7 DEF WorkerKilled
  <2> QED BY <1>1, <2>1, <2>2, <2>3, ExitsStep DEF WorkersStep
<1>8. ASSUME NEW text \in Files, WorkerWrites(r, text) PROVE WorkersStep /\ daemonUnchanged
  <2> DEFINE v == IF text.status = "success" THEN 0 ELSE 2
             st == [worker[r].status EXCEPT !.n = v]
             w1 == [worker[r] EXCEPT !.st = "wrote"]
             f1 == [worker EXCEPT ![r] = w1]
             new == [w1 EXCEPT !.status = st]
  <2>1. /\ worker[r].st = "running" /\ file' = [by |-> r, text |-> text]
        /\ worker' = [worker EXCEPT ![r] = new] /\ UNCHANGED collector /\ daemonUnchanged
    <3>1. worker' = [f1 EXCEPT ![r] = [f1[r] EXCEPT !.status = [f1[r].status EXCEPT !.n = v]]]
      BY <1>8 DEF WorkerWrites
    <3>2. f1[r] = w1 /\ w1.status = worker[r].status
      BY <1>1 DEF Worker
    <3>3. \A n : [f1 EXCEPT ![r] = n] = [worker EXCEPT ![r] = n]
      BY <1>1
    <3>4. worker' = [worker EXCEPT ![r] = new]
      <4> HIDE DEF f1, w1, v
      <4> QED BY <3>1, <3>2, <3>3
    <3> QED BY <1>8, <3>4 DEF WorkerWrites
  <2>2. v \in 0..127
    OBVIOUS
  <2> HIDE DEF v
  <2>3. st \in Status
    BY <1>1, <2>2 DEF Worker, Status
  <2> HIDE DEF st
  <2>4. new \in Worker /\ new.st = "wrote"
    BY <1>1, <2>3 DEF Worker
  <2> HIDE DEF new
  <2> QED BY <1>1, <2>1, <2>4 DEF WorkersStep
<1> QED BY <1>2, <1>3, <1>4, <1>5, <1>6, <1>7, <1>8

-----------------------------------------------------------------------------
(* The daemon's side.                                                      *)

\* What is built from constants only does not change.
LEMMA Rigid ==
  /\ Run' = Run /\ FileState' = FileState /\ Phase' = Phase /\ Worker' = Worker
  /\ Collector' = Collector /\ ErrorCode' = ErrorCode /\ NoFile' = NoFile /\ NoWorker' = NoWorker
BY DEF Run, FileState, Phase, Worker, Collector, ErrorCode, NoFile, NoWorker, Status

\* main starts anew: the next run has no worker yet, whatever earlier runs
\* left behind.
LEMMA StartKeeps ==
  ASSUME CalIndInv, Start
  PROVE  CalIndInv'
<1>1. Types /\ Workers
  BY DEF CalIndInv
<1>2. /\ run' = run + 1 /\ run' \in Run /\ phase' \in {"calibrating", "failed"}
      /\ result' = calibration_result_reset /\ mapping' = NoMapping /\ bank_mapping_ready' = FALSE
      /\ accepted' = NoFile /\ exit_code' = -1 /\ rc' = rc /\ worker' = worker /\ collector' = collector
      /\ file' = file
  <2>1. run \in 0..MaxRuns /\ run < MaxRuns /\ run' = run + 1
    BY <1>1 DEF Start, Types, CalTypeOK
  <2>2. run' \in Run
    BY <2>1, CalibrationAssumption DEF Run
  <2> QED BY <2>2 DEF Start, processes
<1>3. Types'
  <2>1. TypeOK'
    <3>1. NoMapping \in [masks : Seq(Mask), id_len : 0..ID_MAX - 1, ready : BOOLEAN]
      BY MaskAssumption DEF NoMapping
    <3> QED BY <1>2, <3>1, ResetType DEF TypeOK, calibration_result, Mask
  <2>2. run' \in 0..MaxRuns /\ exit_code' \in -1..255
    BY <1>2, CalibrationAssumption DEF Run
  <2>3. phase' \in Phase /\ accepted' \in FileState
    BY <1>2 DEF Phase, FileState
  <2> QED BY <1>1, <1>2, <2>1, <2>2, <2>3, Rigid DEF Types, CalTypeOK
<1>4. run \in Int /\ worker[run'].st = "none"
  BY <1>1, <1>2 DEF Types, CalTypeOK, Workers, Run
<1>5. Workers'
  BY <1>1, <1>2, <1>4, Rigid DEF Workers, Run
<1>6. Stages' /\ FreshFile' /\ LoadedOk' /\ AttachedIsCalibrated'
  BY <1>2, <1>4 DEF Stages, FreshFile, LoadedOk, AttachedIsCalibrated
<1> QED BY <1>3, <1>5, <1>6 DEF CalIndInv

\* The variables that only LoadResult, InitMapping and Start assign keep
\* their types while these stay as they are.
LEMMA KeptTypes ==
  ASSUME Types, run' = run, result' = result, mapping' = mapping,
         bank_mapping_ready' = bank_mapping_ready, accepted' = accepted,
         phase' \in Phase, phase # "down" \/ phase' = "down",
         rc' \in [Run -> {"none", "OK"} \cup ErrorCode], exit_code' \in -1..255,
         worker' \in [Run -> Worker], collector' \in [Run -> Collector], file' \in {file, NoFile}
  PROVE  Types'
<1>1. TypeOK'
  BY DEF Types, CalTypeOK, TypeOK
<1>2. file'.by \in 0..MaxRuns /\ file' \in FileState
  BY CalibrationAssumption DEF Types, CalTypeOK, FileState, NoFile
<1> QED BY <1>1, <1>2, Rigid DEF Types, CalTypeOK

\* Fail records an error of the present run.
LEMMA FailTypes ==
  ASSUME Types, run \in Run, NEW code \in ErrorCode, Fail(code)
  PROVE  /\ rc' \in [Run -> {"none", "OK"} \cup ErrorCode] /\ rc'[run] = code
         /\ phase' = "failed" /\ phase' \in Phase
<1>1. rc \in [Run -> {"none", "OK"} \cup ErrorCode]
  BY DEF Types, CalTypeOK
<1> QED BY <1>1 DEF Fail, Phase

\* The stale file is removed, or calibration_run fails before it has a worker.
LEMMA RemoveStaleKeeps ==
  ASSUME CalIndInv, RemoveStale
  PROVE  CalIndInv'
<1>1. Types /\ Workers /\ Stages /\ run \in Run /\ phase = "calibrating" /\ worker[run].st = "none"
  BY DEF CalIndInv, RemoveStale, Types, Stages
<1>2. /\ run' = run /\ exit_code' = exit_code /\ worker' = worker /\ collector' = collector
      /\ result' = result /\ mapping' = mapping /\ bank_mapping_ready' = bank_mapping_ready
      /\ accepted' = accepted
  BY DEF RemoveStale, context
<1>3. CASE file' = NoFile /\ phase' = "launching" /\ UNCHANGED rc
  <2>1. Types'
    BY <1>1, <1>2, <1>3, KeptTypes DEF Types, CalTypeOK, Phase
  <2>2. Workers'
    BY <1>1, <1>2, Rigid DEF Workers
  <2>3. Stages' /\ FreshFile' /\ LoadedOk' /\ AttachedIsCalibrated'
    BY <1>1, <1>2, <1>3, Rigid DEF Stages, FreshFile, LoadedOk, AttachedIsCalibrated
  <2> QED BY <2>1, <2>2, <2>3 DEF CalIndInv
<1>4. CASE Fail("IO") /\ UNCHANGED file
  <2>0. "IO" \in ErrorCode
    BY DEF ErrorCode
  <2>1. rc' \in [Run -> {"none", "OK"} \cup ErrorCode] /\ phase' = "failed" /\ phase' \in Phase
    BY <1>1, <1>4, <2>0, FailTypes
  <2>2. Types'
    BY <1>1, <1>2, <1>4, <2>1, KeptTypes DEF Types, CalTypeOK
  <2>3. Workers'
    BY <1>1, <1>2, Rigid DEF Workers
  <2>4. Stages' /\ FreshFile' /\ LoadedOk' /\ AttachedIsCalibrated'
    BY <1>1, <1>2, <2>1, Rigid DEF Stages, FreshFile, LoadedOk, AttachedIsCalibrated
  <2> QED BY <2>2, <2>3, <2>4 DEF CalIndInv
<1> QED BY <1>3, <1>4 DEF RemoveStale

\* A change to the present run's worker leaves the other runs' workers, and
\* what is known of the writer of the file, as they are.
LEMMA OwnWorker ==
  ASSUME Types, Workers, run \in Run, run' = run, file' = file, worker' \in [Run -> Worker],
         \A q \in Run : q # run => worker'[q] = worker[q],
         worker'[run].st = "none" => worker'[run] = NoWorker
  PROVE  /\ Workers'
         /\ (file # NoFile => file.by = run \/ worker[file.by].st # "reaped")
              => (file # NoFile => file.by = run \/ worker'[file.by].st # "reaped")
<1>1. Workers'
  <2> SUFFICES ASSUME NEW q \in Run
               PROVE  (worker'[q].st = "none" => worker'[q] = NoWorker) /\ (q > run => worker'[q].st = "none")
    BY Rigid DEF Workers
  <2>1. CASE q = run
    BY <2>1 DEF Run
  <2>2. CASE q # run
    BY <2>2 DEF Workers
  <2> QED BY <2>1, <2>2
<1>2. file # NoFile => file.by \in Run
  BY DEF Types, FileState
<1> QED BY <1>1, <1>2

\* The worker is forked, or calibration_run fails without one.
LEMMA LaunchKeeps ==
  ASSUME CalIndInv, Launch
  PROVE  CalIndInv'
<1>1. Types /\ Workers /\ Stages /\ FreshFile /\ run \in Run /\ phase = "launching" /\ worker[run].st = "none"
  BY DEF CalIndInv, Launch, Types, Stages
<1>2. /\ run' = run /\ exit_code' = exit_code /\ collector' = collector /\ file' = file
      /\ result' = result /\ mapping' = mapping /\ bank_mapping_ready' = bank_mapping_ready
      /\ accepted' = accepted
  BY DEF Launch, context
<1>3. CASE /\ worker' = [worker EXCEPT ![run] = [NoWorker EXCEPT !.st = "forked"]]
           /\ phase' = "joining" /\ UNCHANGED rc
  <2> DEFINE new == [NoWorker EXCEPT !.st = "forked"]
  <2>1. new \in Worker /\ new.st = "forked"
    <3>1. NoWorker.status \in Status
      BY DEF NoWorker, Status
    <3>2. NoWorker \in Worker
      BY <3>1 DEF NoWorker, Worker
    <3> QED BY <3>2 DEF Worker
  <2>2. worker' = [worker EXCEPT ![run] = new] /\ worker \in [Run -> Worker]
    BY <1>1, <1>3 DEF Types, CalTypeOK
  <2> HIDE DEF new
  <2>3. worker' \in [Run -> Worker] /\ worker'[run].st = "forked"
    BY <1>1, <2>1, <2>2
  <2>4. \A q \in Run : q # run => worker'[q] = worker[q]
    BY <2>2
  <2>5. Types'
    BY <1>1, <1>2, <1>3, <2>3, KeptTypes DEF Types, CalTypeOK, Phase
  <2>6. Workers' /\ FreshFile'
    BY <1>1, <1>2, <2>3, <2>4, OwnWorker, Rigid DEF FreshFile
  <2>8. Stages' /\ LoadedOk' /\ AttachedIsCalibrated'
    BY <1>2, <1>3, <2>3 DEF Stages, LoadedOk, AttachedIsCalibrated
  <2> QED BY <2>5, <2>6, <2>8 DEF CalIndInv
<1>4. CASE Fail("FORK") /\ UNCHANGED worker
  <2>0. "FORK" \in ErrorCode
    BY DEF ErrorCode
  <2>1. rc' \in [Run -> {"none", "OK"} \cup ErrorCode] /\ phase' = "failed" /\ phase' \in Phase
    BY <1>1, <1>4, <2>0, FailTypes
  <2>2. Types'
    BY <1>1, <1>2, <1>4, <2>1, KeptTypes DEF Types, CalTypeOK
  <2>3. Workers'
    BY <1>1, <1>2, <1>4, Rigid DEF Workers
  <2>4. Stages' /\ FreshFile' /\ LoadedOk' /\ AttachedIsCalibrated'
    BY <1>1, <1>2, <1>4, <2>1 DEF Stages, FreshFile, LoadedOk, AttachedIsCalibrated
  <2> QED BY <2>2, <2>3, <2>4 DEF CalIndInv
<1> QED BY <1>3, <1>4 DEF Launch

\* setpgid in the parent, then wait_child reads the clock or gives up.
LEMMA BeginWaitKeeps ==
  ASSUME CalIndInv, BeginWait
  PROVE  CalIndInv'
<1>1. Types /\ Workers /\ FreshFile /\ run \in Run /\ phase = "joining" /\ worker[run].st # "none"
  BY DEF CalIndInv, BeginWait, Types, Stages
<1>2. /\ run' = run /\ exit_code' = exit_code /\ collector' = collector /\ file' = file
      /\ result' = result /\ mapping' = mapping /\ bank_mapping_ready' = bank_mapping_ready
      /\ accepted' = accepted
  BY DEF BeginWait, context
<1> DEFINE new == [worker[run] EXCEPT !.group = TRUE]
<1>3. worker' = [worker EXCEPT ![run] = new] /\ worker \in [Run -> Worker]
  BY <1>1 DEF BeginWait, JoinGroup, Types, CalTypeOK
<1>4. new \in Worker /\ new.st = worker[run].st
  BY <1>1, <1>3 DEF Worker
<1> HIDE DEF new
<1>5. /\ worker' \in [Run -> Worker] /\ worker'[run].st = worker[run].st
      /\ \A q \in Run : q # run => worker'[q] = worker[q]
  BY <1>1, <1>3, <1>4
<1>6. Workers' /\ (file # NoFile => file.by = run \/ worker'[file.by].st # "reaped")
  BY <1>1, <1>2, <1>5, OwnWorker DEF FreshFile
<1>7. CASE phase' = "waiting" /\ UNCHANGED rc
  <2>1. Types'
    BY <1>1, <1>2, <1>5, <1>7, KeptTypes DEF Types, CalTypeOK, Phase
  <2>2. Stages' /\ FreshFile' /\ LoadedOk' /\ AttachedIsCalibrated'
    BY <1>2, <1>6, <1>7, Rigid DEF Stages, FreshFile, LoadedOk, AttachedIsCalibrated
  <2> QED BY <1>6, <2>1, <2>2 DEF CalIndInv
<1>8. CASE Fail("WAIT")
  <2>0. "WAIT" \in ErrorCode
    BY DEF ErrorCode
  <2>1. /\ rc' \in [Run -> {"none", "OK"} \cup ErrorCode] /\ rc'[run] = "WAIT"
        /\ phase' = "failed" /\ phase' \in Phase
    BY <1>1, <1>8, <2>0, FailTypes
  <2>2. Types'
    BY <1>1, <1>2, <1>5, <2>1, KeptTypes DEF Types, CalTypeOK
  <2>3. Stages' /\ FreshFile' /\ LoadedOk' /\ AttachedIsCalibrated'
    BY <1>2, <2>1 DEF Stages, FreshFile, LoadedOk, AttachedIsCalibrated
  <2> QED BY <1>6, <2>2, <2>3 DEF CalIndInv
<1> QED BY <1>7, <1>8 DEF BeginWait

\* kill(-pid, sig) changes no process's state by itself, and reaches nobody
\* when there is no worker.
LEMMA SignalGroupTypes ==
  ASSUME Types, Workers, run \in Run, NEW sig \in {"TERM", "KILL"}, SignalGroup(sig)
  PROVE  /\ worker' \in [Run -> Worker] /\ collector' \in [Run -> Collector]
         /\ worker'[run].st = worker[run].st
         /\ worker'[run].st = "none" => worker'[run] = NoWorker
         /\ \A q \in Run : q # run => worker'[q] = worker[q]
<1> DEFINE new == [worker[run] EXCEPT !.signal = sig]
           col == [collector[run] EXCEPT !.signal = sig]
<1>1. /\ worker \in [Run -> Worker] /\ collector \in [Run -> Collector]
      /\ worker[run].st = "none" => worker[run] = NoWorker
  BY DEF Types, CalTypeOK, Workers
<1>2. new \in Worker /\ new.st = worker[run].st /\ col \in Collector
  BY <1>1 DEF Worker, Collector
<1>3. /\ worker' = IF worker[run].group /\ ~Exited(worker[run]) THEN [worker EXCEPT ![run] = new] ELSE worker
      /\ collector' = IF collector[run].st = "running" THEN [collector EXCEPT ![run] = col] ELSE collector
  BY DEF SignalGroup, Signalled
<1>4. worker[run].st = "none" => ~worker[run].group
  BY <1>1 DEF NoWorker
<1> HIDE DEF new, col
<1>5. collector' \in [Run -> Collector]
  BY <1>1, <1>2, <1>3
<1>6. CASE worker[run].group /\ ~Exited(worker[run])
  BY <1>1, <1>2, <1>3, <1>4, <1>5, <1>6
<1>7. CASE ~(worker[run].group /\ ~Exited(worker[run]))
  BY <1>1, <1>3, <1>5, <1>7
<1> QED BY <1>6, <1>7

\* The worker is reaped from the zombie it became.
LEMMA ReapTypes ==
  ASSUME Types, run \in Run, Reap
  PROVE  /\ worker' \in [Run -> Worker] /\ worker'[run].st = "reaped"
         /\ \A q \in Run : q # run => worker'[q] = worker[q]
<1> DEFINE new == [worker[run] EXCEPT !.st = "reaped"]
<1>1. worker \in [Run -> Worker] /\ worker' = [worker EXCEPT ![run] = new]
  BY DEF Types, CalTypeOK, Reap
<1>2. new \in Worker /\ new.st = "reaped"
  BY <1>1 DEF Worker
<1> HIDE DEF new
<1> QED BY <1>1, <1>2

\* An exit status decodes to a byte.
LEMMA ExitCodeType ==
  ASSUME NEW status \in Status
  PROVE  ExitCode(status) \in 0..255
BY DEF Status, ExitCode

\* One poll of wait_child: the worker is reaped and its result looked at, or
\* the group is told to terminate.
LEMMA PollWorkerKeeps ==
  ASSUME CalIndInv, PollWorker
  PROVE  CalIndInv'
<1>1. Types /\ Workers /\ FreshFile /\ run \in Run /\ phase = "waiting"
  BY DEF CalIndInv, PollWorker, Types
<1>2. /\ run' = run /\ file' = file /\ result' = result /\ mapping' = mapping
      /\ bank_mapping_ready' = bank_mapping_ready /\ accepted' = accepted
  BY DEF PollWorker, context
<1>3. CASE /\ worker[run].st = "zombie" /\ Reap /\ exit_code' = ExitCode(worker[run].status)
           /\ phase' = "loading" /\ UNCHANGED <<rc, clock, collector>>
  <2>1. /\ worker' \in [Run -> Worker] /\ worker'[run].st = "reaped"
        /\ \A q \in Run : q # run => worker'[q] = worker[q]
    BY <1>1, <1>3, ReapTypes
  <2>2. Workers' /\ (file # NoFile => file.by = run \/ worker'[file.by].st # "reaped")
    BY <1>1, <1>2, <2>1, OwnWorker DEF FreshFile
  <2>3. worker[run].status \in Status
    BY <1>1 DEF Types, CalTypeOK, Worker
  <2>4. exit_code' \in -1..255
    BY <1>3, <2>3, ExitCodeType
  <2>5. Types'
    BY <1>1, <1>2, <1>3, <2>1, <2>4, KeptTypes DEF Types, CalTypeOK, Phase
  <2>6. Stages' /\ FreshFile' /\ LoadedOk' /\ AttachedIsCalibrated'
    BY <1>2, <1>3, <2>1, <2>2, Rigid DEF Stages, FreshFile, LoadedOk, AttachedIsCalibrated
  <2> QED BY <2>2, <2>5, <2>6 DEF CalIndInv
<1>4. ASSUME NEW code \in {"TIMEOUT", "WAIT"}, Terminate(code), UNCHANGED exit_code
      PROVE  CalIndInv'
  <2>1. /\ worker' \in [Run -> Worker] /\ collector' \in [Run -> Collector]
        /\ worker'[run].st = "none" => worker'[run] = NoWorker
        /\ \A q \in Run : q # run => worker'[q] = worker[q]
    BY <1>1, <1>4, SignalGroupTypes DEF Terminate
  <2>2. Workers'
    BY <1>1, <1>2, <2>1, OwnWorker
  <2>3. rc' \in [Run -> {"none", "OK"} \cup ErrorCode] /\ phase' \in {"terminating", "draining"}
    BY <1>1, <1>4 DEF Terminate, Types, CalTypeOK, ErrorCode
  <2>4. Types'
    BY <1>1, <1>2, <1>4, <2>1, <2>3, KeptTypes DEF Types, CalTypeOK, Phase
  <2>5. Stages' /\ FreshFile' /\ LoadedOk' /\ AttachedIsCalibrated'
    BY <2>3 DEF Stages, FreshFile, LoadedOk, AttachedIsCalibrated
  <2> QED BY <2>2, <2>4, <2>5 DEF CalIndInv
<1> QED BY <1>3, <1>4 DEF PollWorker

\* terminate_process_group ends with the worker reaped, or goes on to SIGKILL.
LEMMA FinishTerminationKeeps ==
  ASSUME CalIndInv, FinishTermination
  PROVE  CalIndInv'
<1>1. /\ Types /\ Workers /\ run \in Run /\ phase # "down"
      /\ phase \in {"terminating", "draining", "killing"}
  BY DEF CalIndInv, FinishTermination, Types
<1>2. /\ run' = run /\ rc' = rc /\ exit_code' = exit_code /\ file' = file /\ result' = result
      /\ mapping' = mapping /\ bank_mapping_ready' = bank_mapping_ready /\ accepted' = accepted
  BY DEF FinishTermination, context
<1>3. CASE worker[run].st = "zombie" /\ Reap /\ phase' = "failed" /\ UNCHANGED collector
  <2>1. /\ worker' \in [Run -> Worker] /\ worker'[run].st = "reaped"
        /\ \A q \in Run : q # run => worker'[q] = worker[q]
    BY <1>1, <1>3, ReapTypes
  <2>2. Workers'
    BY <1>1, <1>2, <2>1, OwnWorker
  <2>3. Types'
    BY <1>1, <1>2, <1>3, <2>1, KeptTypes DEF Types, CalTypeOK, Phase
  <2>4. Stages' /\ FreshFile' /\ LoadedOk' /\ AttachedIsCalibrated'
    BY <1>2, <1>3, <2>1 DEF Stages, FreshFile, LoadedOk, AttachedIsCalibrated
  <2> QED BY <2>2, <2>3, <2>4 DEF CalIndInv
<1>4. CASE SignalGroup("KILL") /\ phase' = "killing"
  <2>1. /\ worker' \in [Run -> Worker] /\ collector' \in [Run -> Collector]
        /\ worker'[run].st = "none" => worker'[run] = NoWorker
        /\ \A q \in Run : q # run => worker'[q] = worker[q]
    BY <1>1, <1>4, SignalGroupTypes
  <2>2. Workers'
    BY <1>1, <1>2, <2>1, OwnWorker
  <2>3. Types'
    BY <1>1, <1>2, <1>4, <2>1, KeptTypes DEF Types, CalTypeOK, Phase
  <2>4. Stages' /\ FreshFile' /\ LoadedOk' /\ AttachedIsCalibrated'
    BY <1>4 DEF Stages, FreshFile, LoadedOk, AttachedIsCalibrated
  <2> QED BY <2>2, <2>3, <2>4 DEF CalIndInv
<1> QED BY <1>3, <1>4 DEF FinishTermination

\* calibration_run reports success only when the file was found, parses and
\* the worker exited with 0; otherwise it reports an error.
LEMMA FinalCodeIs ==
  ASSUME NEW code \in {"OK", "IO", "JSON", "REJECTED", "TOO_MANY_MASKS"}, NEW exit
  PROVE  /\ FinalCode(code, exit) \in {"OK"} \cup ErrorCode
         /\ FinalCode(code, exit) = "OK" => exit = 0 /\ code = "OK"
BY DEF FinalCode, ErrorCode

\* The result file is read by a daemon whose worker was reaped.
LEMMA LoadResultKeeps ==
  ASSUME CalIndInv, LoadResult
  PROVE  CalIndInv'
<1>1. Types /\ Workers /\ Stages /\ run \in Run /\ phase = "loading" /\ worker[run].st = "reaped"
  BY DEF CalIndInv, LoadResult, Types, Stages
<1>2. /\ run' = run /\ exit_code' = exit_code /\ worker' = worker /\ collector' = collector
      /\ file' = file /\ mapping' = mapping /\ bank_mapping_ready' = bank_mapping_ready
  BY DEF LoadResult, processes
<1>3. PICK readable \in BOOLEAN :
        LET found == readable /\ file # NoFile
            code == FinalCode(IF found THEN LoadCode(file.text) ELSE "IO", exit_code)
        IN  /\ result' = IF found THEN Loaded(file.text) ELSE calibration_result_reset
            /\ accepted' = IF found THEN file ELSE NoFile
            /\ rc' = [rc EXCEPT ![run] = code]
            /\ phase' = IF code = "OK" THEN "mapping" ELSE "failed"
  BY DEF LoadResult
<1> DEFINE found == readable /\ file # NoFile
           read == IF found THEN LoadCode(file.text) ELSE "IO"
           code == FinalCode(read, exit_code)
<1>4. found => file.text \in File
  BY <1>1, FilesAssumption DEF Types, FileState
<1>5. read \in {"OK", "IO", "JSON", "REJECTED", "TOO_MANY_MASKS"} /\ (read = "OK" => found)
  BY <1>4, LoadCodeType
<1>6. code \in {"OK"} \cup ErrorCode /\ (code = "OK" => exit_code = 0 /\ found /\ LoadCode(file.text) = "OK")
  <2> HIDE DEF read
  <2>1. code \in {"OK"} \cup ErrorCode /\ (code = "OK" => exit_code = 0 /\ read = "OK")
    BY <1>5, FinalCodeIs
  <2>2. read = "OK" => found /\ LoadCode(file.text) = "OK"
    BY <1>5 DEF read
  <2> QED BY <2>1, <2>2
<1>7. /\ result' = IF found THEN Loaded(file.text) ELSE calibration_result_reset
      /\ accepted' = IF found THEN file ELSE NoFile
      /\ rc' = [rc EXCEPT ![run] = code]
      /\ phase' = IF code = "OK" THEN "mapping" ELSE "failed"
  BY <1>3
<1> HIDE DEF found, read, code
<1>8. rc' \in [Run -> {"none", "OK"} \cup ErrorCode] /\ rc'[run] = code
  BY <1>1, <1>6, <1>7 DEF Types, CalTypeOK
<1>9. Types'
  <2>1. result' \in calibration_result /\ result'.id_len < ID_MAX
    BY <1>4, <1>7, LoadedType, ResetType
  <2>2. TypeOK'
    BY <1>1, <1>2, <2>1 DEF Types, CalTypeOK, TypeOK, calibration_result, Mask
  <2>3. accepted' \in FileState /\ phase' \in Phase
    BY <1>1, <1>7 DEF Types, FileState, Phase
  <2> QED BY <1>1, <1>2, <1>8, <2>2, <2>3, Rigid DEF Types, CalTypeOK
<1>10. Workers' /\ Stages' /\ FreshFile' /\ AttachedIsCalibrated'
  <2>1. Workers'
    BY <1>1, <1>2, Rigid DEF Workers
  <2>2. phase' \in {"mapping", "failed"}
    BY <1>7
  <2> QED BY <1>1, <1>2, <2>1, <2>2 DEF Stages, FreshFile, AttachedIsCalibrated
<1>11. LoadedOk'
  <2> SUFFICES ASSUME code = "OK"
               PROVE  /\ exit_code' = 0 /\ rc'[run'] = "OK" /\ accepted' # NoFile
                      /\ LoadCode(accepted'.text) = "OK" /\ result' = Loaded(accepted'.text)
    BY <1>7, Rigid DEF LoadedOk
  <2>1. exit_code = 0 /\ found /\ LoadCode(file.text) = "OK" /\ file # NoFile
    BY <1>6 DEF found
  <2> QED BY <1>2, <1>7, <1>8, <2>1
<1> QED BY <1>9, <1>10, <1>11 DEF CalIndInv

\* init_dram_bank_mapping: the masks that become the mapping are those of
\* the file that was accepted.
LEMMA InitMappingKeeps ==
  ASSUME CalIndInv, InitMapping
  PROVE  CalIndInv'
<1>1. Types /\ Workers /\ Stages /\ LoadedOk /\ run \in Run /\ phase = "mapping" /\ worker[run].st = "reaped"
  BY DEF CalIndInv, InitMapping, Types, Stages
<1>2. /\ run' = run /\ rc' = rc /\ exit_code' = exit_code /\ worker' = worker /\ collector' = collector
      /\ file' = file /\ result' = result /\ accepted' = accepted
      /\ mapping' = InitFrom(mapping, result)
      /\ bank_mapping_ready' = (validate_calibration_result(result) = "OK")
      /\ phase' = IF bank_mapping_ready' THEN "attaching" ELSE "failed"
  BY DEF InitMapping, processes
<1>3. result \in calibration_result /\ result.id_len < ID_MAX
  BY <1>1 DEF Types, CalTypeOK, TypeOK
<1>4. Types'
  <2>1. mapping' \in [masks : Seq(Mask), id_len : 0..ID_MAX - 1, ready : BOOLEAN]
    BY <1>2, <1>3, InitFromType
  <2>2. TypeOK'
    BY <1>2, <1>3, <2>1 DEF TypeOK, calibration_result, Mask
  <2>3. bank_mapping_ready' \in BOOLEAN /\ phase' \in Phase
    <3> DEFINE ok == validate_calibration_result(result) = "OK"
    <3>1. ok \in BOOLEAN
      OBVIOUS
    <3>2. bank_mapping_ready' = ok
      BY <1>2
    <3> HIDE DEF ok
    <3>3. bank_mapping_ready' \in BOOLEAN
      BY <3>1, <3>2
    <3> QED BY <1>2, <3>3 DEF Phase
  <2> QED BY <1>1, <1>2, <2>2, <2>3, Rigid DEF Types, CalTypeOK
<1>5. Workers' /\ Stages' /\ FreshFile' /\ LoadedOk'
  <2>1. Workers'
    BY <1>1, <1>2, Rigid DEF Workers
  <2>2. phase' \in {"attaching", "failed"}
    BY <1>2
  <2> QED BY <1>1, <1>2, <2>1, <2>2 DEF Stages, FreshFile, LoadedOk
<1>6. AttachedIsCalibrated'
  <2> SUFFICES ASSUME phase' = "attaching"
               PROVE  /\ bank_mapping_ready' /\ dram_mapping_is_ready(mapping')
                      /\ exit_code = 0 /\ rc[run] = "OK"
                      /\ accepted.text.status = "success" /\ accepted.text.passed = "true"
                      /\ mapping'.masks = accepted.text.masks
    BY <1>2 DEF AttachedIsCalibrated, dram_mapping_is_ready
  <2>1. validate_calibration_result(result) = "OK" /\ bank_mapping_ready'
    BY <1>2
  <2>2. mapping' = [masks |-> result.bank_masks, id_len |-> result.id_len, ready |-> TRUE]
    BY <1>2, <2>1 DEF InitFrom
  <2>3. Len(result.bank_masks) \in 1..MAX_MASKS
    BY <2>1, ValidIsUsable
  <2>4. /\ exit_code = 0 /\ rc[run] = "OK" /\ accepted # NoFile
        /\ LoadCode(accepted.text) = "OK" /\ result = Loaded(accepted.text)
    BY <1>1 DEF LoadedOk
  <2>5. accepted.text \in File
    BY <1>1, <2>4, FilesAssumption DEF Types, FileState
  <2>6. /\ accepted.text.status = "success" /\ accepted.text.passed = "true"
        /\ result.bank_masks = accepted.text.masks
    BY <2>4, <2>5, LoadedOkIs
  <2>7. result.bank_masks # <<>>
    BY <2>3
  <2> QED BY <2>1, <2>2, <2>4, <2>6, <2>7 DEF dram_mapping_is_ready
<1> QED BY <1>4, <1>5, <1>6 DEF CalIndInv

\* The daemon attaches and runs, stops, is killed, sleeps or does nothing:
\* only the phase or the clock changes.
LEMMA PhaseOnlyKeeps ==
  ASSUME CalIndInv, Attach \/ Crash \/ Tick \/ UNCHANGED calVars
  PROVE  CalIndInv'
<1>1. Types /\ Workers /\ Stages /\ FreshFile /\ LoadedOk /\ AttachedIsCalibrated
  BY DEF CalIndInv
<1>2. /\ run' = run /\ rc' = rc /\ exit_code' = exit_code /\ worker' = worker /\ collector' = collector
      /\ file' = file /\ result' = result /\ mapping' = mapping /\ accepted' = accepted
      /\ bank_mapping_ready' = bank_mapping_ready
  BY DEF Attach, Crash, Tick, calVars, processes, context
<1>3. \/ phase \in {"attaching", "running"} /\ phase' \in {"running", "failed"}
      \/ phase # "down" /\ phase' = "down"
      \/ phase' = phase
  BY DEF Attach, Crash, Tick, calVars
<1>4. Types'
  BY <1>1, <1>2, <1>3, KeptTypes DEF Types, CalTypeOK, Phase
<1>5. Workers'
  BY <1>1, <1>2, Rigid DEF Workers
<1>6. dram_mapping_is_ready(mapping') = dram_mapping_is_ready(mapping)
  BY <1>2
<1>7. Stages' /\ FreshFile' /\ LoadedOk' /\ AttachedIsCalibrated'
  BY <1>1, <1>2, <1>3, <1>6, Rigid DEF Stages, FreshFile, LoadedOk, AttachedIsCalibrated, dram_mapping_is_ready
<1> QED BY <1>4, <1>5, <1>7 DEF CalIndInv

-----------------------------------------------------------------------------
(* The theorems.                                                           *)

\* The inductive invariant holds of every start, crash and restart.
THEOREM CalibrationInductive == CalSpec => []CalIndInv
<1>1. CalInit => CalIndInv
  <2> SUFFICES ASSUME CalInit PROVE CalIndInv
    OBVIOUS
  <2>1. /\ result = calibration_result_reset /\ mapping = NoMapping
        /\ phase = "down" /\ run = 0 /\ rc = [r \in Run |-> "none"]
        /\ exit_code = -1 /\ worker = [r \in Run |-> NoWorker] /\ collector = [r \in Run |-> NoCollector]
        /\ file = NoFile /\ accepted = NoFile /\ bank_mapping_ready = FALSE
    BY DEF CalInit, Init
  <2>2. TypeOK
    BY <2>1, ResetType, MaskAssumption DEF TypeOK, NoMapping
  <2>3. NoWorker \in Worker /\ NoCollector \in Collector
    <3>1. NoWorker.status \in Status
      BY DEF NoWorker, Status
    <3> QED BY <3>1 DEF NoWorker, Worker, NoCollector, Collector
  <2>4. Types
    <3>1. file \in FileState /\ accepted \in FileState /\ phase \in Phase
      BY <2>1 DEF FileState, Phase
    <3>2. file.by \in 0..MaxRuns /\ run \in 0..MaxRuns /\ exit_code \in -1..255
      BY <2>1, CalibrationAssumption DEF NoFile
    <3>3. /\ rc \in [Run -> {"none", "OK"} \cup ErrorCode] /\ worker \in [Run -> Worker]
          /\ collector \in [Run -> Collector]
      BY <2>1, <2>3
    <3> QED BY <2>1, <2>2, <3>1, <3>2, <3>3 DEF Types, CalTypeOK
  <2>5. Workers
    BY <2>1 DEF Workers, NoWorker
  <2>6. Stages /\ FreshFile /\ LoadedOk /\ AttachedIsCalibrated
    BY <2>1 DEF Stages, FreshFile, LoadedOk, AttachedIsCalibrated
  <2> QED BY <2>4, <2>5, <2>6 DEF CalIndInv
<1>2. CalIndInv /\ [CalNext]_calVars => CalIndInv'
  <2> SUFFICES ASSUME CalIndInv, [CalNext]_calVars PROVE CalIndInv'
    OBVIOUS
  <2>1. CASE Start
    BY <2>1, StartKeeps
  <2>2. CASE DaemonStep
    BY <2>2, RemoveStaleKeeps, LaunchKeeps, BeginWaitKeeps, PollWorkerKeeps, FinishTerminationKeeps,
       LoadResultKeeps, InitMappingKeeps, PhaseOnlyKeeps DEF DaemonStep
  <2>3. CASE Crash \/ Tick \/ UNCHANGED calVars
    BY <2>3, PhaseOnlyKeeps
  <2>4. ASSUME NEW r \in Run,
               \/ WorkerStarts(r) \/ Collect(r) \/ CollectorEnds(r) \/ WorkerExits(r)
               \/ WorkerLost(r) \/ WorkerKilled(r) \/ CollectorKilled(r)
               \/ \E text \in Files : WorkerWrites(r, text)
        PROVE  CalIndInv'
    BY <2>4, WorkerActions, WorkersStepKeeps
  <2> QED BY <2>1, <2>2, <2>3, <2>4 DEF CalNext
<1> QED BY <1>1, <1>2, PTL DEF CalSpec

\* However calibration_run ends, unless the clock cannot be read, it leaves
\* no worker behind that could still write the result file.
THEOREM NoWorkerIsLeft == CalSpec => []WorkerInv
<1>1. CalIndInv => WorkerInv
  BY DEF CalIndInv, Types, Stages, WorkerInv, NoWorkerLeft
<1> QED BY <1>1, CalibrationInductive, PTL

\* calibration_run never parses the result of a worker that an earlier
\* daemon waited for.
THEOREM NoStaleResult == CalSpec => []ForeignFileIsOrphans
<1>1. CalIndInv => ForeignFileIsOrphans
  BY DEF CalIndInv, FreshFile, ForeignFileIsOrphans
<1> QED BY <1>1, CalibrationInductive, PTL

\* The daemon attaches its BPF programs only with the masks of an accepted
\* file from a worker that exited with 0, in every history of crashes,
\* restarts, timeouts and late workers.
THEOREM OnlyCalibratedAttaches == CalSpec => []AttachedIsCalibrated
<1>1. CalIndInv => AttachedIsCalibrated
  BY DEF CalIndInv
<1> QED BY <1>1, CalibrationInductive, PTL
=============================================================================
