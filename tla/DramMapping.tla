----------------------------- MODULE DramMapping -----------------------------
(***************************************************************************)
(* protected-daemon/src/dram_mapping.c: the parity masks that tell which   *)
(* physical addresses fall into the same DRAM bank class, built from a     *)
(* calibration result.                                                     *)
(* Words are those of BankClasses.                                         *)
(***************************************************************************)
EXTENDS CalibrationResult, BankClasses

CONSTANT Files   \* the result files that calibration_load_result may meet

ASSUME FilesAssumption == Files \subseteq File

VARIABLES
    result,      \* struct calibration_result of the caller
    mapping,     \* struct dram_mapping
    ret          \* last call and its return code

vars == <<result, mapping, ret>>

-----------------------------------------------------------------------------
\* memset to zero.
NoMapping == [masks |-> <<>>, id_len |-> 0, ready |-> FALSE]

dram_mapping_is_ready(m) == m.ready /\ m.masks # <<>>

\* Defect: the loop compares only the first mask.
Bug_SameFirstMask(masks, pa1, pa2) == parity64(Xor(pa1, pa2) \cap masks[1]) = 0

\* The loop of dram_mapping_same_bank_class: no class is built.
SameBankClass(masks, pa1, pa2) ==
    \A i \in 1..Len(masks) : parity64(Xor(pa1, pa2) \cap masks[i]) = 0

-----------------------------------------------------------------------------
(* Initialization.                                                         *)

\* Indices at which the loop over the masks returns an error.
Unusable(masks) ==
    {i \in 1..Len(masks) : masks[i] = {} \/ \E j \in 1..i - 1 : masks[j] = masks[i]}

\* Defect: duplicate masks are accepted.
Bug_ValidateLax(r) ==
    IF ~r.status_success \/ ~r.acceptance_passed THEN "CALIBRATION_REJECTED"
    ELSE IF Len(r.bank_masks) \notin 1..MAX_MASKS THEN "MASK_COUNT" ELSE "OK"

validate_calibration_result(r) ==
    LET bad == Unusable(r.bank_masks)
        first == CHOOSE i \in bad : \A j \in bad : i <= j
    IN  IF ~r.status_success \/ ~r.acceptance_passed THEN "CALIBRATION_REJECTED"
        ELSE IF Len(r.bank_masks) \notin 1..MAX_MASKS THEN "MASK_COUNT"
        ELSE IF r.id_len \notin 1..ID_MAX - 1 THEN "MASK_SET_ID"
        ELSE IF bad = {} THEN "OK"
        ELSE IF r.bank_masks[first] = {} THEN "ZERO_MASK" ELSE "DUPLICATE_MASK"

\* Defect: the old mapping is kept when the new result is not valid.
Bug_InitKeepsOld(old, r) ==
    IF validate_calibration_result(r) = "OK"
      THEN [masks |-> r.bank_masks, id_len |-> r.id_len, ready |-> TRUE]
      ELSE old

\* The mapping after dram_mapping_init_from_calibration: it is reset first.
InitFrom(old, r) ==
    IF validate_calibration_result(r) = "OK"
      THEN [masks |-> r.bank_masks, id_len |-> r.id_len, ready |-> TRUE]
      ELSE NoMapping

-----------------------------------------------------------------------------
Init ==
    /\ result = calibration_result_reset
    /\ mapping = NoMapping
    /\ ret = [op |-> "none", code |-> "OK"]

calibration_load_result(file) ==
    /\ result' = Loaded(file)
    /\ ret' = [op |-> "load", code |-> LoadCode(file)]
    /\ UNCHANGED mapping

\* The file cannot be read.
LoadFails ==
    /\ result' = calibration_result_reset
    /\ ret' = [op |-> "load", code |-> "IO"]
    /\ UNCHANGED mapping

dram_mapping_init_from_calibration ==
    /\ mapping' = InitFrom(mapping, result)
    /\ ret' = [op |-> "init", code |-> validate_calibration_result(result)]
    /\ UNCHANGED result

dram_mapping_reset ==
    /\ mapping' = NoMapping
    /\ ret' = [op |-> "reset", code |-> "OK"]
    /\ UNCHANGED result

Next ==
    \/ \E file \in Files : calibration_load_result(file)
    \/ LoadFails
    \/ dram_mapping_init_from_calibration
    \/ dram_mapping_reset

Spec == Init /\ [][Next]_vars

-----------------------------------------------------------------------------
(* Properties.                                                             *)

\* Every variable keeps its type, and a stored mask id fits its buffer.
TypeOK ==
    /\ result \in calibration_result /\ result.id_len < ID_MAX
    /\ mapping \in [masks : Seq(Mask), id_len : 0..ID_MAX - 1, ready : BOOLEAN]

\* Fail closed: when an initialization reports an error, the mapping is not
\* ready, even if it was before.
FailClosed ==
    ret.op = "init" /\ ret.code # "OK" => ~dram_mapping_is_ready(mapping)

\* Two addresses are in the same bank class exactly when their classes are
\* equal: the comparison that builds no class agrees with the one that does.
SameIffEqual ==
    \A pa1, pa2 \in SUBSET Bits :
        dram_mapping_is_ready(mapping) =>
            (SameBankClass(mapping.masks, pa1, pa2)
               <=> BankClass(mapping.masks, pa1) = BankClass(mapping.masks, pa2))

\* Every mask of a ready mapping counts: none is blind to all addresses, and
\* no two give the same class bit for all addresses.
EveryMaskCounts ==
    LET bit(i, pa) == parity64(pa \cap mapping.masks[i])
    IN  dram_mapping_is_ready(mapping) =>
          \A i, j \in 1..Len(mapping.masks) :
              /\ \E pa \in SUBSET Bits : bit(i, pa) = 1
              /\ i # j => \E pa \in SUBSET Bits : bit(i, pa) # bit(j, pa)

\* The two layers of checks agree: a result that was loaded without error is
\* refused by the mapping only for an empty id or for masks given twice.
LoadedIsUsable ==
    ret.op = "load" /\ ret.code = "OK" /\ result.id_len > 0
        => validate_calibration_result(result) \in {"OK", "DUPLICATE_MASK"}

\* The checks of both layers do their work: nothing outgrows its buffer, and
\* whatever passes them can be used, mask by mask.
ChecksInv == TypeOK /\ EveryMaskCounts /\ LoadedIsUsable
=============================================================================
