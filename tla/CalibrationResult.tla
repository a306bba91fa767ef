-------------------------- MODULE CalibrationResult --------------------------
(***************************************************************************)
(* calibration.c: what calibration_load_result makes of a result file.     *)
(*                                                                         *)
(* A file is what the extractors find in it: the status string, the        *)
(* acceptance.passed flag, the masks, the length of mask_set_id and        *)
(* whether metrics.holdout is complete.  A field that is absent or not of  *)
(* the expected JSON type is "missing".  The masks are the strings of the  *)
(* array up to the first token that is no string, if there is one: then    *)
(* the array is "broken".  A mask is the set of its one bits; a zero mask  *)
(* and one that is not a number are both {}.                               *)
(***************************************************************************)
EXTENDS Integers, FiniteSets, Sequences

CONSTANTS
    Bits,          \* bit positions of a physical address
    MAX_MASKS,     \* CALIBRATION_MAX_BANK_MASKS
    ID_MAX         \* CALIBRATION_MASK_SET_ID_MAX: the id's buffer, with its NUL

ASSUME MaskAssumption ==
    /\ IsFiniteSet(Bits)
    /\ MAX_MASKS \in Nat \ {0}
    /\ ID_MAX \in Nat \ {0, 1}

Mask == SUBSET Bits
MissingId == -1

File == [status : {"success", "failed", "missing"}, passed : {"true", "false", "missing"},
         masks : Seq(Mask), array : {"missing", "broken", "whole"}, id_len : Nat \cup {MissingId}, metrics : BOOLEAN]

\* struct calibration_result.
calibration_result ==
    [status_success : BOOLEAN, acceptance_passed : BOOLEAN, bank_masks : Seq(Mask), id_len : Nat]

calibration_result_reset ==
    [status_success |-> FALSE, acceptance_passed |-> FALSE, bank_masks |-> <<>>, id_len |-> 0]

\* Defect: one mask more than the array holds is parsed.
Bug_BadMasksOffByOne(masks) == {i \in 1..Len(masks) : i > MAX_MASKS + 1 \/ masks[i] = {}}

\* parse_bank_masks stops at the first mask that does not fit or is bad.
BadMasks(masks) == {i \in 1..Len(masks) : i > MAX_MASKS \/ masks[i] = {}}

\* How many masks are stored before that.
Parsed(masks) == Cardinality({i \in 1..Len(masks) : \A j \in 1..i : j \notin BadMasks(masks)})

parse_bank_masks(masks) == SubSeq(masks, 1, Parsed(masks))

\* A string that does not fit is one too many; a token that is no string is
\* an error of the file, whether or not there would have been room for it.
MasksCode(masks, array) ==
    IF Parsed(masks) < Len(masks)
      THEN IF Parsed(masks) >= MAX_MASKS THEN "TOO_MANY_MASKS" ELSE "JSON"
    ELSE IF array = "broken" THEN "JSON"
    ELSE IF masks = <<>> THEN "REJECTED" ELSE "OK"

\* Defect: the id's terminating NUL is forgotten.
Bug_IdFillsBuffer(id_len) ==
    IF id_len = MissingId THEN 0 ELSE IF id_len < ID_MAX THEN id_len ELSE ID_MAX

\* extract_string fills the buffer before it finds out that it is too small.
StoredIdLen(id_len) ==
    IF id_len = MissingId THEN 0 ELSE IF id_len < ID_MAX THEN id_len ELSE ID_MAX - 1

\* The checks of calibration_load_result, in its order, and the code each
\* returns when it fails.
Checks(file) == <<
    [ok |-> file.status # "missing",       code |-> "JSON"],
    [ok |-> file.status = "success",       code |-> "REJECTED"],
    [ok |-> file.passed # "missing",       code |-> "JSON"],
    [ok |-> file.passed = "true",          code |-> "REJECTED"],
    [ok |-> file.array # "missing",        code |-> "JSON"],
    [ok |-> MasksCode(file.masks, file.array) = "OK", code |-> MasksCode(file.masks, file.array)],
    [ok |-> file.id_len \in 0..ID_MAX - 1, code |-> "JSON"],
    [ok |-> file.metrics,                  code |-> "JSON"] >>

Passes(file, n) == \A i \in 1..n : Checks(file)[i].ok

LoadCode(file) ==
    IF Passes(file, 8) THEN "OK"
    ELSE Checks(file)[CHOOSE i \in 1..8 : Passes(file, i - 1) /\ ~Checks(file)[i].ok].code

\* What the caller's struct holds afterwards, also when the load failed.
Loaded(file) ==
    [status_success    |-> Passes(file, 2),
     acceptance_passed |-> Passes(file, 4),
     bank_masks        |-> IF Passes(file, 5) THEN parse_bank_masks(file.masks) ELSE <<>>,
     id_len            |-> IF Passes(file, 6) THEN StoredIdLen(file.id_len) ELSE 0]
=============================================================================
