---------------------------- MODULE MCCalibration ----------------------------
(* Two programs.  The daemon, whose worker kk_calibrate.py writes a result *)
(* that passed, one that did not, or the error file without any other      *)
(* field.  And a program that has no worker and only calls the libraries,  *)
(* as calibration_test.c and dram_mapping_test.c do, in any order and with *)
(* any file: up to three masks for an array of two, zero and repeated ones *)
(* among them, ids around the buffer's end, arrays that break off, and     *)
(* files that lack one field.                                              *)
EXTENDS Calibration

VARIABLE program

Passed == [status |-> "success", passed |-> "true", masks |-> <<{0}>>, array |-> "whole",
           id_len |-> 2, metrics |-> TRUE]
NotPassed == [Passed EXCEPT !.status = "failed", !.passed = "false"]
ErrorFile == [status |-> "failed", passed |-> "missing", masks |-> <<>>, array |-> "missing",
              id_len |-> -1, metrics |-> FALSE]
MCFiles == {Passed, NotPassed, ErrorFile}

MCMasks == UNION {[1..n -> SUBSET {0, 1}] : n \in 0..3}
AnyFiles ==
    {[Passed EXCEPT !.masks = m, !.array = a] : m \in MCMasks, a \in {"whole", "broken"}}
    \cup {[Passed EXCEPT !.masks = m, !.id_len = n] :
            m \in {<<{1}>>, <<{0}, {0}>>}, n \in {-1, 0, 2, 3}}
    \cup {[Passed EXCEPT !.status = s, !.passed = p] :
            s \in {"success", "failed", "missing"}, p \in {"true", "false", "missing"}}
    \cup {[Passed EXCEPT !.array = "missing"], [Passed EXCEPT !.metrics = FALSE]}

Library == INSTANCE DramMapping WITH Files <- AnyFiles

MCInit == CalInit /\ program \in {"daemon", "library"}
MCNext ==
    /\ UNCHANGED program
    /\ \/ program = "daemon" /\ CalNext
       \/ /\ program = "library" /\ Library!Next
          /\ UNCHANGED <<phase, run, rc, exit_code, clock, worker, collector, file, accepted,
                         bank_mapping_ready>>
MCFairSpec == MCInit /\ [][MCNext]_<<calVars, program>> /\ CalFairness
=============================================================================
