----------------------------- MODULE MCOracleRun -----------------------------
(* All five experiments with all their conditions and workers.  multi and  *)
(* cpumax take the same steps: two faults in one of them are enough.       *)
EXTENDS OracleRun

MCMaxFaults == [p \in Programs |-> IF p = "cpumax" THEN 1 ELSE 2]
=============================================================================
