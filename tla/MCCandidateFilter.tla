------------------------- MODULE MCCandidateFilter -------------------------
(* Three tasks for a table of two slots: pid 2 is ignored by policy, pids  *)
(* 2 and 4 share home slot 0, and the third pid finds the table full.      *)
EXTENDS CandidateFilter
MCPids == {2, 3, 4}
=============================================================================
