--------------------------- MODULE MCDaemonEvents ---------------------------
(* Two tasks, neither ignored by policy, and room for both in the table.   *)
EXTENDS DaemonEvents
MCTwoPids == {3, 4}
=============================================================================
