--------------------------- MODULE MCProcessTable ---------------------------
(* Three slots; pids 1, 4 and 7 share home slot 1, pid 3 wraps to slot 0.  *)
EXTENDS ProcessTable
MCPids == {1, 3, 4, 7}
=============================================================================
