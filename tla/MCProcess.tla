----------------------------- MODULE MCProcess -----------------------------
(* Two descriptors and three pids: one more than the children, so that a   *)
(* freed pid is taken by another child or by a foreign process.  Programs  *)
(* exit with 2, the code of a failed execv too.                            *)
EXTENDS Process, TLC

CONSTANTS p1, p2, p3

MCPids == {p1, p2, p3}
MCCodes == {2}

=============================================================================
