----------------------------- MODULE MCPosixXfer -----------------------------
(* Two tasks of testComm with neighbouring regions, each reading back what   *)
(* the other wrote; MAX_RETRY and the transfer are scaled down.              *)
EXTENDS PosixXfer

CONSTANTS a, b

MCTasks == {a, b}
MCBase == [t \in MCTasks |-> IF t = a THEN 0 ELSE 3]
MCReadFrom == [t \in MCTasks |-> IF t = a THEN b ELSE a]

=============================================================================
