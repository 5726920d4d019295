---------------------------- MODULE MCFileMutex ----------------------------
(* Two processes, one with two worker threads: enough for a thread to race *)
(* a peer of its own process and one of another at once.                   *)
EXTENDS FileMutex

CONSTANTS p1, p2, t1, t2, t3, t4

MCProcOf == [t \in Thread |-> IF t \in {t1, t2} THEN p1 ELSE p2]

=============================================================================
