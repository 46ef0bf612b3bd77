----------------------------- MODULE MCTaskQueue -----------------------------
(***************************************************************************)
(* Small instances of TaskQueue.                                           *)
(***************************************************************************)
EXTENDS TaskQueue

CONSTANTS p1, p2, p3, p4

\* A critical and a high payload, a low one, and one with a level that has no list.
Levels == [p \in Payload |-> CASE p = p1 -> "P1" [] p = p2 -> "P4" [] p = p3 -> "P2"
                              [] OTHER -> "other"]
=============================================================================
