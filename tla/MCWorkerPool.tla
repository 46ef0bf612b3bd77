---------------------------- MODULE MCWorkerPool ----------------------------
(***************************************************************************)
(* A small instance of WorkerPool.                                         *)
(***************************************************************************)
EXTENDS WorkerPool

\* A depth for which the policy asks for five workers, more than the pool may have; a
\* pass that adds none is one whose pool is full or whose LLEN fails.
Depths == {10}
=============================================================================
