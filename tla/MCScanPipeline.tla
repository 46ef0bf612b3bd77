--------------------------- MODULE MCScanPipeline ---------------------------
(***************************************************************************)
(* Small instances of ScanPipeline.                                        *)
(***************************************************************************)
EXTENDS ScanPipeline, TLC

CONSTANTS t1, t2, r1, r2, e1, e2, s1, s2

\* One request submits both tasks; the first may be retried once.
OneRequest  == [t \in Task |-> r1]
RetryFirst  == [t \in Task |-> IF t = t1 THEN 1 ELSE 0]
RetryBoth   == [t \in Task |-> 1]
RetryTwice  == [t \in Task |-> 2]

\* Each task has a request of its own.
TwoRequests == [t \in Task |-> IF t = t1 THEN r1 ELSE r2]

\* All permits belong to one engine, or each to an engine of its own.
OneEngine   == [s \in Slot |-> e1]
TwoEngines  == [s \in Slot |-> IF s = s1 THEN e1 ELSE e2]

SlotSymmetry == Permutations(Slot)
=============================================================================
