--------------------------- MODULE MCRateLimiter ---------------------------
(***************************************************************************)
(* A small instance of RateLimiter: two engines, two requests of one scan  *)
(* to one host that rate_limit.yaml limits.                                *)
(***************************************************************************)
EXTENDS RateLimiter

CONSTANTS c1, c2, l1, l2, known, s1, global

Limiters == [c \in Coroutine |-> IF c = c1 THEN l1 ELSE l2]
Domains  == [c \in Coroutine |-> known]
Scans    == [c \in Coroutine |-> s1]

\* A scan's bucket holds one token and the others hold two.
Rates == [k \in Key |-> IF k \in Scan THEN 1 ELSE 2]
=============================================================================
