------------------------------- MODULE Lists -------------------------------
(***************************************************************************)
(* Selections from a list, by the places of what is kept: the loops of the *)
(* code that skip members, in a form that the provers can follow (they     *)
(* have no SelectSeq).                                                     *)
(***************************************************************************)
EXTENDS Naturals, SequencesExt

\* The members of a list at the places I.
Picked(s, I) == FlattenSeq([i \in DOMAIN s |-> IF i \in I THEN <<s[i]>> ELSE <<>>])

\* The places at which a value is there first.
Firsts(s) == {i \in DOMAIN s : \A j \in 1..(i - 1) : s[j] # s[i]}
=============================================================================
