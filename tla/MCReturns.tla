----------------------------- MODULE MCReturns -----------------------------
(* Constant values for the TLC runs of Returns. *)
EXTENDS Returns, TLC

CONSTANTS v1, v2, r1, r2, w1, w2

\* Two units of v1 and one of v2, worth as much, so that two different returns
\* have one amount.  A return may also list v1 twice, once too often.
MCOrdered == v1 :> 2 @@ v2 :> 1
MCPrice == v1 :> 3 @@ v2 :> 6
L(v, q) == [item |-> v, quantity |-> q]
MCDtos == {<<L(v1, 2)>>, <<L(v2, 1)>>, <<L(v1, 2), L(v1, 1)>>}
NotYetShipped == {"processing"}
Interchangeable == Permutations({w1, w2}) \cup Permutations({r1, r2})
=============================================================================
