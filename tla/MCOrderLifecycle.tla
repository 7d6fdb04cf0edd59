-------------------------- MODULE MCOrderLifecycle --------------------------
(* Constant values for the TLC run of OrderLifecycle. *)
EXTENDS OrderLifecycle, TLC

CONSTANTS v1, v2, o1, o2, o3

\* Three orders over two variants: o1 and o2 want the last unit of v1, o1 and
\* o3 share v2, o3 has two of its units.
MCLines == (o1 :> (v1 :> 1 @@ v2 :> 1)) @@ (o2 :> (v1 :> 1 @@ v2 :> 0))
           @@ (o3 :> (v1 :> 0 @@ v2 :> 2))
MCStock == (v1 :> [available |-> 1, reserved |-> 0, committed |-> 0])
           @@ (v2 :> [available |-> 2, reserved |-> 0, committed |-> 0])
MCDeltas == {1, -1}

\* Bound: an admin's corrections never add more than one unit.
Stocked == \A v \in Variants : stock[v].available <= 3
=============================================================================
