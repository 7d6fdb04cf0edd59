------------------------- MODULE MCOrderSettlement -------------------------
(* Constant values and bounds for the TLC runs of OrderSettlement. *)
EXTENDS OrderSettlement, TLC

CONSTANTS v1, o1, w1

\* One order of one variant: the interleavings of its own handlers.
OneLine == [o \in {o1} |-> [v \in {v1} |-> 1]]
LastUnit == [v \in {v1} |-> [available |-> 1, reserved |-> 0, committed |-> 0]]
OneStock == [v \in {v1} |-> [available |-> 2, reserved |-> 0, committed |-> 0]]

\* Handlers of the instances.
All == {"initiate", "create", "ready", "intent", "succeeded", "failed", "refunded",
        "reconcile", "sweep", "manual", "timer", "admin", "rebuild"}
PaymentRace == {"initiate", "ready", "intent", "succeeded", "failed", "timer", "sweep"}

Settlers == {"initiate", "ready", "intent", "succeeded", "sweep"}
Desk == {"initiate", "ready", "intent", "succeeded", "refunded", "admin"}
SweepRace == {"create", "intent", "failed", "timer", "sweep"}
Live == {"initiate", "ready", "intent", "succeeded", "failed", "reconcile", "sweep", "timer",
         "manual", "rebuild"}

NoDelta == {}
LoseOne == {-1}

\* Bound of the overlapping runs: a stock that overlaps have inflated and an
\* order counted over and over show nothing new.
Bounded ==
    /\ \A o \in Orders : uses[o] <= 2
    /\ \A v \in Variants : stock[v].available <= 3
=============================================================================
