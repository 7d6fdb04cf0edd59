--------------------------- MODULE OrderLifecycle ---------------------------
(***************************************************************************)
(* What orders, stock and coupon counters promise, with every operation a  *)
(* single atomic step: an order is placed with its units reserved, follows *)
(* the ALLOWED_TRANSITIONS table, moves its units with each status, and    *)
(* comes back from a cancellation only when the reservation timer made it. *)
(* OrderSettlement, the detailed model, implements it when the handlers of *)
(* one order do not overlap.                                               *)
(***************************************************************************)
EXTENDS OrderStatus, FiniteSets

CONSTANTS
    Orders,        \* the orders that may be placed
    Lines,         \* Lines[o]: the claim of o, its items
    InitialStock,  \* the stock before the first order
    Deltas         \* manual stock corrections an admin may enter

ASSUME OrdersAssumption == IsFiniteSet(Orders)
ASSUME LinesAssumption == Lines \in [Orders -> Claim]
ASSUME StockAssumption ==
    InitialStock \in [Variants -> [available : Nat, reserved : {0}, committed : {0}]]
ASSUME DeltasAssumption == Deltas \subseteq Int

VARIABLES
    status,     \* the order's status, "none" before it exists
    revivable,  \* the orders the timer cancelled: a late payment restores them
    stock,      \* the inventory rows
    uses        \* times the order was counted: coupon use, customer stats

vars == <<status, revivable, stock, uses>>

Init ==
    /\ status = [o \in Orders |-> "none"]
    /\ revivable = {}
    /\ stock = InitialStock
    /\ uses = [o \in Orders |-> 0]

\* initiate leaves a draft, createFromCart an order awaiting payment.
Place(o) ==
    /\ status[o] = "none"
    /\ CanReserve(stock, Lines[o])
    /\ \E s \in Cancellable : status' = [status EXCEPT ![o] = s]
    /\ stock' = Reserve(stock, Lines[o])
    /\ UNCHANGED <<revivable, uses>>

\* One legal transition with the stock it moves.
Advance(o, next) ==
    /\ status[o] \in Statuses
    /\ next \in AllowedTransitions[status[o]]
    /\ status' = [status EXCEPT ![o] = next]
    /\ stock' = Moved(stock, Lines[o], status[o], next)
    /\ uses' = IF next = "paid" THEN [uses EXCEPT ![o] = @ + 1] ELSE uses
    /\ \/ revivable' = revivable
       \/ next = "cancelled" /\ status[o] \in Cancellable /\ revivable' = revivable \cup {o}

\* A payment for an order the timer cancelled reserves its units again.
Restore(o) ==
    /\ status[o] = "cancelled"
    /\ o \in revivable
    /\ CanReserve(stock, Lines[o])
    /\ status' = [status EXCEPT ![o] = "awaiting_payment"]
    /\ revivable' = revivable \ {o}
    /\ stock' = Reserve(stock, Lines[o])
    /\ UNCHANGED uses

Adjust(v, delta) ==
    /\ CanAdjust(stock, v, delta)
    /\ stock' = Adjusted(stock, v, delta)
    /\ UNCHANGED <<status, revivable, uses>>

Next ==
    \/ \E o \in Orders : Place(o) \/ Restore(o) \/ \E s \in Statuses : Advance(o, s)
    \/ \E v \in Variants, d \in Deltas : Adjust(v, d)

Spec == Init /\ [][Next]_vars

-----------------------------------------------------------------------------

TypeOK ==
    /\ status \in [Orders -> Statuses \cup {"none"}]
    /\ revivable \subseteq Orders
    /\ stock \in StockLevels
    /\ uses \in [Orders -> Nat]

\* The units of the orders of S in variant v, as a set of pairs.
Units(S, v) == UNION {{o} \X (1 .. Lines[o][v]) : o \in S}
With(statuses) == {o \in Orders : status[o] \in statuses}

(* The buckets are exactly what the live orders account for: every reserved *)
(* unit belongs to one unpaid order and every committed unit to one paid,   *)
(* unshipped order.  No path leaks a reservation or releases one twice.     *)
StockMatchesOrders ==
    \A v \in Variants :
        /\ stock[v].reserved = Cardinality(Units(With(InReserved), v))
        /\ stock[v].committed = Cardinality(Units(With(InCommitted), v))

(* The coupon counter and the customer statistics see each order once, and  *)
(* only orders that were paid: an unpaid order has not been counted.        *)
CountedOnce ==
    \A o \in Orders :
        /\ uses[o] <= 1
        /\ status[o] \in {"none"} \cup InReserved => uses[o] = 0
        /\ status[o] \in Refundable => uses[o] = 1
=============================================================================
