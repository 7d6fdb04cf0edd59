---------------------------- MODULE OrderStatus ----------------------------
(***************************************************************************)
(* The order state machine and the stock buckets it moves: the statuses of *)
(* prisma's OrderStatus, the ALLOWED_TRANSITIONS table of OrdersService,   *)
(* and the six bucket movements of InventoryService, as pure operators.    *)
(* A "claim" is what an order holds: a quantity per variant (its items).   *)
(* Definitions marked "seeded", here and in the other modules, are the     *)
(* faulty variants the properties are tested against; no model uses them.  *)
(***************************************************************************)
EXTENDS Integers

CONSTANT Variants    \* product variants that have an inventory row

Statuses == {"draft", "pending", "awaiting_payment", "paid", "processing",
             "shipped", "delivered", "cancelled", "refunded"}

ReopenedTransitions ==                                               \* seeded
    [draft            |-> {"awaiting_payment", "cancelled"},
     pending          |-> {"awaiting_payment", "cancelled"},
     awaiting_payment |-> {"paid", "cancelled"},
     paid             |-> {"processing", "cancelled", "refunded"},
     processing       |-> {"shipped", "cancelled", "refunded"},
     shipped          |-> {"delivered", "refunded"},
     delivered        |-> {"refunded"},
     cancelled        |-> {"awaiting_payment"},
     refunded         |-> {}]
AllowedTransitions ==
    [draft            |-> {"awaiting_payment", "cancelled"},
     pending          |-> {"awaiting_payment", "cancelled"},
     awaiting_payment |-> {"paid", "cancelled"},
     paid             |-> {"processing", "cancelled", "refunded"},
     processing       |-> {"shipped", "cancelled", "refunded"},
     shipped          |-> {"delivered", "refunded"},
     delivered        |-> {"refunded"},
     cancelled        |-> {},
     refunded         |-> {}]

\* Statuses the code groups together.
Cancellable  == {"draft", "awaiting_payment"}               \* the reservation timer
Reconcilable == {"draft", "awaiting_payment", "cancelled"}  \* reconcileOrder
Refundable   == {"paid", "processing", "shipped", "delivered"}

\* Where the units of an order with that status are kept.
InReserved  == {"draft", "pending", "awaiting_payment"}
InCommitted == {"paid", "processing"}

(***************************************************************************)
(* Bucket movements.  Less is SQL's GREATEST(0, n - q).                    *)
(***************************************************************************)
Row == [available : Nat, reserved : Nat, committed : Nat]
StockLevels == [Variants -> Row]
Claim == [Variants -> Nat]

LessUnclipped(n, q) == n - q                                          \* seeded
Less(n, q) == IF n > q THEN n - q ELSE 0

\* reserveForOrder on every line: each is a conditional UPDATE, and one line
\* without enough units aborts the transaction that holds them all.
AnyStock(levels, q) == TRUE                                          \* seeded
CanReserve(levels, q) == \A v \in Variants : levels[v].available >= q[v]

Reserve(levels, q) ==
    [v \in Variants |-> [available |-> levels[v].available - q[v],
                         reserved  |-> levels[v].reserved + q[v],
                         committed |-> levels[v].committed]]

Release(levels, q) ==
    [v \in Variants |-> [available |-> levels[v].available + q[v],
                         reserved  |-> Less(levels[v].reserved, q[v]),
                         committed |-> levels[v].committed]]

Commit(levels, q) ==
    [v \in Variants |-> [available |-> levels[v].available,
                         reserved  |-> Less(levels[v].reserved, q[v]),
                         committed |-> levels[v].committed + q[v]]]

ReleaseCommitted(levels, q) ==
    [v \in Variants |-> [available |-> levels[v].available + q[v],
                         reserved  |-> levels[v].reserved,
                         committed |-> Less(levels[v].committed, q[v])]]

ConfirmSale(levels, q) ==
    [v \in Variants |-> [available |-> levels[v].available,
                         reserved  |-> levels[v].reserved,
                         committed |-> Less(levels[v].committed, q[v])]]

\* adjust: a manual correction of the available bucket, refused below zero.
CanAdjust(levels, v, delta) == levels[v].available + delta >= 0
Adjusted(levels, v, delta) ==
    [levels EXCEPT ![v] = [available |-> levels[v].available + delta,
                           reserved  |-> levels[v].reserved,
                           committed |-> levels[v].committed]]

\* What OrdersService.transition does to the stock of an order whose items
\* claim q when the status goes from prev (as read) to next.
AlwaysReserved(levels, q, prev, next) ==                             \* seeded
    IF next \in {"cancelled", "refunded"} THEN Release(levels, q)
    ELSE IF next = "paid" THEN Commit(levels, q)
    ELSE IF next = "shipped" THEN ConfirmSale(levels, q)
    ELSE levels
Moved(levels, q, prev, next) ==
    IF next \in {"cancelled", "refunded"}
    THEN IF prev \in InCommitted THEN ReleaseCommitted(levels, q)
         ELSE IF prev \notin {"shipped", "delivered"} THEN Release(levels, q)
         ELSE levels
    ELSE IF next = "paid" THEN Commit(levels, q)
    ELSE IF next = "shipped" THEN ConfirmSale(levels, q)
    ELSE levels
=============================================================================
