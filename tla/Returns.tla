------------------------------ MODULE Returns ------------------------------
(***************************************************************************)
(* The returns of one sold order: ReturnsService with what it calls of     *)
(* ShopPaymentService (refundOrder, handleChargeRefunded), OrdersService   *)
(* (transition) and InventoryService (restockForReturn), await by await.   *)
(* The units of the order's variants and Stripe's record of the money paid *)
(* back are the state the requests share.                                  *)
(***************************************************************************)
EXTENDS OrderStatus, FiniteSetsExt, Sequences

CONSTANTS
    Requests,     \* return requests that may be created
    Ordered,      \* the claim of the order; its items are one per variant
    Price,        \* Price[v]: unit price of an item, in cents
    Charge,       \* what Stripe charged: the items, shipping, less discounts
    Dtos,         \* lists of lines an admin enters for one return
    Sold,         \* statuses the order may have when the first return arrives
    ByHand,       \* statuses an admin may set on the order by hand
    Workers,      \* concurrent requests and webhooks
    MaxFaults     \* bound: crashes and thrown errors

Line == [item : Variants, quantity : Nat \ {0}]

ASSUME OrderedAssumption == Ordered \in Claim
ASSUME PriceAssumption == Price \in [Variants -> Nat \ {0}] /\ Charge \in Nat
ASSUME DtosAssumption == Dtos \subseteq Seq(Line)
ASSUME SoldAssumption == Sold \subseteq Refundable
ASSUME ByHandAssumption == ByHand \subseteq Statuses
ASSUME FaultsAssumption == MaxFaults \in Nat

VARIABLES
    order,     \* order.status
    stock,     \* inventory rows of the order's variants
    returns,   \* ReturnRequest rows with their items
    refunds,   \* amounts Stripe refunded; the idempotency key names the amount
    events,    \* charge.refunded events not yet acknowledged, by amount
    ledger,    \* refunds recorded as PaymentTransaction
    task,      \* the handler each worker runs
    released,  \* history variable: has a refund or cancellation released the units?
    raced,     \* history variable: have two handlers ever overlapped?
    faults     \* faults so far

vars == <<order, stock, returns, refunds, events, ledger, task, released, raced, faults>>

ReturnStatuses == {"requested", "approved", "rejected", "refunded", "restocked"}
ReturnTransitions ==
    [requested |-> {"approved", "rejected"},
     approved  |-> {"refunded", "rejected"},
     refunded  |-> {"restocked"},
     rejected  |-> {},
     restocked |-> {}]

\* A request and, of its items, those already put back (marked).
Request == [status : ReturnStatuses, lines : Seq(Line), restock : BOOLEAN, marked : SUBSET Nat]
Absent == [status |-> "none", lines |-> <<>>, restock |-> FALSE, marked |-> {}]

\* A running handler: its request as it read it, the items left to restock and
\* the one in hand, the status it wants and the order status it read.
Steps == {"insert", "write", "order", "stripe", "record", "close", "check", "apply",
          "restock", "mark"}
Idle == [pc |-> "idle"]
Task == [pc : Steps, r : Requests \cup {"none"}, to : ReturnStatuses \cup Statuses,
         read : Request \cup {Absent}, left : SUBSET Nat, item : Nat, seen : Statuses]
Handler(pc, r, to) ==
    [pc |-> pc, r |-> r, to |-> to, read |-> Absent, left |-> {}, item |-> 0,
     seen |-> "paid"]

\* What a request is worth: the sum of its items at their unit price.
Amount(lines) ==
    MapThenSumSet(LAMBDA n : Price[lines[n].item] * lines[n].quantity, DOMAIN lines)

\* The units of variant v in the items ns of request r.
UnitsOf(r, ns, v) ==
    UNION {{r} \X {n} \X (1 .. returns[r].lines[n].quantity) :
              n \in {m \in ns \cap DOMAIN returns[r].lines : returns[r].lines[m].item = v}}
Units(S, v) == UNION {UnitsOf(r, DOMAIN returns[r].lines, v) : r \in S}
MarkedUnits(v) == UNION {UnitsOf(r, returns[r].marked, v) : r \in Requests}
In(statuses) == {r \in Requests : returns[r].status \in statuses}

\* activeReturnedQuantity: rejected returns do not hold the quantity back.
Active == {"requested", "approved", "refunded", "restocked"}
Claimed(v) == Cardinality(Units(In(Active), v))

Start(w, t) ==
    /\ task[w] = Idle
    /\ task' = [task EXCEPT ![w] = t]
    /\ raced' = (raced \/ \E x \in Workers \ {w} : task[x] # Idle)
At(w, pc) == task[w].pc = pc
Goto(w, pc) == task' = [task EXCEPT ![w].pc = pc] /\ UNCHANGED raced
Finish(w) == task' = [task EXCEPT ![w] = Idle] /\ UNCHANGED raced
SetStatus(r, s) == returns' = [returns EXCEPT ![r].status = s]

Init ==
    /\ order \in Sold
    /\ stock = [v \in Variants |->
                  [available |-> 0, reserved |-> 0,
                   committed |-> IF order \in InCommitted THEN Ordered[v] ELSE 0]]
    /\ returns = [r \in Requests |-> Absent]
    /\ refunds = {} /\ events = {} /\ ledger = {}
    /\ task = [w \in Workers |-> Idle]
    /\ released = FALSE
    /\ raced = FALSE
    /\ faults = 0

-----------------------------------------------------------------------------
(* ReturnsService.create *)

\* Every line is checked by itself against the returns of the moment.
LinesUnchecked(lines) == TRUE                                        \* seeded
LinesFit(lines) ==
    \A n \in DOMAIN lines : Claimed(lines[n].item) + lines[n].quantity <= Ordered[lines[n].item]

StartCreate(w, r, lines, restock) ==
    /\ returns[r] = Absent /\ \A x \in Workers : task[x] # Idle => task[x].r # r
    /\ LinesFit(lines)
    /\ Start(w, [Handler("insert", r, "requested") EXCEPT
                    !.read = [status |-> "requested", lines |-> lines, restock |-> restock,
                              marked |-> {}]])
    /\ UNCHANGED <<order, stock, returns, refunds, events, ledger, released, faults>>

Insert(w) ==
    /\ At(w, "insert")
    /\ returns' = [returns EXCEPT ![task[w].r] = task[w].read]
    /\ Finish(w)
    /\ UNCHANGED <<order, stock, refunds, events, ledger, released, faults>>

-----------------------------------------------------------------------------
(* ReturnsService.transition: a read that checks the table, then the write   *)
(* of the new status, a refund or a restock.                                 *)

StartTransition(w, r, to) ==
    LET read == returns[r]
    IN  /\ read # Absent /\ to \in ReturnTransitions[read.status]
        /\ to = "restocked" => read.restock
        /\ Start(w, [Handler(CASE to = "refunded" -> "order" [] to = "restocked" -> "restock"
                               [] OTHER -> "write", r, to)
                        EXCEPT !.read = read, !.left = DOMAIN read.lines \ read.marked])
        /\ UNCHANGED <<order, stock, returns, refunds, events, ledger, released, faults>>

Write(w) ==
    /\ At(w, "write")
    /\ SetStatus(task[w].r, task[w].to)
    /\ Finish(w)
    /\ UNCHANGED <<order, stock, refunds, events, ledger, released, faults>>

\* refundOrder: the order must be refundable, then Stripe is asked.
ReadOrder(w) ==
    /\ At(w, "order")
    /\ \/ order \in Refundable /\ Goto(w, "stripe")
       \/ order \notin Refundable /\ Finish(w)
    /\ UNCHANGED <<order, stock, returns, refunds, events, ledger, released, faults>>

\* A key Stripe knows is answered with the refund it made; a new amount is
\* refunded, and announced, unless more than the charge would be paid back.
RefundAssumed(w) == At(w, "stripe") /\ Goto(w, "record")             \* seeded
    /\ UNCHANGED <<order, stock, returns, refunds, events, ledger, released, faults>>
Refund(w) ==
    /\ At(w, "stripe")
    /\ LET amount == Amount(task[w].read.lines)
       IN  \/ amount \in refunds /\ Goto(w, "record") /\ UNCHANGED <<refunds, events>>
           \/ /\ amount \notin refunds /\ SumSet(refunds) + amount <= Charge
              /\ refunds' = refunds \cup {amount}
              /\ events' = events \cup {amount}
              /\ Goto(w, "record")
           \/ /\ amount \notin refunds /\ SumSet(refunds) + amount > Charge
              /\ Finish(w) /\ UNCHANGED <<refunds, events>>
    /\ UNCHANGED <<order, stock, returns, ledger, released, faults>>

Record(w) ==
    /\ At(w, "record")
    /\ SetStatus(task[w].r, "refunded")
    /\ Goto(w, "close")
    /\ UNCHANGED <<order, stock, refunds, events, ledger, released, faults>>

\* maybeCloseOrder
FullyReturned ==
    \A v \in Variants : Cardinality(Units(In({"refunded", "restocked"}), v)) >= Ordered[v]
Close(w) ==
    /\ At(w, "close")
    /\ IF order # "refunded" /\ FullyReturned
       THEN task' = [task EXCEPT ![w] = Handler("check", "none", "refunded")] /\ UNCHANGED raced
       ELSE Finish(w)
    /\ UNCHANGED <<order, stock, returns, refunds, events, ledger, released, faults>>

\* doRestock: for every item not marked when the request was read (in the
\* order the database lists them), the units go back, then the item is
\* marked; the status follows the last one.
RestockForgotten(w) ==                                               \* seeded
    /\ At(w, "restock") /\ task[w].left # {}
    /\ \E n \in task[w].left :
           task' = [task EXCEPT ![w].pc = "mark", ![w].item = n]
    /\ UNCHANGED <<order, stock, returns, refunds, events, ledger, released, raced, faults>>
Restock(w) ==
    /\ At(w, "restock")
    /\ LET t == task[w]
       IN  \/ /\ \E n \in t.left :
                    /\ stock' = [stock EXCEPT ![t.read.lines[n].item].available =
                                    @ + t.read.lines[n].quantity]
                    /\ task' = [task EXCEPT ![w].pc = "mark", ![w].item = n]
              /\ UNCHANGED <<returns, raced>>
           \/ /\ t.left = {}
              /\ SetStatus(t.r, "restocked")
              /\ Finish(w) /\ UNCHANGED stock
    /\ UNCHANGED <<order, refunds, events, ledger, released, faults>>

MarkForgotten(w) ==                                                  \* seeded
    /\ At(w, "mark")
    /\ task' = [task EXCEPT ![w].pc = "restock", ![w].left = @ \ {task[w].item},
                            ![w].item = 0]
    /\ UNCHANGED <<order, stock, returns, refunds, events, ledger, released, raced, faults>>
Mark(w) ==
    /\ At(w, "mark")
    /\ LET t == task[w]
       IN  /\ returns' = [returns EXCEPT ![t.r].marked = @ \cup {t.item}]
           /\ task' = [task EXCEPT ![w].pc = "restock", ![w].left = @ \ {t.item},
                                      ![w].item = 0]
    /\ UNCHANGED <<order, stock, refunds, events, ledger, released, raced, faults>>

-----------------------------------------------------------------------------
(* The order: the refund webhook, the admin, and OrdersService.transition.   *)

\* handleChargeRefunded: whatever was refunded, the order goes to refunded.
Deliver(w, amount) ==
    /\ amount \in events
    /\ events' \in {events, events \ {amount}}
    /\ ledger' = ledger \cup {amount}
    /\ IF amount \notin ledger /\ order # "refunded"
       THEN Start(w, Handler("check", "none", "refunded"))
       ELSE UNCHANGED <<task, raced>>
    /\ UNCHANGED <<order, stock, returns, refunds, released, faults>>

StartAdmin(w, to) ==
    /\ to \in AllowedTransitions[order]
    /\ Start(w, [Handler("apply", "none", to) EXCEPT !.seen = order])
    /\ UNCHANGED <<order, stock, returns, refunds, events, ledger, released, faults>>

Check(w) ==
    /\ At(w, "check")
    /\ \/ /\ task[w].to \in AllowedTransitions[order]
          /\ task' = [task EXCEPT ![w].pc = "apply", ![w].seen = order]
          /\ UNCHANGED raced
       \/ task[w].to \notin AllowedTransitions[order] /\ Finish(w)
    /\ UNCHANGED <<order, stock, returns, refunds, events, ledger, released, faults>>

Apply(w) ==
    /\ At(w, "apply")
    /\ order' = task[w].to
    /\ stock' = Moved(stock, Ordered, task[w].seen, task[w].to)
    /\ released' = (\/ released
                    \/ task[w].seen \in InCommitted /\ task[w].to \in {"cancelled", "refunded"})
    /\ Finish(w)
    /\ UNCHANGED <<returns, refunds, events, ledger, faults>>

Fault(w) ==
    /\ task[w] # Idle /\ faults < MaxFaults
    /\ faults' = faults + 1
    /\ Finish(w)
    /\ UNCHANGED <<order, stock, returns, refunds, events, ledger, released>>

Step(w) ==
    \/ Insert(w) \/ Write(w) \/ ReadOrder(w) \/ Refund(w) \/ Record(w) \/ Close(w)
    \/ Restock(w) \/ Mark(w) \/ Check(w) \/ Apply(w) \/ Fault(w)

Next ==
    \E w \in Workers :
        \/ \E r \in Requests, lines \in Dtos, b \in BOOLEAN : StartCreate(w, r, lines, b)
        \/ \E r \in Requests, to \in ReturnStatuses : StartTransition(w, r, to)
        \/ \E amount \in events : Deliver(w, amount)
        \/ \E to \in ByHand : StartAdmin(w, to)
        \/ Step(w)

Spec == Init /\ [][Next]_vars

-----------------------------------------------------------------------------

TypeOK ==
    /\ order \in Refundable \cup {"cancelled", "refunded"}
    /\ stock \in StockLevels
    /\ returns \in [Requests -> Request \cup {Absent}]
    /\ events \subseteq refunds /\ ledger \subseteq refunds
    /\ task \in [Workers -> Task \cup {Idle}]
    /\ released \in BOOLEAN /\ raced \in BOOLEAN
    /\ faults \in 0 .. MaxFaults

(* A return that is refunded, or was and is restocked, was paid back: Stripe *)
(* made a refund of its amount, whatever handlers overlapped or crashed.     *)
RefundedIsPaid ==
    \A r \in In({"refunded", "restocked"}) : Amount(returns[r].lines) \in refunds

(* An item marked as restocked has its units in stock, in any interleaving   *)
(* and after any crash: a retried restock never skips units.                 *)
MarkedIsInStock == \A v \in Variants : stock[v].available >= Cardinality(MarkedUnits(v))

OneLinePerItem(lines) ==
    \A m, n \in DOMAIN lines : lines[m].item = lines[n].item => m = n

(* If handlers do not overlap and a return names an item once, no more units *)
(* are requested back than were ordered.                                     *)
ReturnsFitOrder ==
    ~raced /\ (\A r \in Requests : OneLinePerItem(returns[r].lines)) =>
        \A v \in Variants : Claimed(v) <= Ordered[v]

(* If handlers neither overlap nor crash, the units back in stock are those  *)
(* of the restocked items, each once, and those the order itself released.   *)
RestockedOnce ==
    ~raced /\ faults = 0 /\ (\A w \in Workers : task[w] = Idle) =>
        \A v \in Variants :
            stock[v].available =
                Cardinality(MarkedUnits(v)) + (IF released THEN Ordered[v] ELSE 0)

(* A partial return must not flip the whole order to refunded.               *)
PartialKeepsOrder ==
    [][order # "refunded" /\ order' = "refunded" => FullyReturned]_vars
=============================================================================
