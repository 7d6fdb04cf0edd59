------------------------------ MODULE Checkout ------------------------------
(***************************************************************************)
(* From the basket to the payment form: CheckoutService builds one order   *)
(* from the cart, resumes it when the page is refreshed, rebuilds it when  *)
(* the basket changed, lets the customer choose shipping and a pickup      *)
(* point, and ShopPaymentService keeps the amount of the PaymentIntent in  *)
(* step with the total.  Every handler reads the order, decides, and       *)
(* writes later without a condition, so handlers of two tabs interleave    *)
(* with each other, with edits of the basket and with the payment.         *)
(*                                                                         *)
(* Discounts are left to Pricing, holds and the deadline to                *)
(* OrderSettlement.                                                        *)
(***************************************************************************)
EXTENDS Basket

CONSTANTS
    Tabs,        \* concurrent checkout requests
    Countries,   \* delivery countries; a pickup point is named by its country
    Fee,         \* price of a delivery
    FreeAbove,   \* subtotal from which delivery costs nothing
    MaxOrders,   \* bound: orders of the cart
    MaxCalls     \* bound: checkout requests

Numbers == 1 .. MaxOrders
Methods == {"post", "relay"}   \* relay: the customer picks a point
NoChoice == "none"

VARIABLES
    orders,   \* order rows, by number
    stripe,   \* the PaymentIntent of each order: none, open, paid
    tab,      \* the handler each tab runs
    closing,  \* what of the cart is closed after a payment
    session,  \* is the checkout session still open?
    calls,
    drifted,  \* history: orders resumed on another basket than their lines
    stale,    \* history: orders whose total moved after the form was priced
    raced     \* history: two requests to build an order overlapped, or a
              \* cancelled order was written to be awaiting payment

orderVars == <<orders, stripe, tab, calls, drifted, stale, raced>>
vars == <<basketVars, orderVars, closing, session>>

Blank == [st |-> "none", lines |-> [k \in Keys |-> NoLine], sub |-> 0, method |-> NoChoice, ship |-> 0,
          total |-> 0, country |-> NoChoice, point |-> NoChoice, pi |-> FALSE]
IsOpen(o) == orders[o].st \in {"draft", "awaiting_payment"}
OpenOrders == {o \in Numbers : IsOpen(o)}

Subtotal(ls) == MapThenSumSet(LAMBDA k : ls[k].qty * ls[k].price, Keys)
Same(ls, ms) == \A k \in Keys : ls[k].qty = ms[k].qty /\ ls[k].price = ms[k].price
\* verifyCartItemPrices: each line at the price of the product's total.
Verified(ls) == \A k \in Known(ls) : ls[k].price = PriceAt(k, Units(ls, Siblings(k)))
\* The quote is made against the subtotal (zone or method free above it).
Quote(sub) == IF sub >= FreeAbove THEN 0 ELSE Fee
Claim(ls, v) == Units(ls, {k \in Keys : Variant(k) = v})
Reserved(ls) == [v \in Variants |-> available[v] - Claim(ls, v)]
Returned(ls) == [v \in Variants |-> available[v] + Claim(ls, v)]

At(t, pc) == tab[t].pc = pc
Run(t, h) == tab' = [tab EXCEPT ![t] = h]
Leave(t) == tab' = [tab EXCEPT ![t] = Idle]
Step(t, pc) == tab' = [tab EXCEPT ![t].pc = pc]

Call(t, h) ==
    /\ tab[t] = Idle
    /\ calls < MaxCalls
    /\ calls' = calls + 1
    /\ Run(t, h)

Init ==
    /\ BasketInit
    /\ orders = [o \in Numbers |-> Blank]
    /\ stripe = [o \in Numbers |-> [st |-> "none", amount |-> 0]]
    /\ tab = [t \in Tabs |-> Idle]
    /\ closing = "no"
    /\ session = "open"
    /\ calls = 0
    /\ drifted = {}
    /\ stale = {}
    /\ raced = FALSE

-----------------------------------------------------------------------------
(* initiate. *)

Building == {"open", "cancel", "place", "resume"}
Initiate(t) ==
    /\ cart = "active"
    /\ Known(lines) # {}
    /\ \E c \in Countries : Call(t, [pc |-> "open", seen |-> lines, country |-> c, o |-> 0])
    /\ raced' = (raced \/ \E x \in Tabs : tab[x].pc \in Building)
    /\ UNCHANGED <<orders, stripe, available, drifted, stale>>

\* A mutant: only a draft is resumed.
ExistingDraft == {o \in Numbers : orders[o].st = "draft"}
\* The order of this cart still open, if any, decides.
Existing == OpenOrders
\* A mutant: a changed basket does not rebuild the order.
NeverRebuilt(o, seen) == FALSE
Rebuilt(o, seen) == ~ orders[o].pi /\ ~ Same(seen, orders[o].lines)
Open(t) ==
    /\ At(t, "open")
    /\ \/ Existing = {} /\ Step(t, "place")
       \/ \E o \in Existing :
            tab' = [tab EXCEPT ![t].o = o,
                               ![t].pc = IF Rebuilt(o, tab[t].seen) THEN "cancel" ELSE "resume"]
    /\ UNCHANGED <<orders, stripe, available, calls, drifted, stale, raced>>

\* transition(cancelled) re-reads the order: a paid one is not cancelled.
Cancel(t) ==
    /\ At(t, "cancel")
    /\ LET o == tab[t].o IN
        IF IsOpen(o)
        THEN /\ orders' = [orders EXCEPT ![o].st = "cancelled"]
             /\ available' = Returned(orders[o].lines)
             /\ Step(t, "place")
        ELSE UNCHANGED <<orders, available>> /\ Leave(t)
    /\ UNCHANGED <<stripe, calls, drifted, stale, raced>>

Placeable(ls) == Verified(ls) /\ \A v \in Variants : Claim(ls, v) <= available[v]
Place(t) ==
    /\ At(t, "place")
    /\ LET ls == tab[t].seen IN
        IF Placeable(ls)
        THEN \E o \in Numbers :
                /\ \A p \in Numbers : (p < o) = (orders[p].st # "none")
                /\ orders' = [orders EXCEPT ![o] =
                      [Blank EXCEPT !.st = "draft", !.lines = ls, !.sub = Subtotal(ls),
                                    !.total = Subtotal(ls), !.country = tab[t].country]]
                /\ available' = Reserved(ls)
        ELSE UNCHANGED <<orders, available>>
    /\ Leave(t)
    /\ UNCHANGED <<stripe, calls, drifted, stale, raced>>

\* Money written while a form shows another amount.
Shown(o) == stripe[o].st # "none" \/ \E x \in Tabs : tab[x].pc \in {"mint", "attach"} /\ tab[x].o = o
Priced(o, total) == stale' = IF Shown(o) /\ total # orders[o].total THEN stale \cup {o} ELSE stale

\* Totals, country and shipping are rewritten from the cart; the lines are not.
Resume(t) ==
    /\ At(t, "resume")
    /\ LET o == tab[t].o
           sub == Subtotal(tab[t].seen)
       IN /\ orders' = [orders EXCEPT ![o].sub = sub, ![o].total = sub, ![o].ship = 0,
                            ![o].method = NoChoice, ![o].point = NoChoice,
                            ![o].country = tab[t].country]
          /\ drifted' = IF orders[o].pi /\ ~ Same(tab[t].seen, orders[o].lines)
                        THEN drifted \cup {o} ELSE drifted
          /\ Priced(o, sub)
    /\ Leave(t)
    /\ UNCHANGED <<stripe, available, calls, raced>>

-----------------------------------------------------------------------------
(* Shipping, pickup point, readyForPayment. *)

StartShipping(t) ==
    /\ \E o \in OpenOrders, m \in Methods :
        Call(t, [pc |-> "ship", o |-> o, method |-> m, seen |-> orders[o]])
    /\ UNCHANGED <<orders, stripe, available, drifted, stale, raced>>

\* A point belongs to the method it was chosen under.
UpdateShipping(t) ==
    /\ At(t, "ship")
    /\ LET o == tab[t].o
           seen == tab[t].seen
           m == tab[t].method
           price == Quote(seen.sub)
           keep == m = "relay" /\ seen.method = m
       IN /\ orders' = [orders EXCEPT ![o].method = m, ![o].ship = price, ![o].total = seen.sub + price,
                            ![o].point = IF keep THEN orders[o].point ELSE NoChoice]
          /\ Priced(o, seen.sub + price)
    /\ Leave(t)
    /\ UNCHANGED <<stripe, available, calls, drifted, raced>>

StartPickup(t) ==
    /\ \E o \in OpenOrders, p \in Countries :
        /\ orders[o].method = "relay"
        /\ Call(t, [pc |-> "resolve", o |-> o, point |-> p])
    /\ UNCHANGED <<orders, stripe, available, drifted, stale, raced>>

\* The carrier is asked about the country the order has now.
ResolvePoint(t) ==
    /\ At(t, "resolve")
    /\ IF tab[t].point = orders[tab[t].o].country THEN Step(t, "point") ELSE Leave(t)
    /\ UNCHANGED <<orders, stripe, available, calls, drifted, stale, raced>>

SelectPickupPoint(t) ==
    /\ At(t, "point")
    /\ orders' = [orders EXCEPT ![tab[t].o].point = tab[t].point]
    /\ Leave(t)
    /\ UNCHANGED <<stripe, available, calls, drifted, stale, raced>>

\* A draft needs a method, and a point that still serves its country.
Ready(ord) == ord.method = "post" \/ (ord.method = "relay" /\ ord.point = ord.country)
StartReady(t) ==
    /\ \E o \in Numbers :
        /\ orders[o].st = "draft"
        /\ Ready(orders[o])
        /\ Call(t, [pc |-> "await", o |-> o])
    /\ UNCHANGED <<orders, stripe, available, drifted, stale, raced>>

\* Written whatever the order has become: a rebuild may have cancelled it.
ReadyForPayment(t) ==
    /\ At(t, "await")
    /\ orders' = [orders EXCEPT ![tab[t].o].st = "awaiting_payment"]
    /\ raced' = (raced \/ orders[tab[t].o].st # "draft")
    /\ Leave(t)
    /\ UNCHANGED <<stripe, available, calls, drifted, stale>>

-----------------------------------------------------------------------------
(* The payment form. *)

StartIntent(t) ==
    /\ \E o \in Numbers :
        /\ orders[o].st = "awaiting_payment"
        /\ Call(t, [pc |-> "mint", o |-> o, pi |-> orders[o].pi, total |-> orders[o].total])
    /\ UNCHANGED <<orders, stripe, available, drifted, stale, raced>>

\* An intent is created once (its idempotency key), at the total read; one
\* that exists is moved to that total while the customer has not committed.
Resynced(o, total) == [stripe[o] EXCEPT !.amount = total]
Mint(t) ==
    /\ At(t, "mint")
    /\ LET o == tab[t].o
           total == tab[t].total
           reuse == tab[t].pi
       IN \/ /\ ~ reuse
             /\ stripe[o].st = "none" \/ stripe[o].amount = total
             /\ stripe' = [stripe EXCEPT ![o] = IF stripe[o].st = "none" THEN [st |-> "open", amount |-> total]
                                               ELSE stripe[o]]
             /\ stale' = IF total = orders[o].total THEN stale \ {o} ELSE stale \cup {o}
             /\ Step(t, "attach")
          \/ /\ ~ reuse
             /\ stripe[o].st # "none" /\ stripe[o].amount # total
             /\ Leave(t)
             /\ UNCHANGED <<stripe, stale>>
          \/ /\ reuse
             /\ IF stripe[o].st = "open" \/ stripe[o].amount = total
                THEN /\ stripe' = [stripe EXCEPT ![o] = Resynced(o, total)]
                     /\ stale' = IF total = orders[o].total THEN stale \ {o} ELSE stale \cup {o}
                ELSE UNCHANGED <<stripe, stale>>
             /\ Leave(t)
    /\ UNCHANGED <<orders, available, calls, drifted, raced>>

AttachIntent(t) ==
    /\ At(t, "attach")
    /\ orders' = [orders EXCEPT ![tab[t].o].pi = TRUE]
    /\ Leave(t)
    /\ UNCHANGED <<stripe, available, calls, drifted, stale, raced>>

\* The customer pays the amount the intent holds.
Pay(o) ==
    /\ stripe[o].st = "open"
    /\ stripe' = [stripe EXCEPT ![o].st = "paid"]
    /\ UNCHANGED <<basketVars, orders, tab, calls, drifted, stale, raced, closing, session>>

\* confirmPayment: the sale, and the event that closes the cart.
Settle(o) ==
    /\ stripe[o].st = "paid"
    /\ orders[o].pi
    /\ IsOpen(o)
    /\ orders' = [orders EXCEPT ![o].st = "paid"]
    /\ closing' = "spend"
    /\ UNCHANGED <<basketVars, stripe, tab, calls, drifted, stale, raced, session>>

\* Still in confirmPayment: an active cart is spent.
SpendCart ==
    /\ closing = "spend"
    /\ cart' = IF cart = "active" THEN "completed" ELSE cart
    /\ closing' = "cart"
    /\ UNCHANGED <<lines, nextId, available, req, job, edits, asked, muddled,
                   reminder, reminded, stalls, orderVars, session>>

\* CartCheckoutCompletionListener, statement by statement.
CompleteCart ==
    /\ closing = "cart"
    /\ cart' = "completed"
    /\ closing' = "job"
    /\ UNCHANGED <<lines, nextId, available, req, job, edits, asked, muddled,
                   reminder, reminded, stalls, orderVars, session>>

\* A job being run cannot be removed: the listener stops there.
DropReminder ==
    /\ closing = "job"
    /\ IF job = "active"
       THEN closing' = "stopped" /\ UNCHANGED job
       ELSE closing' = "session" /\ job' = "none"
    /\ UNCHANGED <<cart, lines, nextId, available, req, edits, asked, muddled,
                   reminder, reminded, stalls, orderVars, session>>

CloseSession ==
    /\ closing = "session"
    /\ session' = "complete"
    /\ closing' = "done"
    /\ UNCHANGED <<basketVars, orderVars>>

-----------------------------------------------------------------------------
Handler(t) ==
    /\ "checkout" \in Kinds
    /\ \/ Initiate(t) \/ Open(t) \/ Cancel(t) \/ Place(t) \/ Resume(t)
       \/ StartShipping(t) \/ UpdateShipping(t)
       \/ StartPickup(t) \/ ResolvePoint(t) \/ SelectPickupPoint(t)
       \/ StartReady(t) \/ ReadyForPayment(t)
       \/ StartIntent(t) \/ Mint(t) \/ AttachIntent(t)
    /\ UNCHANGED <<cart, lines, nextId, req, job, edits, asked, muddled,
                   reminder, reminded, stalls, closing, session>>

Next ==
    \/ BasketNext /\ UNCHANGED <<orderVars, closing, session>>
    \/ \E t \in Tabs : Handler(t)
    \/ \E o \in Numbers : Pay(o) \/ Settle(o)
    \/ SpendCart \/ CompleteCart \/ DropReminder \/ CloseSession

Spec == Init /\ [][Next]_vars

-----------------------------------------------------------------------------
TypeOK ==
    /\ BasketTypeOK
    /\ \A o \in Numbers : orders[o].st \in {"none", "draft", "awaiting_payment", "paid", "cancelled"}
    /\ closing \in {"no", "spend", "cart", "job", "session", "stopped", "done"}
    /\ session \in {"open", "complete"}
    /\ drifted \cup stale \subseteq Numbers

\* Whatever edits and tabs overlap, an order charges for the lines it holds:
\* its subtotal is theirs, its total adds the delivery, and each cap costs the
\* price of the caps bought together.  A basket that changed rebuilds the
\* order; only one whose payment was already started keeps its old lines under
\* the new totals (CheckoutService.initiate).
LinesAddUp ==
    \A o \in Numbers : orders[o].st # "none" /\ o \notin drifted =>
        /\ orders[o].sub = Subtotal(orders[o].lines)
        /\ orders[o].total = orders[o].sub + orders[o].ship
        /\ Verified(orders[o].lines)

\* The customer is charged the total of the order, unless the total moved
\* after the form was last priced: stepping back to change shipping and coming
\* again re-prices the intent (mintOrReuseIntent).
ChargedAsShown ==
    \A o \in Numbers : orders[o].st = "paid" /\ o \notin stale => stripe[o].amount = orders[o].total

\* A refreshed or repeated checkout resumes its order: one order of a cart is
\* open at a time, unless two requests built one at once or readyForPayment
\* revived an order that a rebuild had just cancelled (initiate).
OneOpenOrder == ~ raced => Cardinality(OpenOrders) <= 1

\* The owner of a cart is reminded at most once, also when the worker crashes
\* and runs the job again, and once a payment has closed the cart no reminder
\* reopens it as abandoned (the conditional flip of CartAbandonmentProcessor).
RemindedOnce ==
    /\ reminded <= 1
    /\ closing \in {"job", "session", "stopped", "done"} => cart = "completed"
=============================================================================
