----------------------------- MODULE Conversions -----------------------------
(***************************************************************************)
(* What the shop knows of its own sales.  Behaviour events are written as  *)
(* customers browse and order (BehaviorTrackingService,                    *)
(* CheckoutStartedListener, TestCheckoutGuard) and counted by the reports  *)
(* (ShopBehaviorAnalyticsService); orders and payments are told to the ad  *)
(* platforms through a queue (the MetaCapi and TikTokEvents services); and the  *)
(* dashboard's figures are computed ahead (ShopAnalyticsAggregatorService).*)
(* Dates, countries and amounts are left out: a report is over everything  *)
(* written, and an order is either paid or not.                            *)
(***************************************************************************)
EXTENDS Integers, Sequences, SequencesExt

CONSTANTS
    Products, Orders,
    Visitors,            \* [name, ip, bot]; the cart token is the visitor's name
    Calls, Runs,         \* requests and listeners under way; aggregations
    Platforms, Pixels,
    Listened,            \* commerce events the tracking listener takes, both in the code
    Attempts,            \* of a job, 5 in the code
    MaxViews, MaxEdits, MaxFaults   \* bounds: pages and payment steps asked for, the admin's edits, faults

VARIABLES
    isTest,              \* products.isTestProduct
    excluded,            \* addresses kept out of the analytics
    events,              \* shop_behavior_events
    known,               \* the process's copy of the flag, kept for a minute
    call,                \* what each is recording
    basket, order,
    heard,               \* commerce events the tracking listener has not taken
    pixel, on,           \* the saved pixel and its switch
    told, job, dead,     \* commerce events the platforms' listeners have not taken, their queue, the dead letters
    taken,               \* what a platform has on its books, by pixel: it counts an id once
    run, ran, figures,   \* aggregations, the nightly one's window, the figures in Redis
    views, edits, faults,
    \* history
    flipped,             \* products whose flag was flipped
    shown,               \* visitors counted in a tab, by type, product and tab
    turned,              \* orders one of whose products was flipped after they were placed
    wanted, missed,      \* purchases a platform was on for; those lost with a trace
    moved,               \* purchases under way when the pixel was saved
    due, met, torn       \* orders every finished run started with; two runs overlapped; an order was paid during a run

vars == <<isTest, excluded, events, known, call, basket, order, heard, pixel, on, told, job, dead, taken, run, ran, figures,
          views, edits, faults, flipped, shown, turned, wanted, missed, moved, due, met, torn>>
tracking == <<isTest, excluded, events, known, call, basket, heard, views, flipped, shown, turned>>
ads == <<pixel, on, told, job, dead, taken, wanted, missed, moved>>
dashboard == <<run, ran, figures, due, met, torn>>

None == "none"
NoIp == "none"
NoFigures == [d7 |-> {}, d30 |-> {}, there |-> FALSE]
IdleRun == [at |-> "idle", d7 |-> {}, d30 |-> {}, left |-> {}, from |-> {}]
Idle == [at |-> "idle", todo |-> <<>>, flag |-> None, order |-> None]
NoOrder == [st |-> "none", who |-> None, ip |-> NoIp, items |-> {}, intent |-> FALSE]
Paid == {o \in Orders : order[o].st = "paid"}
Flag(p) == IF isTest[p] THEN "test" ELSE "live"

-----------------------------------------------------------------------------
(* The reports.  A visitor is his address, or his cart where there is none.*)
(* Rows alike but for their id are told apart by n.                        *)

VISITOR_KEY(e) == IF e.ip # NoIp THEN e.ip ELSE e.cart
COUNT(S) == Cardinality({VISITOR_KEY(e) : e \in S})
EXCLUDE_TEST_PRODUCTS == {e \in events : ~ isTest[e.product]}
getConversionFunnel == [t \in {"product_view", "add_to_cart", "checkout_started"} |->
                          COUNT({e \in EXCLUDE_TEST_PRODUCTS : e.type = t})]
\* A mutant: an event is shown where its product is today.
InTabToday(e, scope) == Flag(e.product) = scope
InTab(e, scope) == e.phase = scope
getTestProductDemand(scope, p, t) == COUNT({e \in events : e.product = p /\ e.type = t /\ InTab(e, scope)})

-----------------------------------------------------------------------------
(* Recording an event: the address and the agent are checked, the phase is *)
(* read unless the process has it, the row is written.                     *)

Event(t, v, p) == [type |-> t, ip |-> v.ip, cart |-> v.name, product |-> p]
Begin(c, todo) == call' = [call EXCEPT ![c] = IF todo = <<>> THEN Idle ELSE [Idle EXCEPT !.at = "look", !.todo = todo]]
Next1(c) == Begin(c, Tail(call[c].todo))
Now(c) == Head(call[c].todo)
Insert(e, phase) ==
    LET row == [type |-> e.type, ip |-> e.ip, cart |-> e.cart, product |-> e.product, phase |-> phase]
        same == {x \in events : [y \in DOMAIN row |-> x[y]] = row}
    IN /\ events' = events \cup {row @@ [n |-> Cardinality(same) + 1]}
       /\ shown' = IF phase = None THEN shown ELSE shown \cup {<<e.type, e.product, phase, VISITOR_KEY(e)>>}
Skip(c) ==
    /\ call[c].at = "look" /\ Now(c).ip \in excluded
    /\ Next1(c)
    /\ UNCHANGED <<isTest, excluded, events, known, basket, order, heard, ads, dashboard, views, edits, faults, flipped, shown, turned>>
Hit(c) ==
    /\ call[c].at = "look" /\ Now(c).ip \notin excluded /\ known[Now(c).product] # None
    /\ Insert(Now(c), known[Now(c).product])
    /\ Next1(c)
    /\ UNCHANGED <<isTest, excluded, known, basket, order, heard, ads, dashboard, views, edits, faults, flipped, turned>>
isTestProduct(c) ==
    /\ call[c].at = "look" /\ Now(c).ip \notin excluded /\ known[Now(c).product] = None
    /\ \/ call' = [call EXCEPT ![c].at = "write", ![c].flag = Flag(Now(c).product)] /\ UNCHANGED faults
       \/ /\ faults < MaxFaults /\ faults' = faults + 1
          /\ call' = [call EXCEPT ![c].at = "write", ![c].flag = None]
    /\ UNCHANGED <<isTest, excluded, events, known, basket, order, heard, ads, dashboard, views, edits, flipped, shown, turned>>
record(c) ==
    /\ call[c].at = "write"
    /\ Insert(Now(c), call[c].flag)
    /\ known' = IF call[c].flag = None THEN known ELSE [known EXCEPT ![Now(c).product] = call[c].flag]
    /\ Next1(c)
    /\ UNCHANGED <<isTest, excluded, basket, order, heard, ads, dashboard, views, edits, faults, flipped, turned>>
ProductStateEnds(p) ==
    /\ known[p] # None /\ known' = [known EXCEPT ![p] = None]
    /\ UNCHANGED <<isTest, excluded, events, call, basket, order, heard, ads, dashboard, views, edits, faults, flipped, shown, turned>>

(* The shop: a page seen, a line added, the order placed, the guard at the *)
(* payment step and before the intent is minted.                           *)
track(c, v, p) ==
    /\ call[c].at = "idle" /\ views < MaxViews /\ views' = views + 1
    /\ ~ v.bot
    /\ Begin(c, <<Event("product_view", v, p)>>)
    /\ UNCHANGED <<isTest, excluded, events, known, basket, order, heard, ads, dashboard, edits, faults, flipped, shown, turned>>
addItem(c, v, p) ==
    /\ call[c].at = "idle" /\ p \notin basket[v.name]
    /\ basket' = [basket EXCEPT ![v.name] = @ \cup {p}]
    /\ Begin(c, IF v.bot THEN <<>> ELSE <<Event("add_to_cart", v, p)>>)
    /\ UNCHANGED <<isTest, excluded, events, known, order, heard, ads, dashboard, views, edits, faults, flipped, shown, turned>>
Emit(o, t) == heard' = IF t \in Listened THEN heard \cup {<<o, t>>} ELSE heard
Tell(o, name) == told' = told \cup {[to |-> pl, name |-> name, order |-> o] : pl \in Platforms}
createFromCart(o, v) ==
    /\ order[o].st = "none" /\ basket[v.name] # {}
    /\ order' = [order EXCEPT ![o] = [NoOrder EXCEPT !.st = "draft", !.who = v.name, !.ip = v.ip, !.items = basket[v.name]]]
    /\ Emit(o, "checkout_started") /\ Tell(o, "InitiateCheckout")
    /\ UNCHANGED <<isTest, excluded, events, known, call, basket, pixel, on, job, dead, taken, wanted, missed, moved, dashboard,
                   views, edits, faults, flipped, shown, turned>>
Of(o, t, P) == SetToSeq({[type |-> t, ip |-> order[o].ip, cart |-> order[o].who, product |-> p] : p \in P})
recordPerProduct(c, o, t) ==
    /\ call[c].at = "idle" /\ <<o, t>> \in heard /\ heard' = heard \ {<<o, t>>}
    /\ Begin(c, Of(o, t, order[o].items))
    /\ UNCHANGED <<isTest, excluded, events, known, basket, order, ads, dashboard, views, edits, faults, flipped, shown, turned>>
findTestProductIds(o) == {p \in order[o].items : isTest[p]}
\* At "ready" and "mint" the guard has let the order pass.
Guarded(c, o, at) ==
    /\ call[c].at = "idle" /\ views < MaxViews /\ views' = views + 1
    /\ IF findTestProductIds(o) # {} THEN Begin(c, Of(o, "test_checkout_blocked", findTestProductIds(o)))
       ELSE call' = [call EXCEPT ![c] = [Idle EXCEPT !.at = at, !.order = o]]
    /\ UNCHANGED <<isTest, excluded, events, known, basket, order, heard, ads, dashboard, edits, faults, flipped, shown, turned>>
assertCheckoutAllowed(c, o) == order[o].st = "draft" /\ Guarded(c, o, "ready")
assertStillAllowed(c, o) == order[o].st = "awaiting_payment" /\ ~ order[o].intent /\ Guarded(c, o, "mint")
readyForPayment(c) ==
    LET o == call[c].order IN
    /\ call[c].at = "ready" /\ order[o].st = "draft"
    /\ order' = [order EXCEPT ![o].st = "awaiting_payment"]
    /\ Emit(o, "payment_step_reached")
    /\ Begin(c, <<>>)
    /\ UNCHANGED <<isTest, excluded, events, known, basket, ads, dashboard, views, edits, faults, flipped, shown, turned>>
mintIntent(c) ==
    /\ call[c].at = "mint"
    /\ order' = [order EXCEPT ![call[c].order].intent = TRUE]
    /\ Begin(c, <<>>)
    /\ UNCHANGED <<isTest, excluded, events, known, basket, heard, ads, dashboard, views, edits, faults, flipped, shown, turned>>
Takes(pl) == on[pl] /\ pixel[pl] # None
PaymentSucceeded(o) ==
    /\ order[o].st = "awaiting_payment" /\ order[o].intent
    /\ order' = [order EXCEPT ![o].st = "paid"]
    /\ Tell(o, "Purchase")
    /\ wanted' = wanted \cup {<<pl, o>> : pl \in {x \in Platforms : Takes(x)}}
    /\ torn' = (torn \/ \E r \in Runs : run[r].at # "idle")
    /\ UNCHANGED <<tracking, pixel, on, job, dead, taken, missed, moved, run, ran, figures, due, met, edits, faults>>
update(p) ==
    /\ edits < MaxEdits /\ edits' = edits + 1
    /\ isTest' = [isTest EXCEPT ![p] = ~ @]
    /\ flipped' = flipped \cup {p}
    /\ turned' = turned \cup {o \in Orders : p \in order[o].items}
    /\ UNCHANGED <<excluded, events, known, call, basket, order, heard, ads, dashboard, views, faults, shown>>
addAnalyticsExcludedIp(v) ==
    /\ edits < MaxEdits /\ edits' = edits + 1
    /\ v.ip # NoIp /\ v.ip \notin excluded /\ excluded' = excluded \cup {v.ip}
    /\ UNCHANGED <<isTest, events, known, call, basket, order, heard, ads, dashboard, views, faults, flipped, shown, turned>>

-----------------------------------------------------------------------------
(* The ad platforms: a listener each, a queue, and the platform's books.   *)

Job(t) == [to |-> t.to, name |-> t.name, order |-> t.order, tries |-> 0]
Drop(j) == job' = job \ {j}
sendEvent(t) ==
    /\ t \in told /\ told' = told \ {t}
    /\ job' = IF Takes(t.to) THEN job \cup {Job(t)} ELSE job
    /\ missed' = IF Takes(t.to) THEN missed ELSE missed \cup {<<t.to, t.order>>}
    /\ UNCHANGED <<tracking, order, dashboard, pixel, on, dead, taken, wanted, moved, edits, faults>>
\* The switch is not looked at again.
Skipped(j) ==
    /\ j \in job /\ pixel[j.to] = None /\ Drop(j)
    /\ missed' = missed \cup {<<j.to, j.order>>}
    /\ UNCHANGED <<tracking, order, dashboard, pixel, on, told, dead, taken, wanted, moved, edits, faults>>
Books(j) == taken' = taken \cup {[to |-> j.to, by |-> pixel[j.to], name |-> j.name, order |-> j.order]}
Accepted(j) ==
    /\ j \in job /\ pixel[j.to] # None /\ Drop(j) /\ Books(j)
    /\ UNCHANGED <<tracking, order, dashboard, pixel, on, told, dead, wanted, missed, moved, edits, faults>>
Retried(j) ==
    IF j.tries + 1 < Attempts THEN job' = (job \ {j}) \cup {[j EXCEPT !.tries = @ + 1]} /\ UNCHANGED dead
    ELSE Drop(j) /\ dead' = dead \cup {j}
\* Refused, or taken with the answer lost.
Failed(j) ==
    /\ j \in job /\ pixel[j.to] # None /\ faults < MaxFaults /\ faults' = faults + 1
    /\ Retried(j)
    /\ Books(j) \/ UNCHANGED taken
    /\ UNCHANGED <<tracking, order, dashboard, pixel, on, told, wanted, missed, moved, edits>>
setPixel(pl) ==
    /\ edits < MaxEdits /\ edits' = edits + 1
    /\ \/ \E px \in (Pixels \cup {None}) \ {pixel[pl]} : pixel' = [pixel EXCEPT ![pl] = px] /\ UNCHANGED on
       \/ pixel[pl] # None /\ on' = [on EXCEPT ![pl] = ~ @] /\ UNCHANGED pixel
    /\ moved' = moved \cup {<<j.to, j.order>> : j \in {x \in job : x.to = pl}}
    /\ UNCHANGED <<tracking, order, dashboard, told, job, dead, taken, wanted, missed, faults>>
\* What listeners and requests hold in memory goes with the process.
Crash ==
    /\ faults < MaxFaults /\ faults' = faults + 1
    /\ heard' = {} /\ told' = {}
    /\ missed' = missed \cup {<<t.to, t.order>> : t \in told}
    /\ call' = [c \in Calls |-> Idle] /\ known' = [p \in Products |-> None]
    /\ run' = [r \in Runs |-> IdleRun]
    /\ UNCHANGED <<isTest, excluded, events, basket, order, pixel, on, job, dead, taken, ran, figures,
                   views, edits, flipped, shown, turned, wanted, moved, due, met, torn>>

-----------------------------------------------------------------------------
(* The dashboard's figures: every night in one process, and whenever the   *)
(* admin asks.  The queries run beside each other.                         *)

Start(r) ==
    /\ run[r].at = "idle"
    /\ run' = [run EXCEPT ![r] = [IdleRun EXCEPT !.at = "read", !.left = {"7d", "30d"}, !.from = Paid]]
    /\ met' = (met \/ \E q \in Runs \ {r} : run[q].at # "idle")
    /\ UNCHANGED <<tracking, order, ads, figures, due, torn, edits, faults>>
runNightlyAggregation(r) == ~ ran /\ ran' = TRUE /\ Start(r)
aggregate(r) == Start(r) /\ UNCHANGED ran
getOverview(r) ==
    /\ run[r].at = "read"
    /\ \E d \in run[r].left :
         run' = [run EXCEPT ![r] = [@ EXCEPT !.left = @ \ {d}, !.d7 = IF d = "7d" THEN Paid ELSE @,
                                             !.d30 = IF d = "30d" THEN Paid ELSE @]]
    /\ UNCHANGED <<tracking, order, ads, ran, figures, due, met, torn, edits, faults>>
Figures(r) == [d7 |-> run[r].d7, d30 |-> run[r].d30, there |-> TRUE]
Stored(r) ==
    /\ run[r].at = "read" /\ run[r].left = {}
    /\ figures' = Figures(r) /\ due' = due \cup run[r].from
    /\ run' = [run EXCEPT ![r] = IdleRun]
    /\ UNCHANGED <<tracking, order, ads, ran, met, torn, edits, faults>>
AggregationFails(r) ==
    /\ run[r].at = "read" /\ faults < MaxFaults /\ faults' = faults + 1
    /\ run' = [run EXCEPT ![r] = IdleRun]
    /\ UNCHANGED <<tracking, order, ads, ran, figures, due, met, torn, edits>>
DayEnds ==
    /\ \/ ran /\ ran' = FALSE /\ UNCHANGED figures
       \/ figures.there /\ figures' = NoFigures /\ UNCHANGED ran
    /\ UNCHANGED <<tracking, order, ads, run, due, met, torn, edits, faults>>
getOverviewCached == IF figures.there THEN figures ELSE [NoFigures EXCEPT !.d7 = Paid, !.d30 = Paid]

-----------------------------------------------------------------------------

TypeOK ==
    /\ isTest \in [Products -> BOOLEAN] /\ known \in [Products -> {None, "test", "live"}]
    /\ \A e \in events : e.product \in Products /\ e.phase \in {None, "test", "live"}
    /\ \A o \in Orders : order[o].st \in {"none", "draft", "awaiting_payment", "paid"} /\ order[o].items \subseteq Products
    /\ \A j \in job \cup dead : j.tries < Attempts
    /\ figures.d7 \subseteq Orders /\ figures.d30 \subseteq Orders

Is(t) == {e \in events : e.type = t}
\* Flipping a product's switch moves nobody from one tab of the demand report
\* to the other, and nobody is counted twice, however many products his order
\* has and however often he looks: no more reach shipping than placed orders.
\* A refused checkout is counted under Tests and a payment step under Live,
\* and never both for one product, unless its switch was flipped meanwhile;
\* and no intent is minted for an order with a test product unless it became
\* one after the order was placed.
TabsTrue ==
    /\ \A x \in {<<e.type, e.product, e.phase>> : e \in {d \in events : d.phase # None}} :
         getTestProductDemand(x[3], x[2], x[1]) = Cardinality({y \in shown : <<y[1], y[2], y[3]>> = x})
    /\ getConversionFunnel["checkout_started"] <= Cardinality({<<order[o].who, order[o].ip>> : o \in Orders} \ {<<None, NoIp>>})
    /\ \A e \in Is("test_checkout_blocked") : e.product \in flipped \/ e.phase # "live"
    /\ \A e \in Is("payment_step_reached") : e.product \in flipped \/ e.phase # "test"
    /\ \A e \in Is("test_checkout_blocked"), d \in Is("payment_step_reached") :
         e.product = d.product => e.product \in flipped
    /\ \A o \in Orders : order[o].intent /\ findTestProductIds(o) # {} => o \in turned

\* A platform has only purchases that were paid, each once, under one pixel
\* unless the pixel was saved while the job waited; and a purchase it was on
\* for is on its books, on its way or among the dead letters, unless the
\* process stopped with it or the pixel was turned off before it was told.
PurchaseTold ==
    /\ \A b \in taken : order[b.order].st # "none" /\ (b.name = "Purchase" => b.order \in Paid)
    /\ \A a, b \in taken : a.to = b.to /\ a.name = b.name /\ a.order = b.order /\ a # b => <<a.to, a.order>> \in moved
    /\ \A w \in wanted :
         \/ w \in missed
         \/ \E x \in taken \cup told \cup job \cup dead : x.to = w[1] /\ x.order = w[2] /\ x.name = "Purchase"

\* The dashboard shows every order that was paid when a finished aggregation
\* began, unless two of them ran at once; and a week shows no order the month
\* does not, unless one was paid between the two queries.
FiguresFresh ==
    /\ met \/ due \subseteq getOverviewCached.d7 \cap getOverviewCached.d30
    /\ torn \/ getOverviewCached.d7 = getOverviewCached.d30

Init ==
    /\ isTest \in [Products -> BOOLEAN] /\ excluded = {}
    /\ events = {} /\ known = [p \in Products |-> None] /\ call = [c \in Calls |-> Idle]
    /\ basket = [v \in {x.name : x \in Visitors} |-> {}] /\ order = [o \in Orders |-> NoOrder] /\ heard = {}
    /\ pixel \in [Platforms -> {CHOOSE x \in Pixels : TRUE}] /\ on = [pl \in Platforms |-> TRUE]
    /\ told = {} /\ job = {} /\ dead = {} /\ taken = {}
    /\ run = [r \in Runs |-> IdleRun] /\ ran = FALSE /\ figures = NoFigures
    /\ views = 0 /\ edits = 0 /\ faults = 0
    /\ flipped = {} /\ shown = {} /\ turned = {} /\ wanted = {} /\ missed = {} /\ moved = {}
    /\ due = {} /\ met = FALSE /\ torn = FALSE

Next ==
    \/ \E c \in Calls : Skip(c) \/ Hit(c) \/ isTestProduct(c) \/ record(c) \/ readyForPayment(c) \/ mintIntent(c)
    \/ \E c \in Calls, v \in Visitors, p \in Products : track(c, v, p) \/ addItem(c, v, p)
    \/ \E o \in Orders, v \in Visitors : createFromCart(o, v)
    \/ \E c \in Calls, o \in Orders, t \in Listened : recordPerProduct(c, o, t)
    \/ \E c \in Calls, o \in Orders : assertCheckoutAllowed(c, o) \/ assertStillAllowed(c, o)
    \/ \E o \in Orders : PaymentSucceeded(o)
    \/ \E p \in Products : update(p) \/ ProductStateEnds(p)
    \/ \E v \in Visitors : addAnalyticsExcludedIp(v)
    \/ \E t \in told : sendEvent(t)
    \/ \E j \in job : Skipped(j) \/ Accepted(j) \/ Failed(j)
    \/ \E pl \in Platforms : setPixel(pl)
    \/ Crash
    \/ \E r \in Runs : runNightlyAggregation(r) \/ aggregate(r) \/ getOverview(r) \/ Stored(r) \/ AggregationFails(r)
    \/ DayEnds

Spec == Init /\ [][Next]_vars
=============================================================================
