-------------------------- MODULE OrderSettlement --------------------------
(***************************************************************************)
(* How an order is placed, paid, timed out, restored, cancelled and        *)
(* refunded: CheckoutService, OrdersService, ShopPaymentService, the       *)
(* reservation timer (BullMQ) and Stripe, at the grain of the code's       *)
(* awaits.  A handler occupies a slot while it runs; between two of its    *)
(* steps any other handler may run.  One action is one database statement  *)
(* or transaction, one Stripe call or one queue call, with the local       *)
(* decisions that follow it.                                               *)
(*                                                                         *)
(* Slots: request handlers (Workers), the reservation worker (one job at a *)
(* time per process) and the reconcile sweep (one replica per window).     *)
(***************************************************************************)
EXTENDS OrderStatus, FiniteSets

CONSTANTS
    Orders,        \* orders, one per cart; a rebuilt basket is another order
    Lines,         \* Lines[o]: the claim of o, its items
    InitialStock,  \* the stock before the first order
    Deltas,        \* manual stock corrections an admin may enter
    Workers,       \* concurrent HTTP requests (storefront, admin, webhooks)
    MaxIntents,    \* bound: PaymentIntents minted for one order
    MaxFaults,     \* bound: crashes, thrown errors and refused queue calls
    Active,        \* the handlers that run in this instance
    Overlap        \* may two handlers of one order overlap?  The code: TRUE

ASSUME OrdersAssumption == IsFiniteSet(Orders)
ASSUME LinesAssumption == Lines \in [Orders -> Claim]
ASSUME StockAssumption ==
    InitialStock \in [Variants -> [available : Nat, reserved : {0}, committed : {0}]]
ASSUME DeltasAssumption == Deltas \subseteq Int
ASSUME SlotsAssumption == {"timer", "sweep"} \cap Workers = {}
ASSUME BoundsAssumption == MaxIntents \in Nat /\ MaxFaults \in Nat
ASSUME OverlapAssumption == Overlap \in BOOLEAN
ASSUME ActiveAssumption == Active \subseteq
    {"initiate", "create", "ready", "intent", "succeeded", "failed", "refunded",
     "reconcile", "sweep", "manual", "timer", "admin", "rebuild"}

Slots   == Workers \cup {"timer", "sweep"}
Intents == 1 .. MaxIntents
NoIntent == 0
Manual   == MaxIntents + 1    \* paymentIntentId = 'manual:...'

\* Reservation jobs of one order, by what queued them: placing the order,
\* minting the intent, a failed attempt.  A job and the deadline it was
\* queued with share the name.
Timers == {"base", "intent", "retry"}

\* A Stripe event; also the key of the PaymentTransaction row it leaves (a
\* success is keyed on the intent, the others on the event).
Event == [type : {"succeeded", "failed", "refunded"}, o : Orders, k : Intents]
Succeeded(o, k) == [type |-> "succeeded", o |-> o, k |-> k]
Failed(o, k)    == [type |-> "failed",    o |-> o, k |-> k]
Refunded(o, k)  == [type |-> "refunded",  o |-> o, k |-> k]

VARIABLES
    status,   \* order.status, "none" before the row exists
    last,     \* newest history row: "timeout" if the timer cancelled, else "other"
    pi,       \* order.paymentIntentId
    hold,     \* the timer whose deadline is order.reservationExpiresAt
    lapsed,   \* is that deadline past?
    spent,    \* orders whose cart is completed
    stock,    \* inventory rows
    uses,     \* coupon usesCount and customer stats, per order counted
    timers,   \* jobs waiting in the checkout-reservation queue
    ledger,   \* PaymentTransaction rows
    stripe,   \* Stripe's PaymentIntents
    events,   \* Stripe events not yet acknowledged
    task,     \* the handler each slot runs
    told,     \* alerts and emails sent
    vouched,  \* history variable: orders an admin recorded as paid by hand
    faults    \* faults so far

rowVars   == <<status, last>>
holdVars  == <<hold, lapsed>>
stockVars == <<stock, uses>>
moneyVars == <<stripe, events>>
vars == <<status, last, pi, hold, lapsed, spent, stock, uses, timers, ledger,
          stripe, events, task, told, vouched, faults>>

(***************************************************************************)
(* A running handler: op, the order, the next step pc, the status it read  *)
(* (seen), the status it wants (to), the intent it deals with (ref), the   *)
(* reservation job that woke it (job), the Stripe event it handles (ev).   *)
(***************************************************************************)
Ops == {"initiate", "ready", "intent", "succeeded", "failed", "refunded",
        "reconcile", "manual", "timer", "admin", "rebuild"}
Settling == {"succeeded", "reconcile", "manual"}   \* ops that run confirmPayment
Steps == {"enqueue", "ready", "readyNote", "mint", "attachIntent", "extend",
          "ledger", "confirm", "history", "restore", "attach", "check", "apply",
          "spend", "ask", "grace", "delay", "reconcile", "announce"}
Idle == [op |-> "idle"]
Task == [op : Ops, o : Orders, pc : Steps, seen : Statuses \cup {"none"}, to : Statuses,
         ref : 0 .. MaxIntents + 1, job : Timers \cup {"none"},
         ev : Event \cup {Idle}]

Handler(op, o, pc) ==
    [op |-> op, o |-> o, pc |-> pc, seen |-> "none", to |-> "paid", ref |-> NoIntent,
     job |-> "none", ev |-> Idle]

\* A handler of o may start in slot w, if the instance runs it.
Free(kind, w, o) ==
    /\ kind \in Active
    /\ task[w] = Idle
    /\ Overlap \/ \A x \in Slots : task[x] # Idle => task[x].o # o
Begin(w, t) == task' = [task EXCEPT ![w] = t]
At(w, pc) == task[w] # Idle /\ task[w].pc = pc
Goto(w, pc) == task' = [task EXCEPT ![w] = [@ EXCEPT !.pc = pc]]
Finish(w) == task' = [task EXCEPT ![w] = Idle]

Init ==
    /\ status = [o \in Orders |-> "none"]
    /\ last = [o \in Orders |-> "other"]
    /\ pi = [o \in Orders |-> NoIntent]
    /\ hold = [o \in Orders |-> "none"]
    /\ lapsed = [o \in Orders |-> FALSE]
    /\ spent = {}
    /\ stock = InitialStock
    /\ uses = [o \in Orders |-> 0]
    /\ timers = [o \in Orders |-> {}]
    /\ ledger = {}
    /\ stripe = [o \in Orders |-> [k \in Intents |-> "absent"]]
    /\ events = {}
    /\ task = [w \in Slots |-> Idle]
    /\ told = {}
    /\ vouched = {}
    /\ faults = 0

-----------------------------------------------------------------------------
(* Stripe, the clock, and what goes wrong. *)

\* The customer submits a method that authorises asynchronously.
StripeProcess(o, k) ==
    /\ stripe[o][k] = "open"
    /\ stripe' = [stripe EXCEPT ![o][k] = "processing"]
    /\ UNCHANGED <<rowVars, pi, holdVars, spent, stockVars, timers, ledger, events,
                   task, told, vouched, faults>>

StripeSucceed(o, k) ==
    /\ stripe[o][k] \in {"open", "processing", "declined"}
    /\ stripe' = [stripe EXCEPT ![o][k] = "succeeded"]
    /\ events' = events \cup {Succeeded(o, k)}
    /\ UNCHANGED <<rowVars, pi, holdVars, spent, stockVars, timers, ledger,
                   task, told, vouched, faults>>

\* The attempt fails: the intent asks for another payment method.
StripeFail(o, k) ==
    /\ stripe[o][k] \in {"open", "processing"} /\ "failed" \in Active
    /\ stripe' = [stripe EXCEPT ![o][k] = "declined"]
    /\ events' = events \cup {Failed(o, k)}
    /\ UNCHANGED <<rowVars, pi, holdVars, spent, stockVars, timers, ledger,
                   task, told, vouched, faults>>

\* Cancelled from the Stripe dashboard; bound: never the last intent.
StripeCancel(o, k) ==
    /\ stripe[o][k] \in {"minted", "open", "declined"} /\ k < MaxIntents
    /\ stripe' = [stripe EXCEPT ![o][k] = "canceled"]
    /\ UNCHANGED <<rowVars, pi, holdVars, spent, stockVars, timers, ledger, events,
                   task, told, vouched, faults>>

\* A refund, from refundOrder or from the dashboard.
StripeRefund(o, k) ==
    /\ stripe[o][k] = "succeeded" /\ "refunded" \in Active
    /\ events' = events \cup {Refunded(o, k)}
    /\ stripe' = [stripe EXCEPT ![o][k] = "repaid"]
    /\ UNCHANGED <<rowVars, pi, holdVars, spent, stockVars, timers, ledger,
                   task, told, vouched, faults>>

\* The money of the intent has been taken: its status is 'succeeded' (a
\* refund leaves it so).
HasMoney(o, k) == stripe[o][k] \in {"succeeded", "repaid"}

Lapse(o) ==
    /\ hold[o] # "none" /\ ~lapsed[o]
    /\ lapsed' = [lapsed EXCEPT ![o] = TRUE]
    /\ UNCHANGED <<rowVars, pi, hold, spent, stockVars, timers, ledger, moneyVars,
                   task, told, vouched, faults>>

\* A process dies or a call throws.  BullMQ retries the job of the timer slot
\* (3 attempts, more than MaxFaults); Stripe retries an event only if it got no
\* answer, which is the choice made in Deliver: an event may stay outstanding.
Fault(w) ==
    /\ task[w] # Idle /\ faults < MaxFaults
    /\ faults' = faults + 1
    /\ timers' = IF w = "timer" THEN [timers EXCEPT ![task[w].o] = @ \cup {task[w].job}]
                 ELSE timers
    /\ Finish(w)
    /\ UNCHANGED <<rowVars, pi, holdVars, spent, stockVars, ledger, moneyVars,
                   told, vouched>>

\* inventory.adjust, from the admin.
Adjust(v, delta) ==
    /\ CanAdjust(stock, v, delta)
    /\ stock' = Adjusted(stock, v, delta)
    /\ UNCHANGED <<rowVars, pi, holdVars, spent, uses, timers, ledger, moneyVars,
                   task, told, vouched, faults>>

-----------------------------------------------------------------------------
(* Checkout: initiate, createFromCart, readyForPayment, the card form. *)

\* The order is written and its units reserved in one transaction; the
\* reservation job is queued after it.
Initiate(w, o) ==
    /\ Free("initiate", w, o) /\ status[o] = "none" /\ CanReserve(stock, Lines[o])
    /\ status' = [status EXCEPT ![o] = "draft"]
    /\ stock' = Reserve(stock, Lines[o])
    /\ hold' = [hold EXCEPT ![o] = "base"]
    /\ Begin(w, [Handler("initiate", o, "enqueue") EXCEPT !.job = "base"])
    /\ UNCHANGED <<last, pi, lapsed, spent, uses, timers, ledger, moneyVars,
                   told, vouched, faults>>

CreateFromCart(o) ==
    /\ "create" \in Active /\ status[o] = "none" /\ CanReserve(stock, Lines[o])
    /\ status' = [status EXCEPT ![o] = "awaiting_payment"]
    /\ stock' = Reserve(stock, Lines[o])
    /\ spent' = spent \cup {o}
    /\ UNCHANGED <<last, pi, holdVars, uses, timers, ledger, moneyVars, task,
                   told, vouched, faults>>

\* The basket changed while no payment was started: initiate cancels the draft.
Rebuild(w, o) ==
    /\ Free("rebuild", w, o) /\ status[o] \in Cancellable /\ pi[o] = NoIntent
    /\ Begin(w, [Handler("rebuild", o, "check") EXCEPT !.to = "cancelled"])
    /\ UNCHANGED <<rowVars, pi, holdVars, spent, stockVars, timers, ledger, moneyVars,
                   told, vouched, faults>>

\* readyForPayment reads a draft, checks shipping and pickup point (network),
\* then writes the status it decided on and the history row.
StartReady(w, o) ==
    /\ Free("ready", w, o) /\ status[o] = "draft"
    /\ Begin(w, Handler("ready", o, "ready"))
    /\ UNCHANGED <<rowVars, pi, holdVars, spent, stockVars, timers, ledger, moneyVars,
                   told, vouched, faults>>

Ready(w) ==
    /\ At(w, "ready")
    /\ status' = [status EXCEPT ![task[w].o] = "awaiting_payment"]
    /\ Goto(w, "readyNote")
    /\ UNCHANGED <<last, pi, holdVars, spent, stockVars, timers, ledger, moneyVars,
                   told, vouched, faults>>

ReadyNote(w) ==
    /\ At(w, "readyNote")
    /\ last' = [last EXCEPT ![task[w].o] = "other"]
    /\ Finish(w)
    /\ UNCHANGED <<status, pi, holdVars, spent, stockVars, timers, ledger, moneyVars,
                   told, vouched, faults>>

\* createPaymentIntent: an order awaiting payment with no usable intent gets
\* one; the idempotency key names the intent it replaces.
StartIntent(w, o) ==
    /\ Free("intent", w, o) /\ status[o] = "awaiting_payment" /\ pi[o] < MaxIntents
    /\ pi[o] # NoIntent => stripe[o][pi[o]] = "canceled"
    /\ Begin(w, [Handler("intent", o, "mint") EXCEPT !.ref = pi[o] + 1])
    /\ UNCHANGED <<rowVars, pi, holdVars, spent, stockVars, timers, ledger, moneyVars,
                   told, vouched, faults>>

\* The customer has the client secret, and can pay from here on.
Shown(o, k) == [stripe EXCEPT ![o][k] = IF @ = "minted" THEN "open" ELSE @]

Mint(w) ==
    /\ At(w, "mint")
    /\ LET o == task[w].o
           k == task[w].ref
       IN  stripe' = [stripe EXCEPT ![o][k] = IF @ = "absent" THEN "minted" ELSE @]
    /\ Goto(w, "attachIntent")
    /\ UNCHANGED <<rowVars, pi, holdVars, spent, stockVars, timers, ledger, events,
                   told, vouched, faults>>

AttachIntent(w) ==
    /\ At(w, "attachIntent")
    /\ pi' = [pi EXCEPT ![task[w].o] = task[w].ref]
    /\ Begin(w, [task[w] EXCEPT !.pc = "extend", !.job = "intent"])
    /\ UNCHANGED <<rowVars, holdVars, spent, stockVars, timers, ledger, moneyVars,
                   told, vouched, faults>>

\* extendReservation: a new deadline if the order is still unpaid, and a job
\* for it in any case.
ExtendUnqueued(w) == At(w, "extend") /\ Finish(w)                    \* seeded
    /\ hold' = [hold EXCEPT ![task[w].o] = task[w].job]
    /\ lapsed' = [lapsed EXCEPT ![task[w].o] = FALSE]
    /\ UNCHANGED <<rowVars, pi, spent, stockVars, timers, ledger, moneyVars,
                   told, vouched, faults>>
Extend(w) ==
    /\ At(w, "extend")
    /\ LET o == task[w].o
       IN  IF status[o] \in Cancellable
           THEN /\ hold' = [hold EXCEPT ![o] = task[w].job]
                /\ lapsed' = [lapsed EXCEPT ![o] = FALSE]
           ELSE UNCHANGED holdVars
    /\ Goto(w, "enqueue")
    /\ UNCHANGED <<rowVars, pi, spent, stockVars, timers, ledger, moneyVars,
                   told, vouched, faults>>

\* The job is queued; createPaymentIntent then answers with the client secret.
Enqueue(w) ==
    /\ At(w, "enqueue")
    /\ LET t == task[w]
       IN  /\ timers' = [timers EXCEPT ![t.o] = @ \cup {t.job}]
           /\ stripe' = IF t.op = "intent" THEN Shown(t.o, t.ref) ELSE stripe
    /\ Finish(w)
    /\ UNCHANGED <<rowVars, pi, holdVars, spent, stockVars, ledger, events,
                   told, vouched, faults>>

\* The intent the order has is answered again, without touching the hold.
ReuseIntent(w, o) ==
    /\ Free("intent", w, o) /\ status[o] = "awaiting_payment" /\ pi[o] \in Intents
    /\ stripe[o][pi[o]] = "minted"
    /\ stripe' = Shown(o, pi[o])
    /\ UNCHANGED <<rowVars, pi, holdVars, spent, stockVars, timers, ledger, events, task,
                   told, vouched, faults>>

-----------------------------------------------------------------------------
(* Payment: webhooks, reconciliation, confirmPayment. *)

\* Stripe delivers an event, at least once.  A payment finds its order by the
\* metadata, a refund by the intent the order carries now.
Deliver(w, e) ==
    /\ e \in events /\ Free(e.type, w, e.o)
    /\ events' \in {events, events \ {e}}
    /\ IF status[e.o] = "none" \/ (e.type = "refunded" /\ pi[e.o] # e.k)
       THEN UNCHANGED task
       ELSE Begin(w, [Handler(e.type, e.o, "ledger")
                        EXCEPT !.seen = status[e.o], !.ref = e.k, !.ev = e])
    /\ UNCHANGED <<rowVars, pi, holdVars, spent, stockVars, timers, ledger, stripe,
                   told, vouched, faults>>

\* reconcileOrder has read an order worth settling and Stripe has the money.
\* Both reads are one step: money taken stays taken, and of the row only
\* whether it was paid is used later.
MoneyAssumed(o) == pi[o] \in Intents                                 \* seeded
Payable(o) == pi[o] \in Intents /\ HasMoney(o, pi[o])
Reconciliation(w, o) ==
    [Handler("reconcile", o, "ledger")
        EXCEPT !.seen = status[o], !.ref = pi[o], !.ev = Succeeded(o, pi[o]),
               !.job = IF w = "timer" THEN task[w].job ELSE "none"]

\* The success or tracking page asks; the sweep asks for unpaid orders only.
SweptDrafts == {"draft"}                                             \* seeded
Swept == {"draft", "awaiting_payment"}
StartReconcile(w, o) ==
    /\ Free(IF w = "sweep" THEN "sweep" ELSE "reconcile", w, o) /\ Payable(o)
    /\ status[o] \in IF w = "sweep" THEN Swept ELSE Reconcilable
    /\ Begin(w, Reconciliation(w, o))
    /\ UNCHANGED <<rowVars, pi, holdVars, spent, stockVars, timers, ledger, moneyVars,
                   told, vouched, faults>>

\* markPaidManually: an admin vouches for money that is not in Stripe.
StartManual(w, o) ==
    /\ Free("manual", w, o) /\ status[o] \notin {"none", "paid"}
    /\ vouched' = vouched \cup {o}
    /\ Begin(w, [Handler("manual", o, "confirm")
                    EXCEPT !.ref = IF pi[o] = NoIntent THEN Manual ELSE pi[o]])
    /\ UNCHANGED <<rowVars, pi, holdVars, spent, stockVars, timers, ledger, moneyVars,
                   told, faults>>

\* recordTransactionIdempotent, then what each caller does with its answer.
Ledger(w) ==
    /\ At(w, "ledger")
    /\ LET t == task[w]
           new == t.ev \notin ledger
       IN  /\ ledger' = ledger \cup {t.ev}
           /\ \/ /\ t.op \in Settling /\ (new \/ t.seen # "paid")
                 /\ Begin(w, [t EXCEPT !.pc = "confirm", !.seen = "none", !.ev = Idle])
              \/ /\ t.op = "failed" /\ new
                 /\ Begin(w, [Handler("failed", t.o, "extend") EXCEPT !.job = "retry"])
              \/ /\ t.op = "refunded" /\ new /\ t.seen # "refunded"
                 /\ Begin(w, [Handler("refunded", t.o, "check") EXCEPT !.to = "refunded"])
              \/ /\ ~new /\ (t.op \in Settling => t.seen = "paid")
                 /\ Finish(w)
              \/ /\ t.op = "refunded" /\ new /\ t.seen = "refunded"
                 /\ Finish(w)
    /\ UNCHANGED <<rowVars, pi, holdVars, spent, stockVars, timers, moneyVars,
                   told, vouched, faults>>

\* confirmPayment threw: settle raises the ATTENTION alert, markPaidManually
\* answers its admin.
SettleFailedQuietly(w) == UNCHANGED told /\ Finish(w)                \* seeded
SettleFailed(w) ==
    /\ told' = IF task[w].op = "manual" THEN told
               ELSE told \cup {<<"attention", task[w].o>>}
    /\ Finish(w)

\* confirmPayment, first read.  An order already paid is left alone; the
\* success event is emitted all the same, and its listener completes the cart.
Confirm(w) ==
    /\ At(w, "confirm")
    /\ LET o == task[w].o
       IN  IF status[o] = "paid"
           THEN spent' = spent \cup {o} /\ Finish(w)
           ELSE /\ Begin(w, [task[w] EXCEPT !.seen = status[o],
                                !.pc = IF status[o] = "cancelled" THEN "history" ELSE "attach"])
                /\ UNCHANGED spent
    /\ UNCHANGED <<rowVars, pi, holdVars, stockVars, timers, ledger, moneyVars,
                   told, vouched, faults>>

\* A cancellation by hand stays; one by the timer is undone.
HistoryUnread(w) == At(w, "history") /\ Goto(w, "restore")           \* seeded
    /\ UNCHANGED <<rowVars, pi, holdVars, spent, stockVars, timers, ledger, moneyVars,
                   told, vouched, faults>>
History(w) ==
    /\ At(w, "history")
    /\ \/ last[task[w].o] = "timeout" /\ Goto(w, "restore") /\ UNCHANGED told
       \/ last[task[w].o] # "timeout" /\ SettleFailed(w)
    /\ UNCHANGED <<rowVars, pi, holdVars, spent, stockVars, timers, ledger, moneyVars,
                   vouched, faults>>

Restore(w) ==
    /\ At(w, "restore")
    /\ LET o == task[w].o
       IN  \/ /\ CanReserve(stock, Lines[o])
              /\ stock' = Reserve(stock, Lines[o])
              /\ status' = [status EXCEPT ![o] = "awaiting_payment"]
              /\ last' = [last EXCEPT ![o] = "other"]
              /\ Goto(w, "attach") /\ UNCHANGED told
           \/ /\ ~CanReserve(stock, Lines[o])
              /\ SettleFailed(w) /\ UNCHANGED <<rowVars, stock>>
    /\ UNCHANGED <<pi, holdVars, spent, uses, timers, ledger, moneyVars,
                   vouched, faults>>

\* The intent is written on the order and the first reservation job removed.
Attach(w) ==
    /\ At(w, "attach")
    /\ LET o == task[w].o
       IN  /\ pi' = [pi EXCEPT ![o] = task[w].ref]
           /\ timers' = [timers EXCEPT ![o] = @ \ {"base"}]
           /\ Begin(w, [task[w] EXCEPT !.pc = "check", !.seen = "none",
                           !.to = IF task[w].seen = "draft" THEN "awaiting_payment" ELSE "paid"])
    /\ UNCHANGED <<rowVars, holdVars, spent, stockVars, ledger, moneyVars,
                   told, vouched, faults>>

SpendNothing(w) == At(w, "spend") /\ Finish(w)                       \* seeded
    /\ UNCHANGED <<rowVars, pi, holdVars, spent, stockVars, timers, ledger, moneyVars,
                   told, vouched, faults>>
Spend(w) ==
    /\ At(w, "spend")
    /\ spent' = spent \cup {task[w].o}
    /\ Finish(w)
    /\ UNCHANGED <<rowVars, pi, holdVars, stockVars, timers, ledger, moneyVars,
                   told, vouched, faults>>

-----------------------------------------------------------------------------
(* OrdersService.transition: a read that checks the table, then a            *)
(* transaction that writes the status whatever it has become since.          *)

StartAdmin(w, o, to) ==
    /\ Free("admin", w, o) /\ status[o] # "none" /\ to # "paid"
    /\ Begin(w, [Handler("admin", o, "check") EXCEPT !.to = to])
    /\ UNCHANGED <<rowVars, pi, holdVars, spent, stockVars, timers, ledger, moneyVars,
                   told, vouched, faults>>

Check(w) ==
    /\ At(w, "check")
    /\ LET t == task[w]
           prev == status[t.o]
       IN  \/ /\ t.to \in AllowedTransitions[prev]
              /\ Begin(w, [t EXCEPT !.pc = "apply", !.seen = prev])
              /\ UNCHANGED <<told, timers>>
           \/ /\ t.to \notin AllowedTransitions[prev]
              /\ IF t.op \in Settling THEN SettleFailed(w) /\ UNCHANGED timers
                 ELSE /\ Finish(w) /\ UNCHANGED told
                      /\ timers' = IF t.op = "timer"        \* the job is retried
                                   THEN [timers EXCEPT ![t.o] = @ \cup {t.job}] ELSE timers
    /\ UNCHANGED <<rowVars, pi, holdVars, spent, stockVars, ledger, moneyVars,
                   vouched, faults>>

Apply(w) ==
    /\ At(w, "apply")
    /\ LET t == task[w]
           o == t.o
       IN  /\ status' = [status EXCEPT ![o] = t.to]
           /\ last' = [last EXCEPT ![o] = IF t.op = "timer" THEN "timeout" ELSE "other"]
           /\ stock' = Moved(stock, Lines[o], t.seen, t.to)
           /\ uses' = IF t.to = "paid" THEN [uses EXCEPT ![o] = @ + 1] ELSE uses
           /\ IF t.op \in Settling /\ t.to = "awaiting_payment"
              THEN Begin(w, [t EXCEPT !.pc = "check", !.to = "paid", !.seen = "none"])
              ELSE IF t.op \in Settling
              THEN Begin(w, [t EXCEPT !.pc = "spend", !.seen = "none"])
              ELSE IF t.op = "timer"
              THEN Begin(w, [t EXCEPT !.pc = "announce", !.seen = "none"])
              ELSE Finish(w)
    /\ UNCHANGED <<pi, holdVars, spent, timers, ledger, moneyVars, told, vouched, faults>>

-----------------------------------------------------------------------------
(* The reservation timer: CheckoutReservationProcessor.process. *)

\* A job wakes when its own deadline has passed.  It steps aside for an order
\* that is settled, or whose deadline has moved.
Due(o, t) == t \in timers[o] /\ (hold[o] = t => lapsed[o])
AsideIfHeld(o) == hold[o] # "none" /\ ~lapsed[o]                     \* seeded
StepsAside(o) == status[o] \notin Cancellable \/ (hold[o] # "none" /\ ~lapsed[o])
Fire(o, t) ==
    /\ Free("timer", "timer", o) /\ Due(o, t)
    /\ timers' = [timers EXCEPT ![o] = @ \ {t}]
    /\ IF StepsAside(o)
       THEN UNCHANGED task
       ELSE Begin("timer", [Handler("timer", o, IF pi[o] = NoIntent THEN "check" ELSE "ask")
                                EXCEPT !.to = "cancelled", !.job = t])
    /\ UNCHANGED <<rowVars, pi, holdVars, spent, stockVars, ledger, moneyVars,
                   told, vouched, faults>>

\* intentState.  An intent that cannot be read counts as in flight, like one
\* that is processing, requires action or capture ("processing" here); an
\* order paid by hand has none to read.
Ask ==
    /\ At("timer", "ask")
    /\ LET o == task["timer"].o
       IN  \/ /\ Payable(o)
              /\ Begin("timer", [task["timer"] EXCEPT !.op = "reconcile", !.pc = "reconcile"])
              /\ UNCHANGED faults
           \/ /\ pi[o] = Manual \/ (pi[o] \in Intents /\ stripe[o][pi[o]] = "processing")
              /\ Goto("timer", "grace") /\ UNCHANGED faults
           \/ /\ pi[o] \in Intents /\ stripe[o][pi[o]] \in {"minted", "open", "declined", "canceled"}
              /\ Goto("timer", "check") /\ UNCHANGED faults
           \/ /\ faults < MaxFaults /\ faults' = faults + 1     \* Stripe unreachable
              /\ Goto("timer", "grace")
    /\ UNCHANGED <<rowVars, pi, holdVars, spent, stockVars, timers, ledger, moneyVars,
                   told, vouched>>

\* The reconcileOrder intentState calls reads the order again.
AskReconcile ==
    /\ At("timer", "reconcile")
    /\ LET o == task["timer"].o
       IN  IF status[o] \in Reconcilable /\ Payable(o)
           THEN Begin("timer", Reconciliation("timer", o))
           ELSE Finish("timer")
    /\ UNCHANGED <<rowVars, pi, holdVars, spent, stockVars, timers, ledger, moneyVars,
                   told, vouched, faults>>

\* Ten more minutes, whatever the order has become; then the job is delayed.
Grace ==
    /\ At("timer", "grace")
    /\ hold' = [hold EXCEPT ![task["timer"].o] = task["timer"].job]
    /\ lapsed' = [lapsed EXCEPT ![task["timer"].o] = FALSE]
    /\ Goto("timer", "delay")
    /\ UNCHANGED <<rowVars, pi, spent, stockVars, timers, ledger, moneyVars,
                   told, vouched, faults>>

DelayDropped == At("timer", "delay") /\ Finish("timer")               \* seeded
    /\ UNCHANGED <<rowVars, pi, holdVars, spent, stockVars, timers, ledger, moneyVars,
                   told, vouched, faults>>
Delay ==
    /\ At("timer", "delay")
    /\ timers' = [timers EXCEPT ![task["timer"].o] = @ \cup {task["timer"].job}]
    /\ Finish("timer")
    /\ UNCHANGED <<rowVars, pi, holdVars, spent, stockVars, ledger, moneyVars,
                   told, vouched, faults>>

\* announceFailedPaymentIfAny: only now is the customer told.
Announce ==
    /\ At("timer", "announce")
    /\ LET o == task["timer"].o
       IN  told' = IF \E k \in Intents : Failed(o, k) \in ledger
                   THEN told \cup {<<"payment_failed", o>>} ELSE told
    /\ Finish("timer")
    /\ UNCHANGED <<rowVars, pi, holdVars, spent, stockVars, timers, ledger, moneyVars,
                   vouched, faults>>

-----------------------------------------------------------------------------

\* One step of the handler a slot runs.
Step(w) ==
    \/ Ready(w) \/ ReadyNote(w) \/ Mint(w) \/ AttachIntent(w) \/ Extend(w) \/ Enqueue(w)
    \/ Ledger(w) \/ Confirm(w) \/ History(w) \/ Restore(w) \/ Attach(w) \/ Spend(w)
    \/ Check(w) \/ Apply(w)
TimerStep == Ask \/ AskReconcile \/ Grace \/ Delay \/ Announce

Request(w, o) ==
    \/ Initiate(w, o) \/ Rebuild(w, o) \/ StartReady(w, o) \/ StartIntent(w, o)
    \/ ReuseIntent(w, o) \/ StartReconcile(w, o) \/ StartManual(w, o)
    \/ \E s \in Statuses : StartAdmin(w, o, s)

Environment ==
    \/ \E o \in Orders, k \in Intents :
          StripeProcess(o, k) \/ StripeSucceed(o, k) \/ StripeFail(o, k)
          \/ StripeCancel(o, k) \/ StripeRefund(o, k)
    \/ \E o \in Orders : Lapse(o) \/ CreateFromCart(o)
    \/ \E w \in Slots : Fault(w)
    \/ \E v \in Variants, d \in Deltas : Adjust(v, d)

Next ==
    \/ \E w \in Workers, o \in Orders : Request(w, o)
    \/ \E w \in Workers, e \in Event : Deliver(w, e)
    \/ \E o \in Orders : StartReconcile("sweep", o)
    \/ \E o \in Orders, t \in Timers : Fire(o, t)
    \/ \E w \in Slots : Step(w)
    \/ TimerStep
    \/ Environment

Spec == Init /\ [][Next]_vars

(***************************************************************************)
(* Fairness: a handler that runs takes its next step; time passes; the     *)
(* reservation worker takes due jobs and the five-minute sweep comes back  *)
(* to every unpaid order with an intent.  Stripe resolves an attempt it is *)
(* processing.  Nothing is assumed of customers, admins or webhooks.       *)
(***************************************************************************)
StripeResolves(o, k) ==
    stripe[o][k] = "processing" /\ (StripeSucceed(o, k) \/ StripeFail(o, k))

Fairness ==
    /\ \A w \in Slots : WF_vars(Step(w))
    /\ WF_vars(TimerStep)
    /\ \A o \in Orders : /\ WF_vars(Lapse(o))
                         /\ SF_vars(StartReconcile("sweep", o))
                         /\ \A t \in Timers : SF_vars(Fire(o, t))
                         /\ \A k \in Intents : WF_vars(StripeResolves(o, k))

FairSpec == Spec /\ Fairness

-----------------------------------------------------------------------------

TypeOK ==
    /\ status \in [Orders -> Statuses \cup {"none"}]
    /\ last \in [Orders -> {"timeout", "other"}]
    /\ pi \in [Orders -> 0 .. MaxIntents + 1]
    /\ hold \in [Orders -> Timers \cup {"none"}]
    /\ lapsed \in [Orders -> BOOLEAN]
    /\ spent \subseteq Orders
    /\ stock \in StockLevels
    /\ uses \in [Orders -> Nat]
    /\ timers \in [Orders -> SUBSET Timers]
    /\ ledger \subseteq Event
    /\ stripe \in [Orders -> [Intents -> {"absent", "minted", "open", "processing", "declined",
                                          "succeeded", "canceled", "repaid"}]]
    /\ events \subseteq Event
    /\ task \in [Slots -> Task \cup {Idle}]
    /\ told \subseteq {"attention", "payment_failed"} \X Orders
    /\ vouched \subseteq Orders
    /\ faults \in Nat

Sold == Refundable \cup {"refunded"}
Quiet(o) == \A w \in Slots : task[w] # Idle => task[w].o # o

(* No order is ever sold without money: whatever the handlers of an order   *)
(* do to each other, an order that is or was paid has a PaymentIntent that  *)
(* Stripe succeeded and the ledger row of that intent, or an admin vouched. *)
SoldOnLedgeredMoney ==
    \A o \in Orders : status[o] \in Sold =>
        o \in vouched \/ \E k \in Intents : HasMoney(o, k) /\ Succeeded(o, k) \in ledger

(***************************************************************************)
(* Why it holds, as an inductive invariant: what each running handler has  *)
(* established about its order, and the job it must give back.             *)
(***************************************************************************)
Backed(o) == o \in vouched \/ \E k \in Intents : HasMoney(o, k) /\ Succeeded(o, k) \in ledger

JobKept(w, t) ==
    /\ w = "timer" \/ t.op = "timer" \/ t.pc \in {"enqueue", "extend"} => t.job \in Timers
    /\ w = "timer" => t.op \in {"timer", "reconcile"}
    /\ t.pc = "ledger" => t.ev \in Event

Confirming == {"confirm", "history", "restore", "attach", "check", "apply", "spend"}
Earned(t) ==
    /\ status[t.o] # "none"
    /\ t.op \in Settling /\ t.pc \in Confirming => Backed(t.o)
    /\ t.op = "manual" => t.pc \in Confirming
    /\ t.op \in Settling /\ t.pc = "ledger" =>
          t.ev = Succeeded(t.o, t.ev.k) /\ HasMoney(t.o, t.ev.k)
    /\ t.pc \in {"confirm", "history", "restore", "attach"} => t.op \in Settling
    /\ t.pc \in {"ask", "check", "apply"} /\ t.to = "paid" => t.op \in Settling
    /\ t.pc = "ask" => t.op = "timer"
    /\ t.pc = "apply" =>
          /\ t.seen \in Statuses /\ t.to \in AllowedTransitions[t.seen]
          /\ t.seen \in Sold => Backed(t.o)

TaskInv == \A w \in Slots : task[w] # Idle => JobKept(w, task[w])
EarnedInv ==
    /\ SoldOnLedgeredMoney
    /\ \A w \in Slots : task[w] # Idle => Earned(task[w])
    /\ \A e \in events : e.type = "succeeded" => HasMoney(e.o, e.k)

(* Once nothing runs on a paid order its cart is spent: the customer does   *)
(* not come back to a full basket and order it twice.                       *)
PaidCartSpent ==
    \A o \in Orders : status[o] \in Refundable /\ Quiet(o) => o \in spent

(* Every deadline a quiet unpaid order carries has the reservation job that *)
(* will act on it: extending a hold never leaves it to no one.              *)
HoldCovered ==
    \A o \in Orders :
        status[o] \in Cancellable /\ hold[o] # "none" /\ Quiet(o) => hold[o] \in timers[o]

(* Money that a handler wrote to the ledger and could not turn into a sale  *)
(* is never silent: once the order is quiet somebody has been alerted.      *)
MoneyNoticed ==
    \A o \in Orders, k \in Intents :
        Succeeded(o, k) \in ledger /\ uses[o] = 0 /\ Quiet(o) => <<"attention", o>> \in told

(* What the reservation timer cancels is an order nobody has paid.          *)
TimerSparesSales ==
    [][\A o \in Orders : last[o] # "timeout" /\ last'[o] = "timeout"
                            => status[o] \in Cancellable]_vars

(* Money and coupon are counted when an order becomes paid, once: a second  *)
(* settlement of the same money is a no-op.                                 *)
SettledOnce == \A o \in Orders : uses[o] <= 1

(* A refund Stripe reported and the ledger recorded reaches the order.      *)
RefundReaches ==
    \A o \in Orders, k \in Intents :
        Refunded(o, k) \in ledger /\ Quiet(o) => status[o] \notin Refundable

(* A hold that has run out ends: the order is cancelled, paid or given a    *)
(* new deadline.                                                            *)
HoldEnds ==
    \A o \in Orders :
        (status[o] \in Cancellable /\ lapsed[o]) ~> ~(status[o] \in Cancellable /\ lapsed[o])

(* Money in Stripe for an open order does not stay unnoticed, even if no    *)
(* webhook ever arrives: the sweep settles it.                              *)
MoneySettles ==
    \A o \in Orders :
        (status[o] \in Cancellable /\ Payable(o)) ~> status[o] \notin Cancellable

(* The orders the timer cancelled are those a late payment restores.        *)
Lifecycle == INSTANCE OrderLifecycle
                WITH revivable <- {o \in Orders : status[o] = "cancelled" /\ last[o] = "timeout"}
ImplementsLifecycle == Lifecycle!Spec
=============================================================================
