----------------------- MODULE OrderSettlement_proofs -----------------------
(***************************************************************************)
(* Proofs about order settlement, for every set of orders, variants, stock *)
(* and requests, every bound, and handlers that overlap in any way.        *)
(*                                                                         *)
(* First the types of all variables, and the jobs the running handlers     *)
(* must give back.                                                         *)
(*                                                                         *)
(* Then: no order is ever sold without money (SoldOnLedgeredMoney).  A     *)
(* handler that settles an order has established, before it touches the    *)
(* order, that Stripe has the money and that the ledger row is written (or *)
(* an admin vouched): Earned.  Money, ledger rows and vows are never taken *)
(* back, so what one handler established no other handler undoes, although *)
(* they do overwrite each other's status and stock.                        *)
(*                                                                         *)
(* Last, what a settlement leaves behind as long as nothing crashed: a     *)
(* paid order's basket is spent (PaidCartSpent), and money in the ledger   *)
(* that became no sale is announced (MoneyNoticed).  What an order still   *)
(* needs is on its way in a handler: one about to spend the basket, or one *)
(* that will either sell the order or raise the alert.  A handler leaves   *)
(* its post only having done it, and no other can take away a spent        *)
(* basket, a sale counted or an alert raised.  The status an overlapping   *)
(* handler read may be stale, but what was true of the order when it was   *)
(* read stays true.                                                        *)
(***************************************************************************)
EXTENDS OrderSettlement, TLAPS

-----------------------------------------------------------------------------
(* Each bucket movement keeps natural numbers in the buckets. *)
LEMMA LessNat == \A n, m \in Nat : Less(n, m) \in Nat
BY DEF Less

LEMMA MovedType ==
    ASSUME NEW levels \in StockLevels, NEW q \in Claim, NEW prev, NEW next
    PROVE  Moved(levels, q, prev, next) \in StockLevels
<1>t. \A v \in Variants : /\ levels[v].available \in Nat
                            /\ levels[v].reserved \in Nat
                            /\ levels[v].committed \in Nat
                            /\ q[v] \in Nat
                            /\ levels[v].available + q[v] \in Nat
                            /\ levels[v].committed + q[v] \in Nat
  BY DEF StockLevels, Row, Claim
<1>1. Release(levels, q) \in StockLevels
  <2>1. ASSUME NEW v \in Variants PROVE Release(levels, q)[v] \in Row
    <3>1. Less(levels[v].reserved, q[v]) \in Nat
      BY <1>t, LessNat
    <3> QED
      BY <1>t, <3>1 DEF Release, Row
  <2> QED
    BY <2>1 DEF Release, StockLevels
<1>2. Commit(levels, q) \in StockLevels
  <2>1. ASSUME NEW v \in Variants PROVE Commit(levels, q)[v] \in Row
    <3>1. Less(levels[v].reserved, q[v]) \in Nat
      BY <1>t, LessNat
    <3> QED
      BY <1>t, <3>1 DEF Commit, Row
  <2> QED
    BY <2>1 DEF Commit, StockLevels
<1>3. ReleaseCommitted(levels, q) \in StockLevels
  <2>1. ASSUME NEW v \in Variants PROVE ReleaseCommitted(levels, q)[v] \in Row
    <3>1. Less(levels[v].committed, q[v]) \in Nat
      BY <1>t, LessNat
    <3> QED
      BY <1>t, <3>1 DEF ReleaseCommitted, Row
  <2> QED
    BY <2>1 DEF ReleaseCommitted, StockLevels
<1>4. ConfirmSale(levels, q) \in StockLevels
  <2>1. ASSUME NEW v \in Variants PROVE ConfirmSale(levels, q)[v] \in Row
    <3>1. Less(levels[v].committed, q[v]) \in Nat
      BY <1>t, LessNat
    <3> QED
      BY <1>t, <3>1 DEF ConfirmSale, Row
  <2> QED
    BY <2>1 DEF ConfirmSale, StockLevels
<1> QED
  BY <1>1, <1>2, <1>3, <1>4 DEF Moved

LEMMA ReserveType ==
    ASSUME NEW levels \in StockLevels, NEW q \in Claim, CanReserve(levels, q)
    PROVE  Reserve(levels, q) \in StockLevels
BY DEF Reserve, CanReserve, StockLevels, Row, Claim

LEMMA AdjustedType ==
    ASSUME NEW levels \in StockLevels, NEW v \in Variants, NEW d \in Int,
           CanAdjust(levels, v, d)
    PROVE  Adjusted(levels, v, d) \in StockLevels
BY DEF Adjusted, CanAdjust, StockLevels, Row

-----------------------------------------------------------------------------
(* Handlers. *)

LEMMA TaskNotIdle == \A t \in Task : t # Idle
BY DEF Task, Idle, Ops

(* The record a handler starts with is a task, and so is any update of it. *)
LEMMA HandlerType ==
    ASSUME NEW op \in Ops, NEW o \in Orders, NEW pc \in Steps
    PROVE  Handler(op, o, pc) \in Task
BY BoundsAssumption DEF Handler, Task, NoIntent, Statuses

(* A running handler's fields. *)
LEMMA Running ==
    ASSUME TypeOK, NEW w \in Slots, task[w] # Idle
    PROVE  /\ task[w] \in Task
           /\ task[w].o \in Orders
           /\ task[w].op \in Ops
           /\ task[w].job \in Timers \cup {"none"}
           /\ task[w].ref \in 0 .. MaxIntents + 1
BY DEF TypeOK, Task

(* Replacing the handler of one slot keeps the others. *)
LEMMA TaskFrame ==
    ASSUME TypeOK, TaskInv, NEW w \in Slots, NEW t \in Task \cup {Idle},
           task' = [task EXCEPT ![w] = t], t # Idle => JobKept(w, t)
    PROVE  task' \in [Slots -> Task \cup {Idle}] /\ TaskInv'
<1>1. task \in [Slots -> Task \cup {Idle}]
  BY DEF TypeOK
<1>2. task' \in [Slots -> Task \cup {Idle}]
  BY <1>1
<1>3. \A x \in Slots : task'[x] # Idle => JobKept(x, task'[x])
  BY <1>1 DEF TaskInv
<1> QED
  BY <1>2, <1>3 DEF TaskInv

LEMMA FinishFrame ==
    ASSUME TypeOK, TaskInv, NEW w \in Slots, Finish(w)
    PROVE  task' \in [Slots -> Task \cup {Idle}] /\ TaskInv'
BY TaskFrame DEF Finish

LEMMA BeginFrame ==
    ASSUME TypeOK, TaskInv, NEW w \in Slots, NEW t \in Task, Begin(w, t), JobKept(w, t)
    PROVE  task' \in [Slots -> Task \cup {Idle}] /\ TaskInv'
BY TaskFrame DEF Begin

(* A handler that moves to another step keeps its job; only the steps that *)
(* need one are restricted.                                                *)
LEMMA GotoFrame ==
    ASSUME TypeOK, TaskInv, NEW w \in Slots, task[w] # Idle,
           NEW pc \in Steps, Goto(w, pc),
           pc # "ledger",
           pc \in {"enqueue", "extend"} => task[w].job \in Timers
    PROVE  task' \in [Slots -> Task \cup {Idle}] /\ TaskInv'
<1> DEFINE t == [task[w] EXCEPT !.pc = pc]
<1>1. task[w] \in Task
  BY Running
<1>2. t \in Task
  BY <1>1 DEF Task
<1>3. JobKept(w, task[w])
  BY DEF TaskInv
<1>4. t.op = task[w].op /\ t.job = task[w].job /\ t.pc = pc
  BY <1>1 DEF Task
<1>5. JobKept(w, t)
  BY <1>3, <1>4 DEF JobKept
<1>6. task' = [task EXCEPT ![w] = t]
  BY DEF Goto
<1> HIDE DEF t
<1> QED
  BY <1>2, <1>5, <1>6, TaskFrame

-----------------------------------------------------------------------------
(* Type correctness. *)

Types == TypeOK /\ TaskInv

LEMMA InitTypes == Init => Types
<1> SUFFICES ASSUME Init PROVE TypeOK /\ TaskInv
  BY DEF Types
<1>1. TypeOK
  BY StockAssumption, BoundsAssumption DEF Init, TypeOK, StockLevels, Row, NoIntent
<1>2. TaskInv
  BY DEF Init, TaskInv
<1> QED
  BY <1>1, <1>2

(* An action that starts, moves or ends no handler keeps every job.        *)
LEMMA StillFrame == TaskInv /\ task' = task => TaskInv'
BY DEF TaskInv, JobKept

LEMMA EnvironmentTypes == Types /\ Environment => Types'
<1> SUFFICES ASSUME TypeOK, TaskInv, Environment PROVE TypeOK' /\ TaskInv'
  BY DEF Types
<1>c. \A o \in Orders : Lines[o] \in Claim
  BY LinesAssumption
<1>1. ASSUME NEW o \in Orders, NEW k \in Intents, StripeProcess(o, k) PROVE TypeOK' /\ TaskInv'
  BY <1>1, StillFrame DEF TypeOK, StripeProcess, rowVars, holdVars, stockVars
<1>2. ASSUME NEW o \in Orders, NEW k \in Intents, StripeSucceed(o, k) PROVE TypeOK' /\ TaskInv'
  BY <1>2, StillFrame DEF TypeOK, StripeSucceed, rowVars, holdVars, stockVars, Event, Succeeded
<1>3. ASSUME NEW o \in Orders, NEW k \in Intents, StripeFail(o, k) PROVE TypeOK' /\ TaskInv'
  BY <1>3, StillFrame DEF TypeOK, StripeFail, rowVars, holdVars, stockVars, Event, Failed
<1>4. ASSUME NEW o \in Orders, NEW k \in Intents, StripeCancel(o, k) PROVE TypeOK' /\ TaskInv'
  BY <1>4, StillFrame DEF TypeOK, StripeCancel, rowVars, holdVars, stockVars
<1>5. ASSUME NEW o \in Orders, NEW k \in Intents, StripeRefund(o, k) PROVE TypeOK' /\ TaskInv'
  BY <1>5, StillFrame DEF TypeOK, StripeRefund, rowVars, holdVars, stockVars, Event, Refunded
<1>6. ASSUME NEW o \in Orders, Lapse(o) PROVE TypeOK' /\ TaskInv'
  BY <1>6, StillFrame DEF TypeOK, Lapse, rowVars, holdVars, stockVars, moneyVars
<1>7. ASSUME NEW o \in Orders, CreateFromCart(o) PROVE TypeOK' /\ TaskInv'
  <2>1. Reserve(stock, Lines[o]) \in StockLevels
    BY <1>7, <1>c, ReserveType DEF CreateFromCart, TypeOK
  <2> QED
    BY <1>7, <2>1, StillFrame DEF TypeOK, CreateFromCart, Statuses, rowVars, holdVars, stockVars, moneyVars
<1>8. ASSUME NEW v \in Variants, NEW d \in Deltas, Adjust(v, d) PROVE TypeOK' /\ TaskInv'
  <2>1. Adjusted(stock, v, d) \in StockLevels
    BY <1>8, DeltasAssumption, AdjustedType DEF Adjust, TypeOK
  <2> QED
    BY <1>8, <2>1, StillFrame DEF TypeOK, Adjust, rowVars, holdVars, stockVars, moneyVars
<1>9. ASSUME NEW w \in Slots, Fault(w) PROVE TypeOK' /\ TaskInv'
  <2>1. task' \in [Slots -> Task \cup {Idle}] /\ TaskInv'
    BY <1>9, FinishFrame DEF Fault
  <2>2. w = "timer" => task[w].job \in Timers
    BY <1>9 DEF Fault, TaskInv, JobKept
  <2> QED
    BY <1>9, <2>1, <2>2, Running DEF TypeOK, Fault, rowVars, holdVars, stockVars, moneyVars
<1> QED
  BY <1>1, <1>2, <1>3, <1>4, <1>5, <1>6, <1>7, <1>8, <1>9 DEF Environment

(* What reconcileOrder goes on to do, in a request, the sweep or the timer.  *)
LEMMA ReconciliationType ==
    ASSUME TypeOK, NEW w \in Slots, NEW o \in Orders, Payable(o),
           w = "timer" => task[w].job \in Timers
    PROVE  Reconciliation(w, o) \in Task /\ JobKept(w, Reconciliation(w, o))
<1>1. /\ pi[o] \in 0 .. MaxIntents + 1
      /\ pi[o] \in Intents
      /\ status[o] \in Statuses \cup {"none"}
  BY DEF Payable, TypeOK
<1>2. Succeeded(o, pi[o]) \in Event
  BY <1>1 DEF Event, Succeeded
<1> HIDE DEF Succeeded
<1>3. Reconciliation(w, o) \in Task
  BY <1>1, <1>2, BoundsAssumption
     DEF Reconciliation, Handler, Task, NoIntent, Statuses, Timers, Ops, Steps
<1>4. JobKept(w, Reconciliation(w, o))
  BY <1>2 DEF JobKept, Reconciliation, Handler
<1> QED
  BY <1>3, <1>4

LEMMA StartReconcileTypes ==
    ASSUME NEW w \in Slots \ {"timer"}, NEW o \in Orders,
           TypeOK, TaskInv, StartReconcile(w, o)
    PROVE  TypeOK' /\ TaskInv'
<1> DEFINE t == Reconciliation(w, o)
<1>1. t \in Task /\ JobKept(w, t) /\ Begin(w, t)
  BY ReconciliationType DEF StartReconcile
<1> HIDE DEF t
<1>2. task' \in [Slots -> Task \cup {Idle}] /\ TaskInv'
  BY <1>1, BeginFrame
<1> QED
  BY <1>2 DEF TypeOK, StartReconcile, rowVars, holdVars, stockVars, moneyVars

LEMMA SweepTypes ==
    ASSUME NEW o \in Orders
    PROVE  Types /\ StartReconcile("sweep", o) => Types'
<1>1. "sweep" \in Slots \ {"timer"}
  BY DEF Slots
<1> QED
  BY <1>1, StartReconcileTypes DEF Types

LEMMA RequestTypes ==
    ASSUME NEW w \in Workers, NEW o \in Orders
    PROVE  Types /\ Request(w, o) => Types'
<1> SUFFICES ASSUME TypeOK, TaskInv, Request(w, o) PROVE TypeOK' /\ TaskInv'
  BY DEF Types
<1>w. w \in Slots /\ w # "timer"
  BY SlotsAssumption DEF Slots
<1>c. Lines[o] \in Claim
  BY LinesAssumption
<1>1. ASSUME Initiate(w, o) PROVE TypeOK' /\ TaskInv'
  <2>0. Reserve(stock, Lines[o]) \in StockLevels
    BY <1>1, <1>c, ReserveType DEF Initiate, TypeOK
  <2> DEFINE t == [Handler("initiate", o, "enqueue") EXCEPT !.job = "base"]
  <2>1. t \in Task
    BY BoundsAssumption DEF Handler, Task, NoIntent, Statuses, Timers, Ops, Steps
  <2>2. JobKept(w, t)
    BY <1>1, SlotsAssumption, <1>w DEF JobKept, Handler, Timers
  <2>3. Begin(w, t)
    BY <1>1 DEF Initiate
  <2> HIDE DEF t
  <2>4. task' \in [Slots -> Task \cup {Idle}] /\ TaskInv'
    BY <1>1, <2>1, <2>2, <2>3, BeginFrame DEF Slots
  <2> QED
    BY <1>1, <2>4, <2>0 DEF TypeOK, Initiate, Statuses, Timers, rowVars, holdVars, stockVars, moneyVars
<1>2. ASSUME Rebuild(w, o) PROVE TypeOK' /\ TaskInv'
  <2> DEFINE t == [Handler("rebuild", o, "check") EXCEPT !.to = "cancelled"]
  <2>1. t \in Task
    BY BoundsAssumption DEF Handler, Task, NoIntent, Statuses, Timers, Ops, Steps
  <2>2. JobKept(w, t)
    BY <1>2, SlotsAssumption, <1>w DEF JobKept, Handler
  <2>3. Begin(w, t)
    BY <1>2 DEF Rebuild
  <2> HIDE DEF t
  <2>4. task' \in [Slots -> Task \cup {Idle}] /\ TaskInv'
    BY <1>2, <2>1, <2>2, <2>3, BeginFrame DEF Slots
  <2> QED
    BY <1>2, <2>4 DEF TypeOK, Rebuild, Statuses, Timers, rowVars, holdVars, stockVars, moneyVars
<1>3. ASSUME StartReady(w, o) PROVE TypeOK' /\ TaskInv'
  <2> DEFINE t == Handler("ready", o, "ready")
  <2>1. t \in Task
    BY BoundsAssumption DEF Handler, Task, NoIntent, Statuses, Timers, Ops, Steps
  <2>2. JobKept(w, t)
    BY <1>3, SlotsAssumption, <1>w DEF JobKept, Handler
  <2>3. Begin(w, t)
    BY <1>3 DEF StartReady
  <2> HIDE DEF t
  <2>4. task' \in [Slots -> Task \cup {Idle}] /\ TaskInv'
    BY <1>3, <2>1, <2>2, <2>3, BeginFrame DEF Slots
  <2> QED
    BY <1>3, <2>4 DEF TypeOK, StartReady, Statuses, Timers, rowVars, holdVars, stockVars, moneyVars
<1>4. ASSUME StartIntent(w, o) PROVE TypeOK' /\ TaskInv'
  <2>0. pi[o] + 1 \in 0 .. MaxIntents + 1
    BY <1>4, BoundsAssumption DEF StartIntent, TypeOK
  <2> DEFINE t == [Handler("intent", o, "mint") EXCEPT !.ref = pi[o] + 1]
  <2>1. t \in Task
    BY BoundsAssumption, <2>0 DEF Handler, Task, NoIntent, Statuses, Timers, Ops, Steps
  <2>2. JobKept(w, t)
    BY <1>4, SlotsAssumption, <1>w DEF JobKept, Handler
  <2>3. Begin(w, t)
    BY <1>4 DEF StartIntent
  <2> HIDE DEF t
  <2>4. task' \in [Slots -> Task \cup {Idle}] /\ TaskInv'
    BY <1>4, <2>1, <2>2, <2>3, BeginFrame DEF Slots
  <2> QED
    BY <1>4, <2>4 DEF TypeOK, StartIntent, Statuses, Timers, rowVars, holdVars, stockVars, moneyVars
<1>5. ASSUME ReuseIntent(w, o) PROVE TypeOK' /\ TaskInv'
  BY <1>5, StillFrame DEF TypeOK, ReuseIntent, Shown, rowVars, holdVars, stockVars
<1>6. ASSUME StartReconcile(w, o) PROVE TypeOK' /\ TaskInv'
  BY <1>6, <1>w, StartReconcileTypes
<1>7. ASSUME StartManual(w, o) PROVE TypeOK' /\ TaskInv'
  <2>0. pi[o] \in 0 .. MaxIntents + 1
    BY <1>7 DEF TypeOK
  <2> DEFINE t == [Handler("manual", o, "confirm")
                   EXCEPT !.ref = IF pi[o] = NoIntent THEN Manual ELSE pi[o]]
  <2>1. t \in Task
    BY BoundsAssumption, <2>0 DEF Handler, Task, NoIntent, Statuses, Timers, Ops, Steps, Manual
  <2>2. JobKept(w, t)
    BY <1>7, SlotsAssumption, <1>w DEF JobKept, Handler, Manual
  <2>3. Begin(w, t)
    BY <1>7 DEF StartManual
  <2> HIDE DEF t
  <2>4. task' \in [Slots -> Task \cup {Idle}] /\ TaskInv'
    BY <1>7, <2>1, <2>2, <2>3, BeginFrame DEF Slots
  <2> QED
    BY <1>7, <2>4 DEF TypeOK, StartManual, Statuses, Timers, rowVars, holdVars, stockVars, moneyVars
<1>8. ASSUME NEW s \in Statuses, StartAdmin(w, o, s) PROVE TypeOK' /\ TaskInv'
  <2> DEFINE t == [Handler("admin", o, "check") EXCEPT !.to = s]
  <2>1. t \in Task
    BY BoundsAssumption DEF Handler, Task, NoIntent, Statuses, Timers, Ops, Steps
  <2>2. JobKept(w, t)
    BY <1>8, SlotsAssumption, <1>w DEF JobKept, Handler
  <2>3. Begin(w, t)
    BY <1>8 DEF StartAdmin
  <2> HIDE DEF t
  <2>4. task' \in [Slots -> Task \cup {Idle}] /\ TaskInv'
    BY <1>8, <2>1, <2>2, <2>3, BeginFrame DEF Slots
  <2> QED
    BY <1>8, <2>4 DEF TypeOK, StartAdmin, Statuses, Timers, rowVars, holdVars, stockVars, moneyVars
<1> QED
  BY <1>1, <1>2, <1>3, <1>4, <1>5, <1>6, <1>7, <1>8 DEF Request

LEMMA DeliverTypes ==
    ASSUME NEW w \in Workers, NEW e \in Event
    PROVE  Types /\ Deliver(w, e) => Types'
<1> SUFFICES ASSUME TypeOK, TaskInv, Deliver(w, e) PROVE TypeOK' /\ TaskInv'
  BY DEF Types
<1>w. w \in Slots /\ w # "timer"
  BY SlotsAssumption DEF Slots
<1>e. /\ e.type \in {"succeeded", "failed", "refunded"}
      /\ e.o \in Orders
      /\ e.k \in 0 .. MaxIntents + 1
      /\ status[e.o] \in Statuses \cup {"none"}
  BY BoundsAssumption DEF Event, Intents, TypeOK
<1> DEFINE t == [Handler(e.type, e.o, "ledger")
                   EXCEPT !.seen = status[e.o], !.ref = e.k, !.ev = e]
<1>1. t \in Task
  BY <1>e, BoundsAssumption DEF Handler, Task, NoIntent, Statuses, Ops, Steps
<1>2. JobKept(w, t)
  BY <1>w, <1>e DEF JobKept, Handler
<1>3. task' = task \/ Begin(w, t)
  BY DEF Deliver
<1> HIDE DEF t
<1>4. task' \in [Slots -> Task \cup {Idle}] /\ TaskInv'
  BY <1>w, <1>1, <1>2, <1>3, BeginFrame, StillFrame DEF TypeOK
<1>5. events' \subseteq Event
  BY DEF TypeOK, Deliver
<1> QED
  BY <1>4, <1>5 DEF TypeOK, Deliver, rowVars, holdVars, stockVars

LEMMA FireTypes ==
    ASSUME NEW o \in Orders, NEW j \in Timers
    PROVE  Types /\ Fire(o, j) => Types'
<1> SUFFICES ASSUME TypeOK, TaskInv, Fire(o, j) PROVE TypeOK' /\ TaskInv'
  BY DEF Types
<1> DEFINE pc == IF pi[o] = NoIntent THEN "check" ELSE "ask"
           t == [Handler("timer", o, pc) EXCEPT !.to = "cancelled", !.job = j]
<1>0. pc \in Steps /\ pc # "ledger"
  BY DEF Steps
<1>3. task' = task \/ Begin("timer", t)
  BY DEF Fire
<1> HIDE DEF pc
<1>1. t \in Task
  <2>1. Handler("timer", o, pc) \in Task
    BY <1>0, HandlerType DEF Ops
  <2> QED
    BY <2>1 DEF Task, Statuses
<1>2. JobKept("timer", t)
  BY <1>0 DEF JobKept, Handler
<1> HIDE DEF t
<1>4. task' \in [Slots -> Task \cup {Idle}] /\ TaskInv'
  BY <1>1, <1>2, <1>3, BeginFrame, StillFrame DEF TypeOK, Slots
<1> QED
  BY <1>4 DEF TypeOK, Fire, rowVars, holdVars, stockVars, moneyVars

(* The steps of a running handler.  Every step starts from a typed handler, *)
(* ends or replaces it, and writes a few other variables.                   *)
LEMMA StepTypes ==
    ASSUME NEW w \in Slots
    PROVE  Types /\ Step(w) => Types'
<1> SUFFICES ASSUME TypeOK, TaskInv, Step(w), task[w] # Idle PROVE TypeOK' /\ TaskInv'
  BY DEF Types, Step, Ready, ReadyNote, Mint, AttachIntent, Extend, Enqueue, Ledger,
         Confirm, History, Restore, Attach, Spend, Check, Apply, At
<1>r. /\ task[w] \in Task
      /\ task[w].o \in Orders
      /\ task[w].op \in Ops
      /\ task[w].job \in Timers \cup {"none"}
      /\ task[w].ref \in 0 .. MaxIntents + 1
  BY Running
<1>j. JobKept(w, task[w])
  BY DEF TaskInv
<1>c. Lines[task[w].o] \in Claim
  BY <1>r, LinesAssumption
<1> DEFINE Handled == task' \in [Slots -> Task \cup {Idle}] /\ TaskInv'
<1>f. Finish(w) => Handled
  BY FinishFrame
<1>g. ASSUME NEW pc \in Steps \ {"ledger", "enqueue", "extend"}, Goto(w, pc)
      PROVE  Handled
  BY <1>g, GotoFrame
<1>h. ASSUME NEW t \in Task, JobKept(w, t), Begin(w, t) PROVE Handled
  BY <1>h, BeginFrame
<1>s. SettleFailed(w) => Handled /\ told' \subseteq {"attention", "payment_failed"} \X Orders
  BY <1>f, <1>r DEF SettleFailed, TypeOK
<1> HIDE DEF Handled
<1>1. CASE Ready(w)
  <2>1. Handled
    BY <1>1, <1>g DEF Ready, Steps
  <2> QED
    BY <1>1, <2>1, <1>r DEF Handled, TypeOK, Ready, Statuses, holdVars, stockVars, moneyVars
<1>2. CASE ReadyNote(w)
  <2>1. Handled
    BY <1>2, <1>f DEF ReadyNote
  <2> QED
    BY <1>2, <2>1, <1>r DEF Handled, TypeOK, ReadyNote, holdVars, stockVars, moneyVars
<1>3. CASE Mint(w)
  <2>1. Handled
    BY <1>3, <1>g DEF Mint, Steps
  <2> QED
    BY ZenonT(40), <1>3, <2>1, <1>r DEF Handled, TypeOK, Mint, rowVars, holdVars, stockVars
<1>4. CASE AttachIntent(w)
  <2> DEFINE t == [task[w] EXCEPT !.pc = "extend", !.job = "intent"]
  <2>1. t \in Task
    BY <1>r DEF Task, Steps, Timers
  <2>2. JobKept(w, t)
    BY <1>j, <1>r DEF JobKept, Task, Timers
  <2>3. Begin(w, t)
    BY <1>4 DEF AttachIntent
  <2> HIDE DEF t
  <2>4. Handled
    BY <1>h, <2>1, <2>2, <2>3
  <2> QED
    BY <1>4, <2>4, <1>r DEF Handled, TypeOK, AttachIntent, rowVars, holdVars, stockVars, moneyVars
<1>5. CASE Extend(w)
  <2>1. task[w].job \in Timers
    BY <1>5, <1>j DEF Extend, At, JobKept
  <2>2. Goto(w, "enqueue")
    BY <1>5 DEF Extend
  <2>3. Handled
    BY <2>1, <2>2, GotoFrame DEF Steps, Handled
  <2> QED
    BY <1>5, <2>1, <2>3, <1>r DEF Handled, TypeOK, Extend, rowVars, holdVars, stockVars, moneyVars
<1>6. CASE Enqueue(w)
  <2>1. task[w].job \in Timers
    BY <1>6, <1>j DEF Enqueue, At, JobKept
  <2>2. Handled
    BY <1>6, <1>f DEF Enqueue
  <2> QED
    BY ZenonT(40), <1>6, <2>1, <2>2, <1>r DEF Handled, TypeOK, Enqueue, Shown, rowVars, holdVars, stockVars
<1>7. CASE Ledger(w)
  <2>1. task[w].ev \in Event /\ task[w].pc = "ledger"
    BY <1>7, <1>j DEF Ledger, At, JobKept
  <2> DEFINE confirming == [task[w] EXCEPT !.pc = "confirm", !.seen = "none", !.ev = Idle]
             extending  == [Handler("failed", task[w].o, "extend") EXCEPT !.job = "retry"]
             refunding  == [Handler("refunded", task[w].o, "check") EXCEPT !.to = "refunded"]
  <2>2. \/ task[w].op \in Settling /\ Begin(w, confirming)
        \/ task[w].op = "failed" /\ Begin(w, extending)
        \/ task[w].op = "refunded" /\ Begin(w, refunding)
        \/ Finish(w)
    BY <1>7 DEF Ledger
  <2>3. confirming \in Task
    BY <1>r DEF Task, Steps
  <2>o. extending \in Task /\ refunding \in Task
    BY <1>r, BoundsAssumption DEF Handler, Task, NoIntent, Statuses, Timers, Ops, Steps
  <2>4. task[w].op \in Settling => JobKept(w, confirming)
    BY <1>j, <1>r DEF JobKept, Settling, Task
  <2>5. task[w].op \in {"failed", "refunded"} => JobKept(w, extending) /\ JobKept(w, refunding)
    BY <1>j DEF JobKept, Handler, Timers
  <2> HIDE DEF confirming, extending, refunding
  <2>6. Handled
    BY <2>2, <2>3, <2>o, <2>4, <2>5, <1>f, <1>h DEF Settling
  <2> QED
    BY <1>7, <2>1, <2>6 DEF Handled, TypeOK, Ledger, rowVars, holdVars, stockVars, moneyVars
<1>8. CASE Confirm(w)
  <2> DEFINE pc == IF status[task[w].o] = "cancelled" THEN "history" ELSE "attach"
             t == [task[w] EXCEPT !.seen = status[task[w].o], !.pc = pc]
  <2>1. Begin(w, t) \/ Finish(w)
    BY <1>8 DEF Confirm
  <2>2. pc \in {"history", "attach"} /\ status[task[w].o] \in Statuses \cup {"none"}
    BY <1>r DEF TypeOK
  <2> HIDE DEF pc
  <2>3. t \in Task
    BY <1>r, <2>2 DEF Task, Steps
  <2>4. JobKept(w, t)
    BY <1>j, <1>r, <2>2 DEF JobKept, Task
  <2> HIDE DEF t
  <2>5. Handled
    BY <2>1, <2>3, <2>4, <1>f, <1>h
  <2> QED
    BY <1>8, <2>5, <1>r DEF Handled, TypeOK, Confirm, rowVars, holdVars, stockVars, moneyVars
<1>9. CASE History(w)
  <2>1. Handled /\ told' \subseteq {"attention", "payment_failed"} \X Orders
    BY <1>9, <1>g, <1>s DEF History, Steps, TypeOK
  <2> QED
    BY <1>9, <2>1 DEF Handled, TypeOK, History, rowVars, holdVars, stockVars, moneyVars
<1>10. CASE Restore(w)
  <2>1. Handled /\ told' \subseteq {"attention", "payment_failed"} \X Orders
    BY <1>10, <1>g, <1>s DEF Restore, Steps, TypeOK
  <2>2. stock' \in StockLevels
    BY <1>10, <1>c, ReserveType DEF Restore, TypeOK
  <2> QED
    BY <1>10, <2>1, <2>2, <1>r DEF Handled, TypeOK, Restore, Statuses, rowVars, holdVars, moneyVars
<1>11. CASE Attach(w)
  <2> DEFINE to == IF task[w].seen = "draft" THEN "awaiting_payment" ELSE "paid"
             t == [task[w] EXCEPT !.pc = "check", !.seen = "none", !.to = to]
  <2>1. Begin(w, t)
    BY <1>11 DEF Attach
  <2>2. to \in Statuses
    BY DEF Statuses
  <2> HIDE DEF to
  <2>3. t \in Task
    BY <1>r, <2>2 DEF Task, Steps
  <2>4. JobKept(w, t)
    BY <1>j, <1>r DEF JobKept, Task
  <2> HIDE DEF t
  <2>5. Handled
    BY <2>1, <2>3, <2>4, <1>h
  <2> QED
    BY <1>11, <2>5, <1>r DEF Handled, TypeOK, Attach, rowVars, holdVars, stockVars, moneyVars
<1>12. CASE Spend(w)
  <2>1. Handled
    BY <1>12, <1>f DEF Spend
  <2> QED
    BY <1>12, <2>1, <1>r DEF Handled, TypeOK, Spend, rowVars, holdVars, stockVars, moneyVars
<1>13. CASE Check(w)
  <2> DEFINE t == [task[w] EXCEPT !.pc = "apply", !.seen = status[task[w].o]]
  <2>1. Begin(w, t) \/ SettleFailed(w) \/ Finish(w)
    BY <1>13 DEF Check
  <2>2. status[task[w].o] \in Statuses \cup {"none"}
    BY <1>r DEF TypeOK
  <2>3. t \in Task
    BY <1>r, <2>2 DEF Task, Steps
  <2>4. JobKept(w, t)
    BY <1>j, <1>r DEF JobKept, Task
  <2> HIDE DEF t
  <2>5. Handled
    BY <2>1, <2>3, <2>4, <1>f, <1>h, <1>s
  <2>6. told' \subseteq {"attention", "payment_failed"} \X Orders
    BY <1>13, <1>s DEF Check, TypeOK
  <2>7. timers' \in [Orders -> SUBSET Timers]
    <3>1. task[w].op = "timer" => task[w].job \in Timers
      BY <1>j DEF JobKept
    <3> QED
      BY <1>13, <3>1, <1>r DEF Check, TypeOK
  <2> QED
    BY <1>13, <2>5, <2>6, <2>7 DEF Handled, TypeOK, Check, rowVars, holdVars, stockVars, moneyVars
<1>14. CASE Apply(w)
  <2> DEFINE paying    == [task[w] EXCEPT !.pc = "check", !.to = "paid", !.seen = "none"]
             spending  == [task[w] EXCEPT !.pc = "spend", !.seen = "none"]
             announced == [task[w] EXCEPT !.pc = "announce", !.seen = "none"]
  <2>1. Begin(w, paying) \/ Begin(w, spending) \/ Begin(w, announced) \/ Finish(w)
    BY <1>14 DEF Apply
  <2>2. paying \in Task
    BY ZenonT(40), <1>r DEF Task, Steps, Statuses
  <2>s. spending \in Task
    BY <1>r DEF Task, Steps
  <2>a. announced \in Task
    BY <1>r DEF Task, Steps
  <2>3. JobKept(w, paying) /\ JobKept(w, spending) /\ JobKept(w, announced)
    BY <1>j, <1>r DEF JobKept, Task
  <2> HIDE DEF paying, spending, announced
  <2>4. Handled
    BY <2>1, <2>2, <2>s, <2>a, <2>3, <1>f, <1>h
  <2>5. stock' \in StockLevels
    BY <1>14, <1>c, MovedType DEF Apply, TypeOK
  <2>6. task[w].to \in Statuses
    BY <1>r DEF Task
  <2>7. uses' \in [Orders -> Nat]
    BY <1>14, <1>r DEF Apply, TypeOK
  <2> QED
    BY <1>14, <2>4, <2>5, <2>6, <2>7, <1>r DEF Handled, TypeOK, Apply, holdVars, moneyVars
<1> QED
  BY <1>1, <1>2, <1>3, <1>4, <1>5, <1>6, <1>7, <1>8, <1>9, <1>10, <1>11, <1>12, <1>13, <1>14
     DEF Step

LEMMA TimerTypes == Types /\ TimerStep => Types'
<1> SUFFICES ASSUME TypeOK, TaskInv, TimerStep, task["timer"] # Idle PROVE TypeOK' /\ TaskInv'
  BY DEF Types, TimerStep, Ask, AskReconcile, Grace, Delay, Announce, At
<1>w. "timer" \in Slots
  BY DEF Slots
<1>r. /\ task["timer"] \in Task
      /\ task["timer"].o \in Orders
  BY <1>w, Running
<1>j. JobKept("timer", task["timer"]) /\ task["timer"].job \in Timers
  BY <1>w DEF TaskInv, JobKept
<1>f. Finish("timer") => task' \in [Slots -> Task \cup {Idle}] /\ TaskInv'
  BY <1>w, FinishFrame
<1>g. ASSUME NEW pc \in Steps \ {"ledger", "enqueue", "extend"}, Goto("timer", pc)
      PROVE  task' \in [Slots -> Task \cup {Idle}] /\ TaskInv'
  BY <1>w, <1>g, GotoFrame
<1>1. CASE Ask
  <2> DEFINE t == [task["timer"] EXCEPT !.op = "reconcile", !.pc = "reconcile"]
  <2>1. t \in Task
    BY <1>r DEF Task, Steps, Ops
  <2>2. JobKept("timer", t)
    BY <1>j, <1>r DEF JobKept, Task
  <2>3. Begin("timer", t) \/ Goto("timer", "grace") \/ Goto("timer", "check")
    BY <1>1 DEF Ask
  <2> HIDE DEF t
  <2>4. task' \in [Slots -> Task \cup {Idle}] /\ TaskInv'
    BY <1>w, <1>g, <2>1, <2>2, <2>3, BeginFrame DEF Steps
  <2> QED
    BY <1>1, <2>4 DEF TypeOK, Ask, rowVars, holdVars, stockVars, moneyVars
<1>2. CASE AskReconcile
  <2> DEFINE t == Reconciliation("timer", task["timer"].o)
  <2>1. (Begin("timer", t) /\ t \in Task /\ JobKept("timer", t)) \/ Finish("timer")
    BY <1>2, <1>w, <1>r, <1>j, ReconciliationType DEF AskReconcile
  <2> HIDE DEF t
  <2>2. task' \in [Slots -> Task \cup {Idle}] /\ TaskInv'
    BY <1>w, <1>f, <2>1, BeginFrame
  <2> QED
    BY <1>2, <2>2 DEF TypeOK, AskReconcile, rowVars, holdVars, stockVars, moneyVars
<1>3. CASE Grace
  <2>1. task' \in [Slots -> Task \cup {Idle}] /\ TaskInv'
    BY <1>3, <1>g DEF Grace, Steps
  <2> QED
    BY <1>3, <2>1, <1>r, <1>j DEF TypeOK, Grace, rowVars, stockVars, moneyVars
<1>4. CASE Delay
  <2>1. task' \in [Slots -> Task \cup {Idle}] /\ TaskInv'
    BY <1>4, <1>f DEF Delay
  <2> QED
    BY <1>4, <2>1, <1>r, <1>j DEF TypeOK, Delay, rowVars, holdVars, stockVars, moneyVars
<1>5. CASE Announce
  <2>1. task' \in [Slots -> Task \cup {Idle}] /\ TaskInv'
    BY <1>5, <1>f DEF Announce
  <2> QED
    BY <1>5, <2>1, <1>r DEF TypeOK, Announce, rowVars, holdVars, stockVars, moneyVars
<1> QED
  BY <1>1, <1>2, <1>3, <1>4, <1>5 DEF TimerStep

LEMMA StutterTypes == Types /\ UNCHANGED vars => Types'
BY DEF Types, TypeOK, TaskInv, JobKept, vars

LEMMA NextTypes == Types /\ [Next]_vars => Types'
<1> SUFFICES ASSUME Types, [Next]_vars PROVE Types'
  OBVIOUS
<1>1. CASE \E w \in Workers, o \in Orders : Request(w, o)
  BY <1>1, RequestTypes
<1>2. CASE \E w \in Workers, e \in Event : Deliver(w, e)
  BY <1>2, DeliverTypes
<1>3. CASE \E o \in Orders : StartReconcile("sweep", o)
  BY <1>3, SweepTypes
<1>4. CASE \E o \in Orders, t \in Timers : Fire(o, t)
  BY <1>4, FireTypes
<1>5. CASE \E w \in Slots : Step(w)
  BY <1>5, StepTypes
<1>6. CASE TimerStep
  BY <1>6, TimerTypes
<1>7. CASE Environment
  BY <1>7, EnvironmentTypes
<1>8. CASE UNCHANGED vars
  BY <1>8, StutterTypes
<1> QED
  BY <1>1, <1>2, <1>3, <1>4, <1>5, <1>6, <1>7, <1>8 DEF Next

LEMMA AlwaysTypes == Spec => []Types
<1>1. Init => Types
  BY InitTypes
<1>2. Types /\ [Next]_vars => Types'
  BY NextTypes
<1> QED
  BY <1>1, <1>2, PTL DEF Spec

(* Every variable keeps its type, whatever handlers overlap, crash or find  *)
(* changed under them: no bucket of the inventory goes below zero, and no   *)
(* queue, ledger or Stripe object is one the code does not have.            *)
THEOREM TypeCorrect == Spec => []TypeOK
<1>1. Types => TypeOK
  BY DEF Types
<1> QED
  BY <1>1, AlwaysTypes, PTL

(* A job taken off the queue can be given back: the timer and whoever queues *)
(* a job hold one, so a crash, a refused transition or a grace period        *)
(* returns a job that exists.                                                *)
THEOREM JobsKept == Spec => []TaskInv
<1>1. Types => TaskInv
  BY DEF Types
<1> QED
  BY <1>1, AlwaysTypes, PTL

-----------------------------------------------------------------------------
(* Nothing is sold without money. *)

(* What the next state says of an order and of a handler. *)

HasMoneyNext(o, k) == stripe'[o][k] \in {"succeeded", "repaid"}
BackedNext(o) ==
    o \in vouched' \/ \E k \in Intents : HasMoneyNext(o, k) /\ Succeeded(o, k) \in ledger'
EarnedNext(t) ==
    /\ status'[t.o] # "none"
    /\ t.op \in Settling /\ t.pc \in Confirming => BackedNext(t.o)
    /\ t.op = "manual" => t.pc \in Confirming
    /\ t.op \in Settling /\ t.pc = "ledger" =>
          t.ev = Succeeded(t.o, t.ev.k) /\ HasMoneyNext(t.o, t.ev.k)
    /\ t.pc \in {"confirm", "history", "restore", "attach"} => t.op \in Settling
    /\ t.pc \in {"ask", "check", "apply"} /\ t.to = "paid" => t.op \in Settling
    /\ t.pc = "ask" => t.op = "timer"
    /\ t.pc = "apply" =>
          /\ t.seen \in Statuses /\ t.to \in AllowedTransitions[t.seen]
          /\ t.seen \in Sold => BackedNext(t.o)

LEMMA EarnedPrimed ==
    ASSUME \A x \in Slots : task'[x] # Idle => EarnedNext(task'[x]),
           \A o \in Orders : status'[o] \in Sold => BackedNext(o),
           \A e \in events' : e.type = "succeeded" => HasMoneyNext(e.o, e.k)
    PROVE  EarnedInv'
<1>1. \A x \in Slots : (task[x] # Idle => Earned(task[x]))'
  BY DEF Earned, EarnedNext, Backed, BackedNext, HasMoney, HasMoneyNext
<1>2. SoldOnLedgeredMoney'
  BY DEF SoldOnLedgeredMoney, BackedNext, HasMoney, HasMoneyNext
<1>3. \A e \in events' : e.type = "succeeded" => HasMoney(e.o, e.k)'
  BY DEF HasMoney, HasMoneyNext
<1> QED
  BY <1>1, <1>2, <1>3 DEF EarnedInv

(* Nothing that backs an order is ever taken back. *)
Grows ==
    /\ vouched \subseteq vouched' /\ ledger \subseteq ledger'
    /\ \A o \in Orders, k \in Intents : HasMoney(o, k) => HasMoneyNext(o, k)
    /\ \A o \in Orders : status[o] # "none" => status'[o] # "none"

LEMMA BackedStays ==
    ASSUME Grows, NEW o \in Orders, Backed(o)
    PROVE  BackedNext(o)
BY DEF Grows, Backed, BackedNext

(* What a handler has earned it keeps. *)
LEMMA EarnedStays ==
    ASSUME Grows, NEW t \in Task, t.pc = "ledger" => t.ev \in Event, Earned(t)
    PROVE  EarnedNext(t)
<1>1. t.o \in Orders
  BY DEF Task
<1>2. Backed(t.o) => BackedNext(t.o)
  BY <1>1, BackedStays
<1>3. ASSUME t.op \in Settling, t.pc = "ledger"
      PROVE  t.ev = Succeeded(t.o, t.ev.k) /\ HasMoneyNext(t.o, t.ev.k)
  <2>1. t.ev \in Event /\ t.ev = Succeeded(t.o, t.ev.k) /\ HasMoney(t.o, t.ev.k)
    BY <1>3 DEF Earned
  <2>2. t.ev.k \in Intents
    BY <2>1 DEF Event
  <2> QED
    BY <1>1, <2>1, <2>2 DEF Grows
<1>4. status'[t.o] # "none"
  BY <1>1 DEF Grows, Earned
<1> QED
  BY <1>2, <1>3, <1>4 DEF Earned, EarnedNext

(* The frame of every step: money grows, handlers that changed have earned  *)
(* what they are about to do, and a status becomes sold on money only.      *)
LEMMA EarnedFrame ==
    ASSUME Types, EarnedInv, Grows,
           \A x \in Slots : task'[x] = task[x] \/ task'[x] = Idle \/ EarnedNext(task'[x]),
           \A o \in Orders : status'[o] \in Sold => status[o] \in Sold \/ BackedNext(o),
           \A e \in events' : e.type = "succeeded" => e \in events \/ HasMoneyNext(e.o, e.k)
    PROVE  EarnedInv'
<1>1. ASSUME NEW x \in Slots, task'[x] # Idle PROVE EarnedNext(task'[x])
  <2>1. CASE task'[x] = task[x]
    <3>1. task[x] \in Task /\ JobKept(x, task[x]) /\ Earned(task[x])
      BY <1>1, <2>1, Running DEF Types, TaskInv, EarnedInv
    <3> QED
      BY <2>1, <3>1, EarnedStays DEF JobKept
  <2> QED
    BY <1>1, <2>1
<1>2. ASSUME NEW o \in Orders, status'[o] \in Sold PROVE BackedNext(o)
  <2>1. status[o] \in Sold => Backed(o)
    BY DEF EarnedInv, SoldOnLedgeredMoney, Backed
  <2> QED
    BY <1>2, <2>1, BackedStays
<1>3. ASSUME NEW e \in events', e.type = "succeeded" PROVE HasMoneyNext(e.o, e.k)
  <2>1. CASE e \in events
    <3>1. e \in Event /\ HasMoney(e.o, e.k)
      BY <1>3, <2>1 DEF EarnedInv, Types, TypeOK
    <3> QED
      BY <3>1 DEF Grows, Event
  <2> QED
    BY <1>3, <2>1
<1> QED
  BY <1>1, <1>2, <1>3, EarnedPrimed

(* How one slot changes. *)
LEMMA SlotChange ==
    ASSUME Types, NEW w \in Slots
    PROVE  /\ \A t : Begin(w, t) => /\ task'[w] = t
                                    /\ \A x \in Slots \ {w} : task'[x] = task[x]
           /\ Finish(w) => /\ task'[w] = Idle
                           /\ \A x \in Slots \ {w} : task'[x] = task[x]
           /\ \A pc : Goto(w, pc) => /\ task'[w] = [task[w] EXCEPT !.pc = pc]
                                     /\ \A x \in Slots \ {w} : task'[x] = task[x]
BY DEF Types, TypeOK, Begin, Finish, Goto

-----------------------------------------------------------------------------
(* Steps that touch neither the order's status nor anything about money.    *)

Untouched == UNCHANGED <<status, ledger, stripe, events, vouched>>

LEMMA QuietFrame ==
    ASSUME Types, EarnedInv, Untouched,
           \A x \in Slots : task'[x] = task[x] \/ task'[x] = Idle \/ Earned(task'[x])
    PROVE  EarnedInv'
<1>1. Grows
  BY DEF Grows, Untouched, HasMoney, HasMoneyNext
<1>2. \A t : Earned(t) => EarnedNext(t)
  BY DEF Untouched, Earned, EarnedNext, Backed, BackedNext, HasMoney, HasMoneyNext
<1>3. \A x \in Slots : task'[x] = task[x] \/ task'[x] = Idle \/ EarnedNext(task'[x])
  BY <1>2
<1> QED
  BY <1>1, <1>3, EarnedFrame DEF Untouched

LEMMA QuietBegin ==
    ASSUME Types, EarnedInv, Untouched, NEW w \in Slots, NEW t, Begin(w, t), Earned(t)
    PROVE  EarnedInv'
BY SlotChange, QuietFrame

LEMMA QuietFinish ==
    ASSUME Types, EarnedInv, Untouched, NEW w \in Slots, Finish(w)
    PROVE  EarnedInv'
BY SlotChange, QuietFrame

LEMMA QuietGoto ==
    ASSUME Types, EarnedInv, Untouched, NEW w \in Slots, NEW pc, Goto(w, pc),
           Earned([task[w] EXCEPT !.pc = pc])
    PROVE  EarnedInv'
BY SlotChange, QuietFrame

LEMMA QuietStill ==
    ASSUME Types, EarnedInv, Untouched, task' = task
    PROVE  EarnedInv'
BY QuietFrame

(* A handler moved to a step of its own keeps what it has earned, if that is *)
(* what the step needs.                                                      *)
LEMMA EarnedGoto ==
    ASSUME NEW t \in Task, Earned(t), NEW pc \in Steps \ {"ledger", "ask", "apply"},
           pc \in Confirming => t.pc \in Confirming,
           t.op = "manual" => pc \in Confirming,
           pc \in {"confirm", "history", "restore", "attach"} => t.op \in Settling,
           pc = "check" /\ t.to = "paid" => t.op \in Settling
    PROVE  Earned([t EXCEPT !.pc = pc])
<1> DEFINE u == [t EXCEPT !.pc = pc]
<1>1. u.op = t.op /\ u.o = t.o /\ u.to = t.to /\ u.pc = pc
  BY DEF Task
<1> HIDE DEF u
<1>2. Earned(u)
  BY <1>1 DEF Earned, Confirming
<1> QED
  BY <1>2 DEF u

-----------------------------------------------------------------------------
(* The steps. *)

(* Stripe takes money and never gives it back from the intent's point of    *)
(* view; its success events are sent for money it has.                      *)
LEMMA StripeFrame ==
    ASSUME Types, EarnedInv, UNCHANGED <<status, ledger, vouched, task>>,
           \A o \in Orders, k \in Intents : HasMoney(o, k) => HasMoneyNext(o, k),
           \A e \in events' : e.type = "succeeded" => e \in events \/ HasMoneyNext(e.o, e.k)
    PROVE  EarnedInv'
<1>1. Grows
  BY DEF Grows
<1> QED
  BY <1>1, EarnedFrame

LEMMA EnvironmentEarned == Types /\ EarnedInv /\ Environment => EarnedInv'
<1> SUFFICES ASSUME Types, EarnedInv, Environment PROVE EarnedInv'
  OBVIOUS
<1> USE DEF HasMoney, HasMoneyNext
<1>1. ASSUME NEW o \in Orders, NEW k \in Intents, StripeProcess(o, k) PROVE EarnedInv'
  BY <1>1, StripeFrame DEF StripeProcess, rowVars, Types, TypeOK
<1>2. ASSUME NEW o \in Orders, NEW k \in Intents, StripeSucceed(o, k) PROVE EarnedInv'
  BY <1>2, StripeFrame DEF StripeSucceed, Succeeded, rowVars, Types, TypeOK
<1>3. ASSUME NEW o \in Orders, NEW k \in Intents, StripeFail(o, k) PROVE EarnedInv'
  BY <1>3, StripeFrame DEF StripeFail, Failed, rowVars, Types, TypeOK
<1>4. ASSUME NEW o \in Orders, NEW k \in Intents, StripeCancel(o, k) PROVE EarnedInv'
  BY <1>4, StripeFrame DEF StripeCancel, rowVars, Types, TypeOK
<1>5. ASSUME NEW o \in Orders, NEW k \in Intents, StripeRefund(o, k) PROVE EarnedInv'
  BY <1>5, StripeFrame DEF StripeRefund, Refunded, rowVars, Types, TypeOK
<1>6. ASSUME NEW o \in Orders, Lapse(o) PROVE EarnedInv'
  BY <1>6, QuietStill DEF Lapse, Untouched, rowVars, moneyVars
<1>7. ASSUME NEW o \in Orders, CreateFromCart(o) PROVE EarnedInv'
  <2>1. Grows
    BY <1>7 DEF CreateFromCart, Grows, moneyVars, Types, TypeOK
  <2>2. \A p \in Orders : status'[p] \in Sold => status[p] \in Sold
    BY <1>7 DEF CreateFromCart, Sold, Refundable, Types, TypeOK
  <2> QED
    BY <1>7, <2>1, <2>2, EarnedFrame DEF CreateFromCart, moneyVars
<1>8. ASSUME NEW w \in Slots, Fault(w) PROVE EarnedInv'
  BY <1>8, QuietFinish DEF Fault, Untouched, rowVars, moneyVars
<1>9. ASSUME NEW v \in Variants, NEW d \in Deltas, Adjust(v, d) PROVE EarnedInv'
  BY <1>9, QuietStill DEF Adjust, Untouched, rowVars, moneyVars
<1> QED
  BY <1>1, <1>2, <1>3, <1>4, <1>5, <1>6, <1>7, <1>8, <1>9 DEF Environment

LEMMA StartReconcileEarned ==
    ASSUME Types, EarnedInv, NEW w \in Slots, NEW o \in Orders, StartReconcile(w, o)
    PROVE  EarnedInv'
<1>1. Earned(Reconciliation(w, o))
  <2>1. HasMoney(o, pi[o]) /\ status[o] # "none"
    BY DEF StartReconcile, Payable, Swept, Reconcilable
  <2> QED
    BY <2>1 DEF Earned, Reconciliation, Handler, Succeeded, Confirming
<1> QED
  BY <1>1, QuietBegin DEF StartReconcile, Untouched, rowVars, moneyVars

LEMMA RequestEarned ==
    ASSUME NEW w \in Workers, NEW o \in Orders
    PROVE  Types /\ EarnedInv /\ Request(w, o) => EarnedInv'
<1> SUFFICES ASSUME Types, EarnedInv, Request(w, o) PROVE EarnedInv'
  OBVIOUS
<1>w. w \in Slots
  BY DEF Slots
<1>1. ASSUME Initiate(w, o) PROVE EarnedInv'
  <2> DEFINE t == [Handler("initiate", o, "enqueue") EXCEPT !.job = "base"]
  <2>1. Grows
    BY <1>1 DEF Initiate, Grows, moneyVars, HasMoney, HasMoneyNext, Types, TypeOK
  <2>2. \A p \in Orders : status'[p] \in Sold => status[p] \in Sold
    BY <1>1 DEF Initiate, Sold, Refundable, Types, TypeOK
  <2>3. EarnedNext(t)
    BY <1>1 DEF Initiate, EarnedNext, Handler, Settling, Confirming, Types, TypeOK
  <2>4. Begin(w, t)
    BY <1>1 DEF Initiate
  <2> HIDE DEF t
  <2>5. \A x \in Slots : task'[x] = task[x] \/ EarnedNext(task'[x])
    BY <1>w, <2>3, <2>4, SlotChange
  <2> QED
    BY <1>1, <2>1, <2>2, <2>5, EarnedFrame DEF Initiate, moneyVars
<1>2. ASSUME Rebuild(w, o) PROVE EarnedInv'
  <2> DEFINE t == [Handler("rebuild", o, "check") EXCEPT !.to = "cancelled"]
  <2>1. Earned(t)
    BY <1>2 DEF Rebuild, Earned, Handler, Settling, Confirming, Cancellable
  <2>2. Begin(w, t)
    BY <1>2 DEF Rebuild
  <2> HIDE DEF t
  <2> QED
    BY <1>2, <1>w, <2>1, <2>2, QuietBegin DEF Rebuild, Untouched, rowVars, moneyVars
<1>3. ASSUME StartReady(w, o) PROVE EarnedInv'
  <2>1. Earned(Handler("ready", o, "ready"))
    BY <1>3 DEF StartReady, Earned, Handler, Settling, Confirming
  <2> QED
    BY <1>3, <1>w, <2>1, QuietBegin DEF StartReady, Untouched, rowVars, moneyVars
<1>4. ASSUME StartIntent(w, o) PROVE EarnedInv'
  <2> DEFINE t == [Handler("intent", o, "mint") EXCEPT !.ref = pi[o] + 1]
  <2>1. Earned(t)
    BY <1>4 DEF StartIntent, Earned, Handler, Settling, Confirming
  <2>2. Begin(w, t)
    BY <1>4 DEF StartIntent
  <2> HIDE DEF t
  <2> QED
    BY <1>4, <1>w, <2>1, <2>2, QuietBegin DEF StartIntent, Untouched, rowVars, moneyVars
<1>5. ASSUME ReuseIntent(w, o) PROVE EarnedInv'
  BY <1>5, StripeFrame
     DEF ReuseIntent, Shown, HasMoney, HasMoneyNext, rowVars, Types, TypeOK
<1>6. ASSUME StartReconcile(w, o) PROVE EarnedInv'
  BY <1>6, <1>w, StartReconcileEarned
<1>7. ASSUME StartManual(w, o) PROVE EarnedInv'
  <2> DEFINE t == [Handler("manual", o, "confirm")
                     EXCEPT !.ref = IF pi[o] = NoIntent THEN Manual ELSE pi[o]]
  <2>1. Grows
    BY <1>7 DEF StartManual, Grows, rowVars, moneyVars, HasMoney, HasMoneyNext
  <2>2. EarnedNext(t)
    <3>1. BackedNext(o) /\ status'[o] # "none"
      BY <1>7 DEF StartManual, BackedNext, rowVars
    <3> QED
      BY <3>1 DEF EarnedNext, Handler, Settling, Confirming
  <2>3. Begin(w, t)
    BY <1>7 DEF StartManual
  <2> HIDE DEF t
  <2>4. \A x \in Slots : task'[x] = task[x] \/ EarnedNext(task'[x])
    BY <1>w, <2>2, <2>3, SlotChange
  <2> QED
    BY <1>7, <2>1, <2>4, EarnedFrame DEF StartManual, rowVars, moneyVars
<1>8. ASSUME NEW s \in Statuses, StartAdmin(w, o, s) PROVE EarnedInv'
  <2> DEFINE t == [Handler("admin", o, "check") EXCEPT !.to = s]
  <2>1. Earned(t)
    BY <1>8 DEF StartAdmin, Earned, Handler, Settling, Confirming
  <2>2. Begin(w, t)
    BY <1>8 DEF StartAdmin
  <2> HIDE DEF t
  <2> QED
    BY <1>8, <1>w, <2>1, <2>2, QuietBegin DEF StartAdmin, Untouched, rowVars, moneyVars
<1> QED
  BY <1>1, <1>2, <1>3, <1>4, <1>5, <1>6, <1>7, <1>8 DEF Request

LEMMA DeliverEarned ==
    ASSUME NEW w \in Workers, NEW e \in Event
    PROVE  Types /\ EarnedInv /\ Deliver(w, e) => EarnedInv'
<1> SUFFICES ASSUME Types, EarnedInv, Deliver(w, e) PROVE EarnedInv'
  OBVIOUS
<1> DEFINE t == [Handler(e.type, e.o, "ledger")
                   EXCEPT !.seen = status[e.o], !.ref = e.k, !.ev = e]
<1>1. Grows
  BY DEF Grows, Deliver, rowVars, HasMoney, HasMoneyNext
<1>2. task' = task \/ Begin(w, t)
  BY DEF Deliver
<1>n. task' = task \/ status'[e.o] # "none"
  BY DEF Deliver, rowVars
<1>3. status'[e.o] # "none" => EarnedNext(t)
  <2>1. e.type = "succeeded" => e = Succeeded(e.o, e.k) /\ HasMoneyNext(e.o, e.k)
    BY DEF Deliver, EarnedInv, HasMoney, HasMoneyNext, Event, Succeeded
  <2>2. e.type \in {"succeeded", "failed", "refunded"}
    BY DEF Event
  <2>3. /\ t.o = e.o /\ t.pc = "ledger" /\ t.op = e.type /\ t.ev = e
    BY DEF Handler
  <2> HIDE DEF t
  <2> QED
    BY <2>1, <2>2, <2>3 DEF EarnedNext, Settling, Confirming
<1> HIDE DEF t
<1>4. \A x \in Slots : task'[x] = task[x] \/ EarnedNext(task'[x])
  BY <1>2, <1>n, <1>3, SlotChange DEF Slots
<1>5. events' \subseteq events
  BY DEF Deliver
<1> QED
  BY <1>1, <1>4, <1>5, EarnedFrame DEF Deliver, rowVars

LEMMA FireEarned ==
    ASSUME NEW o \in Orders, NEW j \in Timers
    PROVE  Types /\ EarnedInv /\ Fire(o, j) => EarnedInv'
<1> SUFFICES ASSUME Types, EarnedInv, Fire(o, j) PROVE EarnedInv'
  OBVIOUS
<1> DEFINE t == [Handler("timer", o, IF pi[o] = NoIntent THEN "check" ELSE "ask")
                   EXCEPT !.to = "cancelled", !.job = j]
<1>1. task' = task \/ Begin("timer", t)
  BY DEF Fire
<1>n. task' = task \/ status[o] # "none"
  BY DEF Fire, StepsAside, Cancellable
<1>2. status[o] # "none" => Earned(t)
  BY DEF Earned, Handler, Settling, Confirming
<1> HIDE DEF t
<1> QED
  BY <1>1, <1>n, <1>2, QuietBegin, QuietStill DEF Fire, Untouched, rowVars, moneyVars, Slots

(* A handler reopens its order: the status it writes is not sold. *)
LEMMA ReopenFrame ==
    ASSUME Types, EarnedInv, UNCHANGED <<ledger, stripe, events, vouched>>,
           NEW o \in Orders, status' = [status EXCEPT ![o] = "awaiting_payment"],
           NEW w \in Slots, NEW pc, pc # "ledger", Goto(w, pc), task[w] \in Task,
           [task[w] EXCEPT !.pc = pc] \in Task, Earned([task[w] EXCEPT !.pc = pc])
    PROVE  EarnedInv'
<1> DEFINE t == [task[w] EXCEPT !.pc = pc]
<1>0. status \in [Orders -> Statuses \cup {"none"}]
  BY DEF Types, TypeOK
<1>1. Grows
  BY <1>0 DEF Grows, HasMoney, HasMoneyNext
<1>2. \A q \in Orders : status'[q] \in Sold => status[q] \in Sold
  BY <1>0 DEF Sold, Refundable
<1>3. t \in Task /\ t.pc # "ledger" /\ Earned(t)
  BY DEF Task
<1>4. task'[w] = t /\ \A x \in Slots \ {w} : task'[x] = task[x]
  BY SlotChange
<1> HIDE DEF t
<1>5. EarnedNext(t)
  BY <1>1, <1>3, EarnedStays
<1>6. \A x \in Slots : task'[x] = task[x] \/ EarnedNext(task'[x])
  BY <1>4, <1>5
<1> QED
  BY <1>1, <1>2, <1>6, EarnedFrame

(* The steps of a running handler: what it writes, it has earned. *)
LEMMA StepEarned ==
    ASSUME NEW w \in Slots
    PROVE  Types /\ EarnedInv /\ Step(w) => EarnedInv'
<1> SUFFICES ASSUME Types, EarnedInv, Step(w), task[w] # Idle PROVE EarnedInv'
  BY DEF Step, Ready, ReadyNote, Mint, AttachIntent, Extend, Enqueue, Ledger,
         Confirm, History, Restore, Attach, Spend, Check, Apply, At
<1>r. /\ task[w] \in Task
      /\ task[w].o \in Orders
      /\ JobKept(w, task[w])
      /\ Earned(task[w])
  BY Running DEF Types, TaskInv, EarnedInv
<1>n. status[task[w].o] # "none" /\ status[task[w].o] \in Statuses
  BY <1>r DEF Earned, Types, TypeOK
<1>f. SettleFailed(w) => Finish(w)
  BY DEF SettleFailed
<1>g. ASSUME NEW pc \in Steps PROVE [task[w] EXCEPT !.pc = pc] \in Task
  BY <1>r DEF Task
<1>1. CASE Ready(w)
  <2>1. Earned([task[w] EXCEPT !.pc = "readyNote"])
    BY <1>1, <1>r, EarnedGoto DEF Ready, At, Earned, Confirming, Steps
  <2> QED
    BY <1>1, <1>r, <1>g, <2>1, ReopenFrame DEF Ready, moneyVars, Steps
<1>2. CASE ReadyNote(w)
  BY <1>2, QuietFinish DEF ReadyNote, Untouched, moneyVars
<1>3. CASE Mint(w)
  <2>1. Earned([task[w] EXCEPT !.pc = "attachIntent"])
    BY <1>3, <1>r, EarnedGoto DEF Mint, At, Earned, Confirming, Steps
  <2>2. Grows
    BY <1>3 DEF Mint, Grows, HasMoney, HasMoneyNext, rowVars, Types, TypeOK
  <2>3. EarnedNext([task[w] EXCEPT !.pc = "attachIntent"])
    BY <1>g, <1>r, <2>1, <2>2, EarnedStays DEF Steps, Task
  <2>4. \A x \in Slots : task'[x] = task[x] \/ EarnedNext(task'[x])
    BY <1>3, <2>3, SlotChange DEF Mint
  <2> QED
    BY <1>3, <2>2, <2>4, EarnedFrame DEF Mint, rowVars
<1>4. CASE AttachIntent(w)
  <2> DEFINE t == [task[w] EXCEPT !.pc = "extend", !.job = "intent"]
  <2>1. Earned(t)
    BY <1>4, <1>r DEF AttachIntent, At, Earned, Confirming, Task
  <2>2. Begin(w, t)
    BY <1>4 DEF AttachIntent
  <2> HIDE DEF t
  <2> QED
    BY <1>4, <2>1, <2>2, QuietBegin DEF AttachIntent, Untouched, rowVars, moneyVars
<1>5. CASE Extend(w)
  <2>1. Earned([task[w] EXCEPT !.pc = "enqueue"])
    BY <1>5, <1>r, EarnedGoto DEF Extend, At, Earned, Confirming, Steps
  <2> QED
    BY <1>5, <2>1, QuietGoto DEF Extend, Untouched, rowVars, moneyVars
<1>6. CASE Enqueue(w)
  <2>1. Grows
    BY <1>6 DEF Enqueue, Shown, Grows, HasMoney, HasMoneyNext, rowVars, Types, TypeOK
  <2>2. \A x \in Slots : task'[x] = task[x] \/ task'[x] = Idle
    BY <1>6, SlotChange DEF Enqueue
  <2> QED
    BY <1>6, <2>1, <2>2, EarnedFrame DEF Enqueue, rowVars
<1>7. CASE Ledger(w)
  <2>0. task[w].pc = "ledger" /\ task[w].ev \in Event
    BY <1>7, <1>r DEF Ledger, At, JobKept
  <2> DEFINE confirming == [task[w] EXCEPT !.pc = "confirm", !.seen = "none", !.ev = Idle]
             extending  == [Handler("failed", task[w].o, "extend") EXCEPT !.job = "retry"]
             refunding  == [Handler("refunded", task[w].o, "check") EXCEPT !.to = "refunded"]
  <2>1. Grows
    BY <1>7 DEF Ledger, Grows, rowVars, moneyVars, HasMoney, HasMoneyNext
  <2>2. \/ task[w].op \in Settling /\ Begin(w, confirming)
        \/ Begin(w, extending)
        \/ Begin(w, refunding)
        \/ Finish(w)
    BY <1>7 DEF Ledger
  <2>3. status'[task[w].o] # "none"
    BY <1>7, <1>n DEF Ledger, rowVars
  <2>4. task[w].op \in Settling => BackedNext(task[w].o)
    <3>1. ASSUME task[w].op \in Settling
          PROVE  /\ task[w].ev = Succeeded(task[w].o, task[w].ev.k)
                 /\ HasMoney(task[w].o, task[w].ev.k)
                 /\ task[w].ev.k \in Intents
      BY <3>1, <2>0, <1>r DEF Earned, Event
    <3>2. task[w].ev \in ledger'
      BY <1>7 DEF Ledger
    <3> QED
      BY <3>1, <3>2, <2>1, <1>r DEF Grows, BackedNext
  <2>5. task[w].op \in Settling => EarnedNext(confirming)
    BY <2>3, <2>4, <1>r DEF EarnedNext, Confirming, Task
  <2>6. EarnedNext(extending) /\ EarnedNext(refunding)
    BY <2>3 DEF EarnedNext, Handler, Settling, Confirming
  <2> HIDE DEF confirming, extending, refunding
  <2>7. \A x \in Slots : task'[x] = task[x] \/ task'[x] = Idle \/ EarnedNext(task'[x])
    BY <2>2, <2>5, <2>6, SlotChange
  <2> QED
    BY <1>7, <2>1, <2>7, EarnedFrame DEF Ledger, rowVars, moneyVars
<1>8. CASE Confirm(w)
  <2> DEFINE pc == IF status[task[w].o] = "cancelled" THEN "history" ELSE "attach"
             t == [task[w] EXCEPT !.seen = status[task[w].o], !.pc = pc]
  <2>1. Begin(w, t) \/ Finish(w)
    BY <1>8 DEF Confirm
  <2>2. pc \in {"history", "attach"} /\ task[w].pc = "confirm"
    BY <1>8 DEF Confirm, At
  <2> HIDE DEF pc
  <2>3. Earned(t)
    BY <1>r, <2>2 DEF Earned, Confirming, Task
  <2> HIDE DEF t
  <2> QED
    BY <1>8, <2>1, <2>3, QuietBegin, QuietFinish DEF Confirm, Untouched, rowVars, moneyVars
<1>9. CASE History(w)
  <2>1. Earned([task[w] EXCEPT !.pc = "restore"])
    BY <1>9, <1>r, EarnedGoto DEF History, At, Earned, Confirming, Steps
  <2>2. Goto(w, "restore") \/ Finish(w)
    BY <1>9, <1>f DEF History
  <2> QED
    BY <1>9, <2>1, <2>2, QuietGoto, QuietFinish DEF History, Untouched, rowVars, moneyVars
<1>10. CASE Restore(w)
  <2>1. Earned([task[w] EXCEPT !.pc = "attach"])
    BY <1>10, <1>r, EarnedGoto DEF Restore, At, Earned, Confirming, Steps
  <2>2. CASE CanReserve(stock, Lines[task[w].o])
    BY <1>10, <1>r, <1>g, <2>1, <2>2, ReopenFrame DEF Restore, moneyVars, Steps
  <2>3. CASE ~CanReserve(stock, Lines[task[w].o])
    BY <1>10, <1>f, <2>3, QuietFinish DEF Restore, Untouched, rowVars, moneyVars
  <2> QED
    BY <2>2, <2>3
<1>11. CASE Attach(w)
  <2> DEFINE to == IF task[w].seen = "draft" THEN "awaiting_payment" ELSE "paid"
             t == [task[w] EXCEPT !.pc = "check", !.seen = "none", !.to = to]
  <2>1. Begin(w, t)
    BY <1>11 DEF Attach
  <2>2. task[w].pc = "attach"
    BY <1>11 DEF Attach, At
  <2> HIDE DEF to
  <2>3. Earned(t)
    BY <1>r, <2>2 DEF Earned, Confirming, Task
  <2> HIDE DEF t
  <2> QED
    BY <1>11, <2>1, <2>3, QuietBegin DEF Attach, Untouched, rowVars, moneyVars
<1>12. CASE Spend(w)
  BY <1>12, QuietFinish DEF Spend, Untouched, rowVars, moneyVars
<1>13. CASE Check(w)
  <2> DEFINE t == [task[w] EXCEPT !.pc = "apply", !.seen = status[task[w].o]]
  <2>1. \/ Begin(w, t) /\ task[w].to \in AllowedTransitions[status[task[w].o]]
        \/ Finish(w)
    BY <1>13, <1>f DEF Check
  <2>2. status[task[w].o] \in Sold => Backed(task[w].o)
    BY <1>r DEF EarnedInv, SoldOnLedgeredMoney, Backed
  <2>3. task[w].pc = "check"
    BY <1>13 DEF Check, At
  <2>4. /\ t.o = task[w].o /\ t.op = task[w].op /\ t.to = task[w].to
        /\ t.pc = "apply" /\ t.seen = status[task[w].o]
    BY <1>r DEF Task
  <2> HIDE DEF t
  <2>5. task[w].to \in AllowedTransitions[status[task[w].o]] => Earned(t)
    BY <1>r, <1>n, <2>2, <2>3, <2>4 DEF Earned, Confirming
  <2> QED
    BY <1>13, <2>1, <2>5, QuietBegin, QuietFinish DEF Check, Untouched, rowVars, moneyVars
<1>14. CASE Apply(w)
  <2>0. task[w].pc = "apply" /\ task[w].to \in Statuses
    BY <1>14, <1>r DEF Apply, At, Task
  <2>1. Grows
    BY <1>14, <1>n, <2>0, <1>r
       DEF Apply, Grows, moneyVars, HasMoney, HasMoneyNext, Statuses, Types, TypeOK
  <2>2. task[w].to \in Sold => Backed(task[w].o)
    <3>1. CASE task[w].to = "paid"
      BY <3>1, <2>0, <1>r DEF Earned, Confirming
    <3>2. CASE task[w].to \in Sold \ {"paid"}
      <4>1. task[w].seen \in Statuses /\ task[w].to \in AllowedTransitions[task[w].seen]
        BY <2>0, <1>r DEF Earned
      <4>2. task[w].seen \in Sold
        BY <3>2, <4>1 DEF Statuses, AllowedTransitions, Sold, Refundable
      <4> QED
        BY <2>0, <4>2, <1>r DEF Earned
    <3> QED
      BY <3>1, <3>2
  <2>3. BackedNext(task[w].o) \/ task[w].to \notin Sold
    BY <2>1, <2>2, <1>r, BackedStays
  <2>4. \A q \in Orders : status'[q] \in Sold => status[q] \in Sold \/ BackedNext(q)
    BY <1>14, <2>3, <1>r DEF Apply, Types, TypeOK
  <2> DEFINE paying    == [task[w] EXCEPT !.pc = "check", !.to = "paid", !.seen = "none"]
             spending  == [task[w] EXCEPT !.pc = "spend", !.seen = "none"]
             announced == [task[w] EXCEPT !.pc = "announce", !.seen = "none"]
  <2>5. \/ task[w].op \in Settling /\ Begin(w, paying)
        \/ task[w].op \in Settling /\ Begin(w, spending)
        \/ task[w].op = "timer" /\ Begin(w, announced)
        \/ Finish(w)
    BY <1>14 DEF Apply
  <2>6. status'[task[w].o] # "none"
    BY <2>1, <1>n, <1>r DEF Grows
  <2>7. task[w].op \in Settling => BackedNext(task[w].o)
    BY <2>0, <2>1, <1>r, BackedStays DEF Earned, Confirming
  <2>8. task[w].op \in Settling => EarnedNext(paying) /\ EarnedNext(spending)
    BY <2>6, <2>7, <1>r DEF EarnedNext, Confirming, Task
  <2>9. task[w].op = "timer" => EarnedNext(announced)
    BY <2>6, <1>r DEF EarnedNext, Settling, Confirming, Task
  <2> HIDE DEF paying, spending, announced
  <2>10. \A x \in Slots : task'[x] = task[x] \/ task'[x] = Idle \/ EarnedNext(task'[x])
    BY <2>5, <2>8, <2>9, SlotChange
  <2> QED
    BY <1>14, <2>1, <2>4, <2>10, EarnedFrame DEF Apply, moneyVars
<1> QED
  BY <1>1, <1>2, <1>3, <1>4, <1>5, <1>6, <1>7, <1>8, <1>9, <1>10, <1>11, <1>12, <1>13, <1>14
     DEF Step

LEMMA TimerEarned == Types /\ EarnedInv /\ TimerStep => EarnedInv'
<1> SUFFICES ASSUME Types, EarnedInv, TimerStep, task["timer"] # Idle PROVE EarnedInv'
  BY DEF TimerStep, Ask, AskReconcile, Grace, Delay, Announce, At
<1>w. "timer" \in Slots
  BY DEF Slots
<1>r. task["timer"] \in Task /\ task["timer"].o \in Orders /\ Earned(task["timer"])
  BY <1>w, Running DEF Types, EarnedInv
<1>1. CASE Ask
  <2> DEFINE t == [task["timer"] EXCEPT !.op = "reconcile", !.pc = "reconcile"]
  <2>0. task["timer"].pc = "ask"
    BY <1>1 DEF Ask, At
  <2>1. Earned(t)
    BY <2>0, <1>r DEF Earned, Confirming, Task
  <2>2. Earned([task["timer"] EXCEPT !.pc = "grace"])
    BY <2>0, <1>r, EarnedGoto DEF Earned, Confirming, Steps, Settling
  <2>3. Earned([task["timer"] EXCEPT !.pc = "check"])
    BY <2>0, <1>r, EarnedGoto DEF Earned, Confirming, Steps, Settling
  <2>4. Begin("timer", t) \/ Goto("timer", "grace") \/ Goto("timer", "check")
    BY <1>1 DEF Ask
  <2> HIDE DEF t
  <2> QED
    BY <1>1, <1>w, <2>1, <2>2, <2>3, <2>4, QuietBegin, QuietGoto
       DEF Ask, Untouched, rowVars, moneyVars
<1>2. CASE AskReconcile
  <2> DEFINE p == task["timer"].o
  <2>1. Payable(p) /\ status[p] # "none" => Earned(Reconciliation("timer", p))
    BY DEF Earned, Reconciliation, Handler, Succeeded, Confirming, Payable
  <2>2. \/ Payable(p) /\ status[p] # "none" /\ Begin("timer", Reconciliation("timer", p))
        \/ Finish("timer")
    BY <1>2 DEF AskReconcile, Reconcilable
  <2> QED
    BY <1>2, <1>w, <2>1, <2>2, QuietBegin, QuietFinish
       DEF AskReconcile, Untouched, rowVars, moneyVars
<1>3. CASE Grace
  <2>1. Earned([task["timer"] EXCEPT !.pc = "delay"])
    BY <1>3, <1>r, EarnedGoto DEF Grace, At, Earned, Confirming, Steps
  <2> QED
    BY <1>3, <1>w, <2>1, QuietGoto DEF Grace, Untouched, rowVars, moneyVars
<1>4. CASE Delay
  BY <1>4, <1>w, QuietFinish DEF Delay, Untouched, rowVars, moneyVars
<1>5. CASE Announce
  BY <1>5, <1>w, QuietFinish DEF Announce, Untouched, rowVars, moneyVars
<1> QED
  BY <1>1, <1>2, <1>3, <1>4, <1>5 DEF TimerStep

LEMMA NextEarned == Types /\ EarnedInv /\ [Next]_vars => EarnedInv'
<1> SUFFICES ASSUME Types, EarnedInv, [Next]_vars PROVE EarnedInv'
  OBVIOUS
<1>1. CASE \E w \in Workers, o \in Orders : Request(w, o)
  BY <1>1, RequestEarned
<1>2. CASE \E w \in Workers, e \in Event : Deliver(w, e)
  BY <1>2, DeliverEarned
<1>3. CASE \E o \in Orders : StartReconcile("sweep", o)
  BY <1>3, StartReconcileEarned DEF Slots
<1>4. CASE \E o \in Orders, t \in Timers : Fire(o, t)
  BY <1>4, FireEarned
<1>5. CASE \E w \in Slots : Step(w)
  BY <1>5, StepEarned
<1>6. CASE TimerStep
  BY <1>6, TimerEarned
<1>7. CASE Environment
  BY <1>7, EnvironmentEarned
<1>8. CASE UNCHANGED vars
  BY <1>8, QuietStill DEF vars, Untouched
<1> QED
  BY <1>1, <1>2, <1>3, <1>4, <1>5, <1>6, <1>7, <1>8 DEF Next

LEMMA InitEarned == Init => EarnedInv
BY DEF Init, EarnedInv, SoldOnLedgeredMoney, Sold, Refundable

(* No order is ever sold without money.  Webhooks, the sweep, the success    *)
(* page, the admin desk and the timer may settle, cancel and refund the same *)
(* order at once and overwrite what the others wrote; still, an order that   *)
(* is or was paid has a PaymentIntent Stripe succeeded and its ledger row,   *)
(* or an admin who vouched for it.                                           *)
THEOREM SoldCorrect == Spec => []SoldOnLedgeredMoney
<1>1. Init => EarnedInv
  BY InitEarned
<1>2. Types /\ Types' /\ EarnedInv /\ [Next]_vars => EarnedInv'
  BY NextEarned
<1>3. EarnedInv => SoldOnLedgeredMoney
  BY DEF EarnedInv
<1> QED
  BY <1>1, <1>2, <1>3, AlwaysTypes, PTL DEF Spec

(* Faults are only ever added. *)
LEMMA FaultsGrow == Types /\ [Next]_vars /\ faults' = 0 => faults = 0
<1> SUFFICES ASSUME Types, [Next]_vars, faults # 0, faults \in Nat PROVE faults' # 0
  BY DEF Types, TypeOK
<1>1. ASSUME NEW w \in Slots, Step(w) PROVE faults' = faults
  BY <1>1 DEF Step, Ready, ReadyNote, Mint, AttachIntent, Extend, Enqueue, Ledger,
         Confirm, History, Restore, Attach, Spend, Check, Apply
<1>2. ASSUME TimerStep PROVE faults' = faults \/ faults' = faults + 1
  BY <1>2 DEF TimerStep, Ask, AskReconcile, Grace, Delay, Announce
<1>3. ASSUME Environment PROVE faults' = faults \/ faults' = faults + 1
  BY <1>3 DEF Environment, StripeProcess, StripeSucceed, StripeFail, StripeCancel, StripeRefund,
         Lapse, CreateFromCart, Fault, Adjust
<1>4. ASSUME NEW w, NEW o, Request(w, o) PROVE faults' = faults
  BY <1>4 DEF Request, Initiate, Rebuild, StartReady, StartIntent, ReuseIntent,
         StartReconcile, StartManual, StartAdmin
<1>5. ASSUME NEW w, NEW e, Deliver(w, e) PROVE faults' = faults
  BY <1>5 DEF Deliver
<1>6. ASSUME NEW o, NEW t, Fire(o, t) PROVE faults' = faults
  BY <1>6 DEF Fire
<1>7. ASSUME NEW o, StartReconcile("sweep", o) PROVE faults' = faults
  BY <1>7 DEF StartReconcile
<1>8. faults' = faults \/ faults' = faults + 1
  BY <1>1, <1>2, <1>3, <1>4, <1>5, <1>6, <1>7 DEF Next, vars
<1> QED
  BY <1>8

-----------------------------------------------------------------------------
(* What a settlement leaves behind. *)

\* The basket of o is spent, or a handler is about to.
Spending(o) ==
    o \in spent \/ \E x \in Slots : task[x] # Idle /\ task[x].o = o /\ task[x].pc = "spend"

\* The order has been sold at least once.
Counted(o) == uses[o] >= 1

\* A handler that ends in a sale or an alert.
Watching(t) ==
    /\ t # Idle /\ t.op \in {"succeeded", "reconcile"}
    /\ t.pc \in Confirming \ {"spend"}
Heeded(o) ==
    \/ Counted(o)
    \/ <<"attention", o>> \in told
    \/ \E x \in Slots : Watching(task[x]) /\ task[x].o = o

\* What a handler read of its order is still so where it counts.
Followed(t) ==
    /\ t.pc = "apply" /\ t.seen \in Refundable => Spending(t.o)
    /\ t.pc = "apply" /\ t.seen \in Sold => Counted(t.o)
    /\ t.pc = "ledger" /\ t.seen = "paid" => Counted(t.o)
    /\ t.pc = "ledger" => t.op \in {"succeeded", "reconcile"} \/ t.ev.type # "succeeded"
    /\ t.op \in Settling /\ t.pc \in {"check", "apply"} => t.to \in {"awaiting_payment", "paid"}

FollowInv ==
    /\ \A o \in Orders : status[o] \in Refundable => Spending(o)
    /\ \A o \in Orders : status[o] \in Sold => Counted(o)
    /\ \A x \in Slots : task[x] # Idle => Followed(task[x])
    /\ \A o \in Orders, k \in Intents : Succeeded(o, k) \in ledger => Heeded(o)

(* The same, of the next state. *)
SpendingNext(o) ==
    o \in spent' \/ \E x \in Slots : task'[x] # Idle /\ task'[x].o = o /\ task'[x].pc = "spend"
CountedNext(o) == uses'[o] >= 1
HeededNext(o) ==
    \/ CountedNext(o)
    \/ <<"attention", o>> \in told'
    \/ \E x \in Slots : Watching(task'[x]) /\ task'[x].o = o
FollowedNext(t) ==
    /\ t.pc = "apply" /\ t.seen \in Refundable => SpendingNext(t.o)
    /\ t.pc = "apply" /\ t.seen \in Sold => CountedNext(t.o)
    /\ t.pc = "ledger" /\ t.seen = "paid" => CountedNext(t.o)
    /\ t.pc = "ledger" => t.op \in {"succeeded", "reconcile"} \/ t.ev.type # "succeeded"
    /\ t.op \in Settling /\ t.pc \in {"check", "apply"} => t.to \in {"awaiting_payment", "paid"}

LEMMA FollowPrimed ==
    ASSUME \A o \in Orders : status'[o] \in Refundable => SpendingNext(o),
           \A o \in Orders : status'[o] \in Sold => CountedNext(o),
           \A x \in Slots : task'[x] # Idle => FollowedNext(task'[x]),
           \A o \in Orders, k \in Intents : Succeeded(o, k) \in ledger' => HeededNext(o)
    PROVE  FollowInv'
<1>1. (\A o \in Orders : status[o] \in Refundable => Spending(o))'
  BY DEF Spending, SpendingNext
<1>2. (\A o \in Orders : status[o] \in Sold => Counted(o))'
  BY DEF Counted, CountedNext
<1>3. (\A x \in Slots : task[x] # Idle => Followed(task[x]))'
  BY DEF Followed, FollowedNext, Spending, SpendingNext, Counted, CountedNext
<1>4. (\A o \in Orders, k \in Intents : Succeeded(o, k) \in ledger => Heeded(o))'
  BY DEF Heeded, HeededNext, Counted, CountedNext, Watching
<1> QED
  BY <1>1, <1>2, <1>3, <1>4 DEF FollowInv

-----------------------------------------------------------------------------
(* Frames. *)

(* Nothing an order has, or has on its way, is lost. *)
KeptUp ==
    \A o \in Orders : /\ Spending(o) => SpendingNext(o)
                      /\ Counted(o) => CountedNext(o)
                      /\ Heeded(o) => HeededNext(o)

LEMMA FollowedStays ==
    ASSUME KeptUp, NEW t \in Task, Followed(t)
    PROVE  FollowedNext(t)
<1>1. t.o \in Orders
  BY DEF Task
<1> QED
  BY <1>1 DEF KeptUp, Followed, FollowedNext

LEMMA FollowFrame ==
    ASSUME Types, FollowInv, KeptUp,
           \A x \in Slots : task'[x] = task[x] \/ task'[x] = Idle \/ FollowedNext(task'[x]),
           \A o \in Orders : status'[o] \in Refundable
                                => status[o] \in Refundable \/ SpendingNext(o),
           \A o \in Orders : status'[o] \in Sold => status[o] \in Sold \/ CountedNext(o),
           \A o \in Orders, k \in Intents :
              Succeeded(o, k) \in ledger' => Succeeded(o, k) \in ledger \/ HeededNext(o)
    PROVE  FollowInv'
<1>1. ASSUME NEW x \in Slots, task'[x] # Idle PROVE FollowedNext(task'[x])
  <2>1. CASE task'[x] = task[x]
    <3>1. task[x] \in Task /\ Followed(task[x])
      BY <1>1, <2>1, Running DEF Types, FollowInv
    <3> QED
      BY <2>1, <3>1, FollowedStays
  <2> QED
    BY <1>1, <2>1
<1>2. \A o \in Orders : status'[o] \in Refundable => SpendingNext(o)
  BY DEF FollowInv, KeptUp
<1>3. \A o \in Orders : status'[o] \in Sold => CountedNext(o)
  BY DEF FollowInv, KeptUp
<1>4. \A o \in Orders, k \in Intents : Succeeded(o, k) \in ledger' => HeededNext(o)
  BY DEF FollowInv, KeptUp
<1> QED
  BY <1>1, <1>2, <1>3, <1>4, FollowPrimed

(* One slot changes: its handler leaves no post empty. *)
Gains ==
    /\ spent \subseteq spent' /\ told \subseteq told'
    /\ \A o \in Orders : Counted(o) => CountedNext(o)

LEMMA PostsKept ==
    ASSUME Gains, NEW w \in Slots, \A x \in Slots \ {w} : task'[x] = task[x],
           task[w] # Idle /\ task[w].pc = "spend" => SpendingNext(task[w].o),
           Watching(task[w]) => HeededNext(task[w].o)
    PROVE  KeptUp
<1> SUFFICES ASSUME NEW o \in Orders
             PROVE  /\ Spending(o) => SpendingNext(o)
                    /\ Counted(o) => CountedNext(o)
                    /\ Heeded(o) => HeededNext(o)
  BY DEF KeptUp
<1>1. Spending(o) => SpendingNext(o)
  <2>1. CASE o \in spent
    BY <2>1 DEF Gains, SpendingNext
  <2>2. ASSUME NEW x \in Slots, task[x] # Idle, task[x].o = o, task[x].pc = "spend"
        PROVE  SpendingNext(o)
    BY <2>2 DEF SpendingNext
  <2> QED
    BY <2>1, <2>2 DEF Spending
<1>2. Counted(o) => CountedNext(o)
  BY DEF Gains
<1>3. Heeded(o) => HeededNext(o)
  <2>1. CASE <<"attention", o>> \in told
    BY <2>1 DEF Gains, HeededNext
  <2>2. ASSUME NEW x \in Slots, Watching(task[x]), task[x].o = o PROVE HeededNext(o)
    BY <2>2 DEF HeededNext
  <2> QED
    BY <1>2, <2>1, <2>2 DEF Heeded, HeededNext
<1> QED
  BY <1>1, <1>2, <1>3

(* Steps that touch no basket, no count, no alert and no ledger row.        *)
Unsold == UNCHANGED <<spent, uses, told, ledger>>
Unpaid == \A o \in Orders : /\ status'[o] \in Refundable => status[o] \in Refundable
                            /\ status'[o] \in Sold => status[o] \in Sold

LEMMA UnsoldGains == Unsold => Gains
BY DEF Unsold, Gains, Counted, CountedNext

LEMMA UnpaidSame == UNCHANGED status => Unpaid
BY DEF Unpaid

LEMMA UnpaidOpen ==
    ASSUME Types, NEW o \in Orders, NEW s \in {"draft", "awaiting_payment"},
           status' = [status EXCEPT ![o] = s]
    PROVE  Unpaid
BY DEF Unpaid, Sold, Refundable, Types, TypeOK

(* No handler moves. *)
LEMMA FollowStill ==
    ASSUME Types, FollowInv, Gains, UNCHANGED ledger, Unpaid, task' = task
    PROVE  FollowInv'
<1>1. KeptUp
  BY DEF KeptUp, Gains, Spending, SpendingNext, Heeded, HeededNext
<1> QED
  BY <1>1, FollowFrame DEF Unpaid

(* A handler moves that keeps no post, or keeps it.                         *)
LEMMA FollowMove ==
    ASSUME Types, FollowInv, Unsold, Unpaid, NEW w \in Slots, NEW t,
           task'[w] = t, \A x \in Slots \ {w} : task'[x] = task[x],
           t = Idle \/ Followed(t),
           task[w] # Idle => task[w].pc # "spend",
           Watching(task[w]) => Watching(t) /\ t.o = task[w].o
    PROVE  FollowInv'
<1>1. Gains
  BY UnsoldGains
<1>2. Watching(task[w]) => HeededNext(task[w].o)
  BY DEF HeededNext
<1>3. KeptUp
  BY <1>1, <1>2, PostsKept
<1>4. t = Idle \/ FollowedNext(t)
  <2>1. ASSUME Followed(t), t # Idle PROVE FollowedNext(t)
    <3>1. CASE t.pc = "apply" /\ t.seen \in Refundable
      <4>1. Spending(t.o)
        BY <2>1, <3>1 DEF Followed
      <4>2. SpendingNext(t.o)
        <5>1. CASE t.o \in spent
          BY <5>1 DEF Unsold, SpendingNext
        <5>2. ASSUME NEW x \in Slots, task[x] # Idle, task[x].o = t.o, task[x].pc = "spend"
              PROVE  SpendingNext(t.o)
          <6>1. x # w
            BY <5>2
          <6>2. task'[x] = task[x]
            BY <6>1
          <6> QED
            BY <5>2, <6>2 DEF SpendingNext
        <5> QED
          BY <4>1, <5>1, <5>2 DEF Spending
      <4> QED
        BY <2>1, <4>2 DEF Followed, FollowedNext, Unsold, Counted, CountedNext
    <3>2. CASE ~(t.pc = "apply" /\ t.seen \in Refundable)
      BY <2>1, <3>2 DEF Followed, FollowedNext, Unsold, Counted, CountedNext
    <3> QED
      BY <3>1, <3>2
  <2> QED
    BY <2>1
<1>5. \A x \in Slots : task'[x] = task[x] \/ task'[x] = Idle \/ FollowedNext(task'[x])
  BY <1>4
<1> QED
  BY <1>3, <1>5, FollowFrame DEF Unpaid, Unsold

LEMMA FollowBegin ==
    ASSUME Types, FollowInv, Unsold, Unpaid, NEW w \in Slots, NEW t, Begin(w, t), Followed(t),
           task[w] # Idle => task[w].pc # "spend",
           Watching(task[w]) => Watching(t) /\ t.o = task[w].o
    PROVE  FollowInv'
<1>1. task'[w] = t /\ \A x \in Slots \ {w} : task'[x] = task[x]
  BY SlotChange
<1> QED
  BY <1>1, FollowMove

LEMMA FollowFinish ==
    ASSUME Types, FollowInv, Unsold, Unpaid, NEW w \in Slots, Finish(w),
           task[w] # Idle => task[w].pc # "spend", ~Watching(task[w])
    PROVE  FollowInv'
<1>1. task'[w] = Idle /\ \A x \in Slots \ {w} : task'[x] = task[x]
  BY SlotChange
<1> QED
  BY <1>1, FollowMove

\* Steps at which a handler knows nothing the invariant needs.
Early == Steps \ {"ledger", "check", "apply", "spend"}

LEMMA FollowGoto ==
    ASSUME Types, FollowInv, Unsold, Unpaid, NEW w \in Slots, task[w] # Idle,
           task[w].pc # "spend", NEW pc \in Early, Goto(w, pc),
           Watching(task[w]) => pc \in Confirming
    PROVE  FollowInv'
<1> DEFINE t == [task[w] EXCEPT !.pc = pc]
<1>1. task'[w] = t /\ \A x \in Slots \ {w} : task'[x] = task[x]
  BY SlotChange
<1>2. task[w] \in Task
  BY Running DEF Types
<1>3. t.op = task[w].op /\ t.o = task[w].o /\ t.pc = pc /\ t # Idle
  BY <1>2, TaskNotIdle DEF Task, Early
<1> HIDE DEF t
<1>4. Followed(t)
  BY <1>3 DEF Followed, Early
<1>5. Watching(task[w]) => Watching(t) /\ t.o = task[w].o
  BY <1>3 DEF Watching, Early
<1> QED
  BY <1>1, <1>4, <1>5, FollowMove

-----------------------------------------------------------------------------
(* The steps, as long as none of them is a crash or an error. *)

LEMMA IdlePosts == \A w : task[w] = Idle => ~Watching(task[w])
BY DEF Watching

LEMMA EnvironmentFollowed == Types /\ FollowInv /\ Environment /\ faults' = 0 => FollowInv'
<1> SUFFICES ASSUME Types, FollowInv, Environment, faults' = 0 PROVE FollowInv'
  OBVIOUS
<1> USE DEF Unsold, rowVars, stockVars
<1>1. ASSUME NEW o \in Orders, NEW k \in Intents, StripeProcess(o, k) PROVE FollowInv'
  BY <1>1, UnsoldGains, UnpaidSame, FollowStill DEF StripeProcess
<1>2. ASSUME NEW o \in Orders, NEW k \in Intents, StripeSucceed(o, k) PROVE FollowInv'
  BY <1>2, UnsoldGains, UnpaidSame, FollowStill DEF StripeSucceed
<1>3. ASSUME NEW o \in Orders, NEW k \in Intents, StripeFail(o, k) PROVE FollowInv'
  BY <1>3, UnsoldGains, UnpaidSame, FollowStill DEF StripeFail
<1>4. ASSUME NEW o \in Orders, NEW k \in Intents, StripeCancel(o, k) PROVE FollowInv'
  BY <1>4, UnsoldGains, UnpaidSame, FollowStill DEF StripeCancel
<1>5. ASSUME NEW o \in Orders, NEW k \in Intents, StripeRefund(o, k) PROVE FollowInv'
  BY <1>5, UnsoldGains, UnpaidSame, FollowStill DEF StripeRefund
<1>6. ASSUME NEW o \in Orders, Lapse(o) PROVE FollowInv'
  BY <1>6, UnsoldGains, UnpaidSame, FollowStill DEF Lapse
<1>7. ASSUME NEW o \in Orders, CreateFromCart(o) PROVE FollowInv'
  <2>1. Gains
    BY <1>7 DEF CreateFromCart, Gains, Counted, CountedNext
  <2> QED
    BY <1>7, <2>1, UnpaidOpen, FollowStill DEF CreateFromCart
<1>8. ASSUME NEW w \in Slots, Fault(w) PROVE FollowInv'
  BY <1>8 DEF Fault, Types, TypeOK
<1>9. ASSUME NEW v \in Variants, NEW d \in Deltas, Adjust(v, d) PROVE FollowInv'
  BY <1>9, UnsoldGains, UnpaidSame, FollowStill DEF Adjust
<1> QED
  BY <1>1, <1>2, <1>3, <1>4, <1>5, <1>6, <1>7, <1>8, <1>9 DEF Environment

LEMMA StartReconcileFollowed ==
    ASSUME Types, FollowInv, NEW w \in Slots, NEW o \in Orders, StartReconcile(w, o)
    PROVE  FollowInv'
<1>1. Followed(Reconciliation(w, o))
  <2>1. status[o] = "paid" => Counted(o)
    BY DEF FollowInv, Sold, Refundable
  <2> QED
    BY <2>1 DEF Followed, Reconciliation, Handler
<1> QED
  BY <1>1, FollowBegin, IdlePosts, UnpaidSame DEF StartReconcile, Free, Unsold, rowVars, stockVars

LEMMA RequestFollowed ==
    ASSUME NEW w \in Workers, NEW o \in Orders
    PROVE  Types /\ FollowInv /\ Request(w, o) => FollowInv'
<1> SUFFICES ASSUME Types, FollowInv, Request(w, o) PROVE FollowInv'
  OBVIOUS
<1>w. w \in Slots
  BY DEF Slots
<1> USE DEF Unsold, rowVars, stockVars, Free
<1>1. ASSUME Initiate(w, o) PROVE FollowInv'
  <2> DEFINE t == [Handler("initiate", o, "enqueue") EXCEPT !.job = "base"]
  <2>1. Followed(t)
    BY DEF Followed, Handler, Settling
  <2>2. Begin(w, t)
    BY <1>1 DEF Initiate
  <2> HIDE DEF t
  <2> QED
    BY <1>1, <1>w, <2>1, <2>2, UnpaidOpen, IdlePosts, FollowBegin DEF Initiate
<1>2. ASSUME Rebuild(w, o) PROVE FollowInv'
  <2> DEFINE t == [Handler("rebuild", o, "check") EXCEPT !.to = "cancelled"]
  <2>1. Followed(t)
    BY DEF Followed, Handler, Settling
  <2>2. Begin(w, t)
    BY <1>2 DEF Rebuild
  <2> HIDE DEF t
  <2> QED
    BY <1>2, <1>w, <2>1, <2>2, UnpaidSame, IdlePosts, FollowBegin DEF Rebuild
<1>3. ASSUME StartReady(w, o) PROVE FollowInv'
  <2>1. Followed(Handler("ready", o, "ready"))
    BY DEF Followed, Handler, Settling
  <2> QED
    BY <1>3, <1>w, <2>1, UnpaidSame, IdlePosts, FollowBegin DEF StartReady
<1>4. ASSUME StartIntent(w, o) PROVE FollowInv'
  <2> DEFINE t == [Handler("intent", o, "mint") EXCEPT !.ref = pi[o] + 1]
  <2>1. Followed(t)
    BY DEF Followed, Handler, Settling
  <2>2. Begin(w, t)
    BY <1>4 DEF StartIntent
  <2> HIDE DEF t
  <2> QED
    BY <1>4, <1>w, <2>1, <2>2, UnpaidSame, IdlePosts, FollowBegin DEF StartIntent
<1>5. ASSUME ReuseIntent(w, o) PROVE FollowInv'
  BY <1>5, UnsoldGains, UnpaidSame, FollowStill DEF ReuseIntent
<1>6. ASSUME StartReconcile(w, o) PROVE FollowInv'
  BY <1>6, <1>w, StartReconcileFollowed
<1>7. ASSUME StartManual(w, o) PROVE FollowInv'
  <2> DEFINE t == [Handler("manual", o, "confirm")
                     EXCEPT !.ref = IF pi[o] = NoIntent THEN Manual ELSE pi[o]]
  <2>1. Followed(t)
    BY DEF Followed, Handler, Settling
  <2>2. Begin(w, t)
    BY <1>7 DEF StartManual
  <2> HIDE DEF t
  <2> QED
    BY <1>7, <1>w, <2>1, <2>2, UnpaidSame, IdlePosts, FollowBegin DEF StartManual
<1>8. ASSUME NEW s \in Statuses, StartAdmin(w, o, s) PROVE FollowInv'
  <2> DEFINE t == [Handler("admin", o, "check") EXCEPT !.to = s]
  <2>1. Followed(t)
    BY DEF Followed, Handler, Settling
  <2>2. Begin(w, t)
    BY <1>8 DEF StartAdmin
  <2> HIDE DEF t
  <2> QED
    BY <1>8, <1>w, <2>1, <2>2, UnpaidSame, IdlePosts, FollowBegin DEF StartAdmin
<1> QED
  BY <1>1, <1>2, <1>3, <1>4, <1>5, <1>6, <1>7, <1>8 DEF Request

LEMMA DeliverFollowed ==
    ASSUME NEW w \in Workers, NEW e \in Event
    PROVE  Types /\ FollowInv /\ Deliver(w, e) => FollowInv'
<1> SUFFICES ASSUME Types, FollowInv, Deliver(w, e) PROVE FollowInv'
  OBVIOUS
<1> DEFINE t == [Handler(e.type, e.o, "ledger")
                   EXCEPT !.seen = status[e.o], !.ref = e.k, !.ev = e]
<1>1. task' = task \/ Begin(w, t)
  BY DEF Deliver
<1>2. status[e.o] = "paid" => Counted(e.o)
  BY DEF FollowInv, Sold, Refundable, Event
<1>3. Followed(t)
  <2>1. /\ t.o = e.o /\ t.pc = "ledger" /\ t.op = e.type /\ t.ev = e /\ t.seen = status[e.o]
    BY DEF Handler
  <2> HIDE DEF t
  <2> QED
    BY <1>2, <2>1 DEF Followed
<1> HIDE DEF t
<1> QED
  BY <1>1, <1>3, UnpaidSame, UnsoldGains, IdlePosts, FollowBegin, FollowStill
     DEF Deliver, Free, Slots, Unsold, rowVars, stockVars

LEMMA FireFollowed ==
    ASSUME NEW o \in Orders, NEW j \in Timers
    PROVE  Types /\ FollowInv /\ Fire(o, j) => FollowInv'
<1> SUFFICES ASSUME Types, FollowInv, Fire(o, j) PROVE FollowInv'
  OBVIOUS
<1> DEFINE t == [Handler("timer", o, IF pi[o] = NoIntent THEN "check" ELSE "ask")
                   EXCEPT !.to = "cancelled", !.job = j]
<1>1. task' = task \/ Begin("timer", t)
  BY DEF Fire
<1>2. Followed(t)
  BY DEF Followed, Handler, Settling
<1> HIDE DEF t
<1> QED
  BY <1>1, <1>2, UnpaidSame, UnsoldGains, IdlePosts, FollowBegin, FollowStill
     DEF Fire, Free, Slots, Unsold, rowVars, stockVars

(* confirmPayment gives up: unless an admin asked, somebody is alerted.     *)
LEMMA FailedFollowed ==
    ASSUME Types, FollowInv, NEW w \in Slots, task[w] # Idle, task[w].pc # "spend",
           SettleFailed(w), UNCHANGED <<spent, uses, ledger, status>>
    PROVE  FollowInv'
<1>1. Finish(w) /\ told \subseteq told'
  BY DEF SettleFailed
<1>2. Watching(task[w]) => <<"attention", task[w].o>> \in told'
  BY DEF SettleFailed, Watching
<1>3. Gains
  BY <1>1 DEF Gains, Counted, CountedNext
<1>4. task'[w] = Idle /\ \A x \in Slots \ {w} : task'[x] = task[x]
  BY <1>1, SlotChange
<1>5. KeptUp
  BY <1>2, <1>3, <1>4, PostsKept DEF HeededNext
<1>6. \A x \in Slots : task'[x] = task[x] \/ task'[x] = Idle
  BY <1>4
<1> QED
  BY <1>5, <1>6, FollowFrame

(* A handler that ends at a paid order has nothing left to announce.        *)
LEMMA SpendsFollowed ==
    ASSUME Types, FollowInv, NEW w \in Slots, task[w] # Idle,
           Finish(w), UNCHANGED <<uses, told, ledger, status>>,
           spent' = spent \cup {task[w].o}, Watching(task[w]) => Counted(task[w].o)
    PROVE  FollowInv'
<1>1. Gains
  BY DEF Gains, Counted, CountedNext
<1>2. task'[w] = Idle /\ \A x \in Slots \ {w} : task'[x] = task[x]
  BY SlotChange
<1>3. SpendingNext(task[w].o)
  BY DEF SpendingNext
<1>4. Watching(task[w]) => HeededNext(task[w].o)
  BY DEF HeededNext, Counted, CountedNext
<1>5. KeptUp
  BY <1>1, <1>2, <1>3, <1>4, PostsKept
<1>6. \A x \in Slots : task'[x] = task[x] \/ task'[x] = Idle
  BY <1>2
<1> QED
  BY <1>5, <1>6, FollowFrame

(* A row in the ledger: money of a handler that will sell or alert, or no   *)
(* success at all, or money of an order already sold.                       *)
LEMMA LedgerFollowed ==
    ASSUME Types, EarnedInv, FollowInv, NEW w \in Slots, Ledger(w)
    PROVE  FollowInv'
<1>0. task[w] # Idle /\ task[w].pc = "ledger"
  BY DEF Ledger, At
<1>r. /\ task[w] \in Task /\ task[w].o \in Orders /\ Earned(task[w]) /\ Followed(task[w])
      /\ task[w].ev \in Event
  BY <1>0, Running DEF Types, TaskInv, JobKept, EarnedInv, FollowInv
<1> DEFINE confirming == [task[w] EXCEPT !.pc = "confirm", !.seen = "none", !.ev = Idle]
           extending  == [Handler("failed", task[w].o, "extend") EXCEPT !.job = "retry"]
           refunding  == [Handler("refunded", task[w].o, "check") EXCEPT !.to = "refunded"]
<1>1. \/ task[w].op \in Settling /\ Begin(w, confirming)
      \/ task[w].op \notin Settling /\ (Begin(w, extending) \/ Begin(w, refunding) \/ Finish(w))
      \/ task[w].op \in Settling /\ task[w].seen = "paid" /\ Finish(w)
  BY DEF Ledger, Settling
<1>2. Gains
  BY DEF Ledger, Gains, Counted, CountedNext, stockVars
<1>3. ~Watching(task[w])
  BY <1>0 DEF Watching, Confirming
<1>4. \A x \in Slots \ {w} : task'[x] = task[x]
  BY <1>1, SlotChange
<1>5. KeptUp
  BY <1>0, <1>2, <1>3, <1>4, PostsKept
<1>c. confirming.op = task[w].op /\ confirming.o = task[w].o /\ confirming.pc = "confirm"
      /\ confirming # Idle
  <2>1. DOMAIN confirming = DOMAIN task[w]
    OBVIOUS
  <2>2. confirming.op = task[w].op /\ confirming.o = task[w].o /\ confirming.pc = "confirm"
    BY <1>r DEF Task
  <2>3. task[w].op # "idle"
    BY <1>r DEF Task, Ops
  <2> QED
    BY <2>2, <2>3 DEF Idle
<1>6. FollowedNext(confirming)
  BY <1>c DEF FollowedNext
<1>7. FollowedNext(extending) /\ FollowedNext(refunding)
  BY DEF FollowedNext, Handler, Settling
<1> HIDE DEF confirming, extending, refunding
<1>8. \A x \in Slots : task'[x] = task[x] \/ task'[x] = Idle \/ FollowedNext(task'[x])
  BY <1>1, <1>6, <1>7, SlotChange
<1>9. ASSUME NEW o \in Orders, NEW k \in Intents, Succeeded(o, k) \in ledger'
      PROVE  Succeeded(o, k) \in ledger \/ HeededNext(o)
  <2> SUFFICES ASSUME Succeeded(o, k) = task[w].ev PROVE HeededNext(o)
    BY <1>9 DEF Ledger
  <2>1. task[w].op \in {"succeeded", "reconcile"}
    BY <1>0, <1>r DEF Followed, Succeeded
  <2>2. task[w].ev.o = task[w].o
    BY <1>0, <1>r, <2>1 DEF Earned, Settling, Succeeded
  <2>3. o = task[w].o
    BY <2>2 DEF Succeeded
  <2>4. CASE task'[w] = confirming
    <3>1. Watching(task'[w]) /\ task'[w].o = o
      BY <1>c, <2>1, <2>3, <2>4 DEF Watching, Confirming
    <3> QED
      BY <3>1 DEF HeededNext
  <2>5. CASE task[w].seen = "paid"
    BY <1>0, <1>2, <1>r, <2>3, <2>5 DEF Followed, Gains, HeededNext
  <2> QED
    BY <1>1, <2>1, <2>4, <2>5, SlotChange DEF Settling
<1> QED
  BY <1>5, <1>8, <1>9, FollowFrame DEF Ledger, rowVars

(* The order moves.  A sale was checked by a handler that settles it, which *)
(* counts it in the same transaction and stays to spend the basket; any     *)
(* other sold status follows one that was read.                             *)
LEMMA ApplyFollowed ==
    ASSUME Types, EarnedInv, FollowInv, NEW w \in Slots, Apply(w)
    PROVE  FollowInv'
<1>0. task[w] # Idle /\ task[w].pc = "apply"
  BY DEF Apply, At
<1>r. /\ task[w] \in Task /\ task[w].o \in Orders /\ Earned(task[w]) /\ Followed(task[w])
      /\ task[w].to \in Statuses
  BY <1>0, Running DEF Types, EarnedInv, FollowInv, Task
<1> DEFINE paying    == [task[w] EXCEPT !.pc = "check", !.to = "paid", !.seen = "none"]
           spending  == [task[w] EXCEPT !.pc = "spend", !.seen = "none"]
           announced == [task[w] EXCEPT !.pc = "announce", !.seen = "none"]
<1>1. \/ task[w].op \in Settling /\ task[w].to = "awaiting_payment" /\ Begin(w, paying)
      \/ task[w].op \in Settling /\ task[w].to # "awaiting_payment" /\ Begin(w, spending)
      \/ task[w].op = "timer" /\ Begin(w, announced)
      \/ task[w].op \notin Settling /\ Finish(w)
  BY DEF Apply
<1>2. /\ status' = [status EXCEPT ![task[w].o] = task[w].to]
      /\ uses' = IF task[w].to = "paid" THEN [uses EXCEPT ![task[w].o] = @ + 1] ELSE uses
      /\ UNCHANGED <<spent, told, ledger>>
  BY DEF Apply
<1>3. uses \in [Orders -> Nat] /\ status \in [Orders -> Statuses \cup {"none"}]
  BY DEF Types, TypeOK
<1>4. /\ \A o \in Orders : Counted(o) => CountedNext(o)
      /\ task[w].to = "paid" => CountedNext(task[w].o)
  <2>1. CASE task[w].to = "paid"
    BY <1>2, <1>3, <1>r, <2>1 DEF Counted, CountedNext
  <2>2. CASE task[w].to # "paid"
    BY <1>2, <2>2 DEF Counted, CountedNext
  <2> QED
    BY <2>1, <2>2
<1>5. Gains
  BY <1>2, <1>4 DEF Gains
<1>6. \A x \in Slots \ {w} : task'[x] = task[x]
  BY <1>1, SlotChange
<1>c. /\ paying.op = task[w].op /\ paying.o = task[w].o /\ paying.pc = "check"
      /\ paying.to = "paid" /\ paying # Idle
      /\ spending.o = task[w].o /\ spending.pc = "spend" /\ spending # Idle
      /\ announced.pc = "announce"
  <2>1. task[w].op # "idle"
    BY <1>r DEF Task, Ops
  <2>2. /\ paying.op = task[w].op /\ paying.o = task[w].o /\ paying.pc = "check"
        /\ paying.to = "paid"
    BY <1>r DEF Task
  <2>3. spending.op = task[w].op /\ spending.o = task[w].o /\ spending.pc = "spend"
    BY <1>r DEF Task
  <2>4. announced.pc = "announce"
    BY <1>r DEF Task
  <2> QED
    BY <2>1, <2>2, <2>3, <2>4 DEF Idle
<1> HIDE DEF paying, spending, announced
<1>7. task[w].op \in Settling => task[w].to \in {"awaiting_payment", "paid"}
  BY <1>0, <1>r DEF Followed
<1>8. Watching(task[w]) => HeededNext(task[w].o)
  <2> SUFFICES ASSUME Watching(task[w]) PROVE HeededNext(task[w].o)
    OBVIOUS
  <2>1. task[w].op \in {"succeeded", "reconcile"} /\ task[w].op \in Settling
    BY DEF Watching, Settling
  <2>2. CASE task[w].to = "paid"
    BY <1>4, <2>2 DEF HeededNext
  <2>3. CASE task[w].to = "awaiting_payment"
    <3>1. task'[w] = paying
      BY <1>1, <2>1, <2>3, SlotChange DEF Settling
    <3>2. Watching(task'[w]) /\ task'[w].o = task[w].o
      BY <1>c, <2>1, <3>1 DEF Watching, Confirming
    <3> QED
      BY <3>2 DEF HeededNext
  <2> QED
    BY <1>7, <2>1, <2>2, <2>3
<1>9. KeptUp
  BY <1>0, <1>5, <1>6, <1>8, PostsKept
<1>10. FollowedNext(paying) /\ FollowedNext(spending) /\ FollowedNext(announced)
  BY <1>c DEF FollowedNext
<1>11. \A x \in Slots : task'[x] = task[x] \/ task'[x] = Idle \/ FollowedNext(task'[x])
  BY <1>1, <1>10, SlotChange
<1>12. CASE task[w].to \notin Sold
  <2>1. Unpaid
    BY <1>2, <1>3, <1>r, <1>12 DEF Unpaid, Sold
  <2> QED
    BY <1>2, <1>9, <1>11, <2>1, FollowFrame DEF Unpaid
<1>13. CASE task[w].to = "paid"
  <2>1. task[w].op \in Settling
    BY <1>0, <1>13, <1>r DEF Earned
  <2>2. task'[w] = spending
    BY <1>1, <1>13, <2>1, SlotChange DEF Settling
  <2>3. SpendingNext(task[w].o)
    BY <1>c, <2>2 DEF SpendingNext
  <2>4. \A o \in Orders : o # task[w].o => status'[o] = status[o]
    BY <1>2, <1>3, <1>r
  <2> QED
    BY <1>2, <1>4, <1>9, <1>11, <1>13, <2>3, <2>4, FollowFrame
<1>14. CASE task[w].to \in Sold \ {"paid"}
  <2>1. task[w].seen \in Statuses /\ task[w].to \in AllowedTransitions[task[w].seen]
    BY <1>0, <1>r DEF Earned
  <2>2. task[w].seen \in Refundable /\ task[w].seen \in Sold
    BY <1>14, <2>1 DEF Statuses, AllowedTransitions, Sold, Refundable
  <2>3. Spending(task[w].o) /\ Counted(task[w].o)
    BY <1>0, <1>r, <2>2 DEF Followed
  <2>4. SpendingNext(task[w].o) /\ CountedNext(task[w].o)
    BY <1>9, <1>r, <2>3 DEF KeptUp
  <2>5. \A o \in Orders : o # task[w].o => status'[o] = status[o]
    BY <1>2, <1>3, <1>r
  <2> QED
    BY <1>2, <1>9, <1>11, <2>4, <2>5, FollowFrame
<1> QED
  BY <1>12, <1>13, <1>14

LEMMA StepFollowed ==
    ASSUME NEW w \in Slots
    PROVE  Types /\ EarnedInv /\ FollowInv /\ Step(w) => FollowInv'
<1> SUFFICES ASSUME Types, EarnedInv, FollowInv, Step(w), task[w] # Idle PROVE FollowInv'
  BY DEF Step, Ready, ReadyNote, Mint, AttachIntent, Extend, Enqueue, Ledger,
         Confirm, History, Restore, Attach, Spend, Check, Apply, At
<1>r. /\ task[w] \in Task
      /\ task[w].o \in Orders
      /\ Earned(task[w])
      /\ Followed(task[w])
  BY Running DEF Types, EarnedInv, FollowInv
<1>e. \A pc : task[w].pc = pc /\ pc \notin Confirming => ~Watching(task[w])
  BY DEF Watching
<1> USE DEF At, Unsold, rowVars, stockVars
<1>1. CASE Ready(w)
  <2>1. Unpaid
    BY <1>1, <1>r, UnpaidOpen DEF Ready
  <2> QED
    BY <1>1, <1>e, <2>1, FollowGoto DEF Ready, Early, Steps, Confirming
<1>2. CASE ReadyNote(w)
  BY <1>2, <1>e, UnpaidSame, FollowFinish DEF ReadyNote, Confirming
<1>3. CASE Mint(w)
  BY <1>3, <1>e, UnpaidSame, FollowGoto DEF Mint, Early, Steps, Confirming
<1>4. CASE AttachIntent(w)
  <2> DEFINE t == [task[w] EXCEPT !.pc = "extend", !.job = "intent"]
  <2>1. Begin(w, t)
    BY <1>4 DEF AttachIntent
  <2>2. t.pc = "extend"
    BY <1>r DEF Task
  <2> HIDE DEF t
  <2>3. Followed(t)
    BY <2>2 DEF Followed
  <2> QED
    BY <1>4, <1>e, <2>1, <2>3, UnpaidSame, FollowBegin DEF AttachIntent, Confirming
<1>5. CASE Extend(w)
  BY <1>5, <1>e, UnpaidSame, FollowGoto DEF Extend, Early, Steps, Confirming
<1>6. CASE Enqueue(w)
  BY <1>6, <1>e, UnpaidSame, FollowFinish DEF Enqueue, Confirming
<1>7. CASE Ledger(w)
  BY <1>7, LedgerFollowed
<1>8. CASE Confirm(w)
  <2>1. CASE status[task[w].o] = "paid"
    <3>1. Counted(task[w].o)
      BY <1>r, <2>1 DEF FollowInv, Sold, Refundable
    <3> QED
      BY <1>8, <2>1, <3>1, SpendsFollowed DEF Confirm
  <2>2. CASE status[task[w].o] # "paid"
    <3> DEFINE pc == IF status[task[w].o] = "cancelled" THEN "history" ELSE "attach"
               t == [task[w] EXCEPT !.seen = status[task[w].o], !.pc = pc]
    <3>1. Begin(w, t) /\ task[w].pc = "confirm"
      BY <1>8, <2>2 DEF Confirm
    <3>2. pc \in {"history", "attach"}
      OBVIOUS
    <3>t. UNCHANGED spent
      BY <1>8, <2>2 DEF Confirm
    <3> HIDE DEF pc
    <3>3. t.pc = pc /\ t.op = task[w].op /\ t.o = task[w].o /\ t # Idle
      <4>1. t.pc = pc /\ t.op = task[w].op /\ t.o = task[w].o
        BY <1>r DEF Task
      <4>2. task[w].op # "idle"
        BY <1>r DEF Task, Ops
      <4> QED
        BY <4>1, <4>2 DEF Idle
    <3> HIDE DEF t
    <3>4. Followed(t)
      BY <3>2, <3>3 DEF Followed
    <3>5. Watching(task[w]) => Watching(t) /\ t.o = task[w].o
      BY <3>2, <3>3 DEF Watching, Confirming
    <3> QED
      BY <1>8, <3>1, <3>t, <3>4, <3>5, UnpaidSame, FollowBegin DEF Confirm
  <2> QED
    BY <2>1, <2>2
<1>9. CASE History(w)
  <2>1. CASE SettleFailed(w)
    BY <1>9, <2>1, FailedFollowed DEF History
  <2>2. CASE Goto(w, "restore") /\ UNCHANGED told
    BY <1>9, <2>2, UnpaidSame, FollowGoto DEF History, Early, Steps, Confirming
  <2> QED
    BY <1>9, <2>1, <2>2 DEF History
<1>10. CASE Restore(w)
  <2>1. CASE CanReserve(stock, Lines[task[w].o])
    <3>1. Unpaid
      BY <1>10, <1>r, <2>1, UnpaidOpen DEF Restore
    <3> QED
      BY <1>10, <2>1, <3>1, FollowGoto DEF Restore, Early, Steps, Confirming
  <2>2. CASE ~CanReserve(stock, Lines[task[w].o])
    BY <1>10, <2>2, FailedFollowed DEF Restore
  <2> QED
    BY <2>1, <2>2
<1>11. CASE Attach(w)
  <2> DEFINE to == IF task[w].seen = "draft" THEN "awaiting_payment" ELSE "paid"
             t == [task[w] EXCEPT !.pc = "check", !.seen = "none", !.to = to]
  <2>1. Begin(w, t) /\ task[w].pc = "attach"
    BY <1>11 DEF Attach
  <2>2. to \in {"awaiting_payment", "paid"}
    OBVIOUS
  <2> HIDE DEF to
  <2>3. /\ t.pc = "check" /\ t.op = task[w].op /\ t.o = task[w].o /\ t.to = to /\ t # Idle
    <3>1. t.pc = "check" /\ t.op = task[w].op /\ t.o = task[w].o /\ t.to = to
      BY <1>r DEF Task
    <3>2. task[w].op # "idle"
      BY <1>r DEF Task, Ops
    <3> QED
      BY <3>1, <3>2 DEF Idle
  <2> HIDE DEF t
  <2>4. Followed(t)
    BY <2>2, <2>3 DEF Followed
  <2>5. Watching(task[w]) => Watching(t) /\ t.o = task[w].o
    BY <2>3 DEF Watching, Confirming
  <2> QED
    BY <1>11, <2>1, <2>4, <2>5, UnpaidSame, FollowBegin DEF Attach
<1>12. CASE Spend(w)
  <2>1. ~Watching(task[w])
    BY <1>12 DEF Spend, Watching
  <2> QED
    BY <1>12, <2>1, SpendsFollowed DEF Spend
<1>13. CASE Check(w)
  <2> DEFINE t == [task[w] EXCEPT !.pc = "apply", !.seen = status[task[w].o]]
  <2>0. task[w].pc = "check"
    BY <1>13 DEF Check
  <2>1. \/ Begin(w, t) /\ UNCHANGED told
        \/ task[w].op \in Settling /\ SettleFailed(w)
        \/ task[w].op \notin Settling /\ Finish(w) /\ UNCHANGED told
    BY <1>13 DEF Check
  <2>2. CASE Begin(w, t) /\ UNCHANGED told
    <3>1. /\ t.pc = "apply" /\ t.op = task[w].op /\ t.o = task[w].o /\ t.to = task[w].to
          /\ t.seen = status[task[w].o]
      BY <1>r DEF Task
    <3>2. t # Idle
      <4>1. task[w].op # "idle"
        BY <1>r DEF Task, Ops
      <4> QED
        BY <3>1, <4>1 DEF Idle
    <3> HIDE DEF t
    <3>3. Followed(t)
      BY <1>r, <2>0, <3>1 DEF Followed, FollowInv
    <3>4. Watching(task[w]) => Watching(t) /\ t.o = task[w].o
      BY <3>1, <3>2 DEF Watching, Confirming
    <3> QED
      BY <1>13, <2>0, <2>2, <3>3, <3>4, UnpaidSame, FollowBegin DEF Check
  <2>3. CASE task[w].op \in Settling /\ SettleFailed(w)
    BY <1>13, <2>0, <2>3, FailedFollowed DEF Check
  <2>4. CASE task[w].op \notin Settling /\ Finish(w) /\ UNCHANGED told
    <3>1. ~Watching(task[w])
      BY <2>4 DEF Watching, Settling
    <3> QED
      BY <1>13, <2>0, <2>4, <3>1, UnpaidSame, FollowFinish DEF Check
  <2> QED
    BY <2>1, <2>2, <2>3, <2>4
<1>14. CASE Apply(w)
  BY <1>14, ApplyFollowed
<1> QED
  BY <1>1, <1>2, <1>3, <1>4, <1>5, <1>6, <1>7, <1>8, <1>9, <1>10, <1>11, <1>12, <1>13, <1>14
     DEF Step

LEMMA TimerFollowed == Types /\ EarnedInv /\ FollowInv /\ TimerStep => FollowInv'
<1> SUFFICES ASSUME Types, EarnedInv, FollowInv, TimerStep, task["timer"] # Idle PROVE FollowInv'
  BY DEF TimerStep, Ask, AskReconcile, Grace, Delay, Announce, At
<1>w. "timer" \in Slots
  BY DEF Slots
<1>r. task["timer"] \in Task /\ task["timer"].o \in Orders /\ Earned(task["timer"])
  BY <1>w, Running DEF Types, EarnedInv
<1>e. \A pc : task["timer"].pc = pc /\ pc \notin Confirming => ~Watching(task["timer"])
  BY DEF Watching
<1> USE DEF At, Unsold, rowVars, stockVars
<1>1. CASE Ask
  <2> DEFINE t == [task["timer"] EXCEPT !.op = "reconcile", !.pc = "reconcile"]
  <2>0. task["timer"].pc = "ask" /\ ~Watching(task["timer"])
    BY <1>1, <1>e DEF Ask, Confirming
  <2>1. t.pc = "reconcile"
    BY <1>r DEF Task
  <2>2. \/ Begin("timer", t) \/ Goto("timer", "grace") \/ Goto("timer", "check")
    BY <1>1 DEF Ask
  <2> HIDE DEF t
  <2>3. Followed(t)
    BY <2>1 DEF Followed
  <2>4. CASE Begin("timer", t)
    BY <1>1, <1>w, <2>0, <2>3, <2>4, UnpaidSame, FollowBegin DEF Ask
  <2>5. CASE Goto("timer", "grace")
    BY <1>1, <1>w, <2>0, <2>5, UnpaidSame, FollowGoto DEF Ask, Early, Steps
  <2>6. CASE Goto("timer", "check")
    <3> DEFINE u == [task["timer"] EXCEPT !.pc = "check"]
    <3>1. u.op = task["timer"].op /\ u.pc = "check"
      BY <1>r DEF Task
    <3>2. task["timer"].op = "timer"
      BY <1>r, <2>0 DEF Earned
    <3>3. task'["timer"] = u /\ \A x \in Slots \ {"timer"} : task'[x] = task[x]
      BY <1>w, <2>6, SlotChange
    <3> HIDE DEF u
    <3>4. Followed(u)
      BY <3>1, <3>2 DEF Followed, Settling
    <3> QED
      BY <1>1, <1>w, <2>0, <3>3, <3>4, UnpaidSame, FollowMove DEF Ask
  <2> QED
    BY <2>2, <2>4, <2>5, <2>6
<1>2. CASE AskReconcile
  <2> DEFINE p == task["timer"].o
  <2>0. task["timer"].pc = "reconcile" /\ ~Watching(task["timer"])
    BY <1>2, <1>e DEF AskReconcile, Confirming
  <2>1. status[p] = "paid" => Counted(p)
    BY <1>r DEF FollowInv, Sold, Refundable
  <2>2. Followed(Reconciliation("timer", p))
    BY <2>1 DEF Followed, Reconciliation, Handler
  <2>3. Begin("timer", Reconciliation("timer", p)) \/ Finish("timer")
    BY <1>2 DEF AskReconcile
  <2> HIDE DEF p
  <2> QED
    BY <1>2, <1>w, <2>0, <2>2, <2>3, UnpaidSame, FollowBegin, FollowFinish DEF AskReconcile
<1>3. CASE Grace
  BY <1>3, <1>w, <1>e, UnpaidSame, FollowGoto DEF Grace, Early, Steps, Confirming
<1>4. CASE Delay
  BY <1>4, <1>w, <1>e, UnpaidSame, FollowFinish DEF Delay, Confirming
<1>5. CASE Announce
  <2>0. task["timer"].pc = "announce" /\ ~Watching(task["timer"])
    BY <1>5, <1>e DEF Announce, Confirming
  <2>1. Gains
    BY <1>5 DEF Announce, Gains, Counted, CountedNext
  <2>2. task'["timer"] = Idle /\ \A x \in Slots \ {"timer"} : task'[x] = task[x]
    BY <1>5, <1>w, SlotChange DEF Announce
  <2>3. KeptUp
    BY <1>w, <2>0, <2>1, <2>2, PostsKept
  <2>4. \A x \in Slots : task'[x] = task[x] \/ task'[x] = Idle
    BY <2>2
  <2> QED
    BY <1>5, <2>3, <2>4, FollowFrame DEF Announce
<1> QED
  BY <1>1, <1>2, <1>3, <1>4, <1>5 DEF TimerStep

LEMMA NextFollowed ==
    Types /\ EarnedInv /\ FollowInv /\ [Next]_vars /\ faults' = 0 => FollowInv'
<1> SUFFICES ASSUME Types, EarnedInv, FollowInv, [Next]_vars, faults' = 0 PROVE FollowInv'
  OBVIOUS
<1>1. CASE \E w \in Workers, o \in Orders : Request(w, o)
  BY <1>1, RequestFollowed
<1>2. CASE \E w \in Workers, e \in Event : Deliver(w, e)
  BY <1>2, DeliverFollowed
<1>3. CASE \E o \in Orders : StartReconcile("sweep", o)
  BY <1>3, StartReconcileFollowed DEF Slots
<1>4. CASE \E o \in Orders, t \in Timers : Fire(o, t)
  BY <1>4, FireFollowed
<1>5. CASE \E w \in Slots : Step(w)
  BY <1>5, StepFollowed
<1>6. CASE TimerStep
  BY <1>6, TimerFollowed
<1>7. CASE Environment
  BY <1>7, EnvironmentFollowed
<1>8. CASE UNCHANGED vars
  BY <1>8, UnsoldGains, UnpaidSame, FollowStill DEF vars, Unsold
<1> QED
  BY <1>1, <1>2, <1>3, <1>4, <1>5, <1>6, <1>7, <1>8 DEF Next

LEMMA InitFollowed == Init => FollowInv
BY DEF Init, FollowInv, Sold, Refundable

LEMMA AlwaysFollowed == Spec => [](faults = 0 => FollowInv)
<1> DEFINE Inv == EarnedInv /\ (faults = 0 => FollowInv)
<1>1. Init => Inv
  BY InitEarned, InitFollowed
<1>2. Types /\ Types' /\ Inv /\ [Next]_vars => Inv'
  BY NextEarned, NextFollowed, FaultsGrow
<1>3. Inv => (faults = 0 => FollowInv)
  OBVIOUS
<1> QED
  BY <1>1, <1>2, <1>3, AlwaysTypes, PTL DEF Spec

(* A paid order's basket is spent: once nothing runs on an order that is    *)
(* paid, processing, shipped or delivered, its cart is completed, although  *)
(* a second settlement, the desk and the timer may have overwritten each    *)
(* other's status on the way.  Only a crash can leave the basket full.      *)
THEOREM BasketSpent == Spec => [](faults = 0 => PaidCartSpent)
<1>1. FollowInv => PaidCartSpent
  BY DEF FollowInv, PaidCartSpent, Spending, Quiet
<1> QED
  BY <1>1, AlwaysFollowed, PTL

(* Money is never silent: a PaymentIntent's success in the ledger, with no  *)
(* handler left on its order, has become a sale or an ATTENTION alert,      *)
(* whichever handlers raced for it.  Only a crash can lose it.              *)
THEOREM MoneyHeeded == Spec => [](faults = 0 => MoneyNoticed)
<1>1. FollowInv => MoneyNoticed
  <2> SUFFICES ASSUME FollowInv, NEW o \in Orders, NEW k \in Intents,
                      Succeeded(o, k) \in ledger, uses[o] = 0, Quiet(o)
               PROVE  <<"attention", o>> \in told
    BY DEF MoneyNoticed
  <2>1. Heeded(o) /\ ~Counted(o)
    BY DEF FollowInv, Counted
  <2> QED
    BY <2>1 DEF Heeded, Quiet, Watching
<1> QED
  BY <1>1, AlwaysFollowed, PTL

-----------------------------------------------------------------------------
(***************************************************************************)
(* What the handlers of an order would keep if they did not overlap: the   *)
(* promises that rest on a status still being what was read (the code      *)
(* takes no lock, and the runs that let handlers overlap break them).      *)
(* For every set of orders and requests, with crashes and errors at any    *)
(* step, handlers of different orders overlapping freely.                  *)
(*                                                                         *)
(* The argument.  A handler alone on its order finds the status it read:   *)
(* InStep says, for each step, what the order still is.  No other order's  *)
(* handler writes that row, so a step disturbs only its own order.         *)
(***************************************************************************)
-----------------------------------------------------------------------------

\* What the order of a handler still is when the handler takes its next step.
InStep(t) ==
    /\ t.pc = "ready" => status[t.o] = "draft"
    /\ t.pc = "readyNote" => status[t.o] = "awaiting_payment"
    /\ t.pc \in {"ledger", "apply"} => t.seen = status[t.o]
    /\ t.pc \in {"history", "restore"} => status[t.o] = "cancelled" /\ t.seen = "cancelled"
    /\ t.pc = "restore" => last[t.o] = "timeout"
    /\ t.pc = "attach" =>
          \/ t.seen = status[t.o] /\ status[t.o] # "cancelled"
          \/ t.seen # "draft" /\ status[t.o] = "awaiting_payment"
    /\ t.op \in Settling /\ t.pc = "check" /\ status[t.o] \in Cancellable =>
          t.to \in AllowedTransitions[status[t.o]]
    /\ t.op = "timer" /\ t.pc \in {"ask", "grace", "check", "apply"} =>
          status[t.o] \in Cancellable /\ t.to = "cancelled"
    /\ t.pc = "reconcile" => Payable(t.o) /\ t.op = "reconcile"

Apart == \A x, y \in Slots : x # y /\ task[x] # Idle /\ task[y] # Idle => task[x].o # task[y].o
Fresh(o) == status[o] # "pending" /\ (status[o] = "none" => hold[o] = "none")
SerialInv ==
    /\ Apart
    /\ \A x \in Slots : task[x] # Idle => InStep(task[x])
    /\ \A o \in Orders : Fresh(o)

(* The same, of the next state. *)
PayableNext(o) == pi'[o] \in Intents /\ HasMoneyNext(o, pi'[o])
InStepNext(t) ==
    /\ t.pc = "ready" => status'[t.o] = "draft"
    /\ t.pc = "readyNote" => status'[t.o] = "awaiting_payment"
    /\ t.pc \in {"ledger", "apply"} => t.seen = status'[t.o]
    /\ t.pc \in {"history", "restore"} => status'[t.o] = "cancelled" /\ t.seen = "cancelled"
    /\ t.pc = "restore" => last'[t.o] = "timeout"
    /\ t.pc = "attach" =>
          \/ t.seen = status'[t.o] /\ status'[t.o] # "cancelled"
          \/ t.seen # "draft" /\ status'[t.o] = "awaiting_payment"
    /\ t.op \in Settling /\ t.pc = "check" /\ status'[t.o] \in Cancellable =>
          t.to \in AllowedTransitions[status'[t.o]]
    /\ t.op = "timer" /\ t.pc \in {"ask", "grace", "check", "apply"} =>
          status'[t.o] \in Cancellable /\ t.to = "cancelled"
    /\ t.pc = "reconcile" => PayableNext(t.o) /\ t.op = "reconcile"
FreshNext(o) == status'[o] # "pending" /\ (status'[o] = "none" => hold'[o] = "none")

LEMMA SerialPrimed ==
    ASSUME \A x, y \in Slots : x # y /\ task'[x] # Idle /\ task'[y] # Idle
                                  => task'[x].o # task'[y].o,
           \A x \in Slots : task'[x] # Idle => InStepNext(task'[x]),
           \A o \in Orders : FreshNext(o)
    PROVE  SerialInv'
<1>1. Apart'
  BY DEF Apart
<1>2. (\A x \in Slots : task[x] # Idle => InStep(task[x]))'
  BY DEF InStep, InStepNext, Payable, PayableNext, HasMoney, HasMoneyNext
<1>3. (\A o \in Orders : Fresh(o))'
  BY DEF Fresh, FreshNext
<1> QED
  BY <1>1, <1>2, <1>3 DEF SerialInv

-----------------------------------------------------------------------------
(* Frames. *)

\* Nothing of the order p is written, but money may arrive.
Kept(p) ==
    /\ status'[p] = status[p] /\ last'[p] = last[p]
    /\ pi'[p] = pi[p] /\ hold'[p] = hold[p]
    /\ \A k \in Intents : HasMoney(p, k) => HasMoneyNext(p, k)

LEMMA InStepKept ==
    ASSUME NEW t, Kept(t.o), InStep(t)
    PROVE  InStepNext(t)
BY DEF Kept, InStep, InStepNext, Payable, PayableNext

\* No handler but that of w runs on o.
Alone(w, o) == \A x \in Slots \ {w} : task[x] # Idle => task[x].o # o

(* A step of one slot writes one order. *)
LEMMA SerialFrame ==
    ASSUME Types, SerialInv, NEW w \in Slots, NEW o \in Orders, NEW t, Alone(w, o),
           task'[w] = t, \A x \in Slots \ {w} : task'[x] = task[x],
           \A p \in Orders \ {o} : Kept(p), FreshNext(o),
           t = Idle \/ (t.o = o /\ InStepNext(t))
    PROVE  SerialInv'
<1>1. ASSUME NEW x \in Slots \ {w}, task'[x] # Idle
      PROVE  InStepNext(task'[x]) /\ task'[x] = task[x] /\ task[x].o # o
  <2>1. task'[x] = task[x] /\ task[x] # Idle
    BY <1>1
  <2>2. task[x].o \in Orders /\ InStep(task[x])
    BY <2>1, Running DEF Types, SerialInv
  <2>3. task[x].o # o
    BY <2>1 DEF Alone
  <2>4. Kept(task[x].o)
    BY <2>2, <2>3
  <2> QED
    BY <2>1, <2>2, <2>3, <2>4, InStepKept
<1>2. \A x, y \in Slots : x # y /\ task'[x] # Idle /\ task'[y] # Idle => task'[x].o # task'[y].o
  BY <1>1 DEF SerialInv, Apart
<1>3. \A x \in Slots : task'[x] # Idle => InStepNext(task'[x])
  BY <1>1
<1>4. ASSUME NEW p \in Orders \ {o} PROVE FreshNext(p)
  <2>1. Kept(p) /\ Fresh(p)
    BY DEF SerialInv
  <2> QED
    BY <2>1 DEF Kept, Fresh, FreshNext
<1> QED
  BY <1>2, <1>3, <1>4, SerialPrimed

(* No handler moves, and none of a written order runs. *)
LEMMA SerialStill ==
    ASSUME Types, SerialInv, task' = task,
           \A p \in Orders : Kept(p)
                             \/ (FreshNext(p) /\ \A x \in Slots : task[x] # Idle => task[x].o # p)
    PROVE  SerialInv'
<1>1. ASSUME NEW x \in Slots, task[x] # Idle PROVE InStepNext(task[x])
  <2>1. task[x].o \in Orders /\ InStep(task[x])
    BY <1>1, Running DEF Types, SerialInv
  <2>2. Kept(task[x].o)
    BY <1>1, <2>1
  <2> QED
    BY <2>1, <2>2, InStepKept
<1>2. ASSUME NEW p \in Orders PROVE FreshNext(p)
  BY DEF SerialInv, Kept, Fresh, FreshNext
<1> QED
  BY <1>1, <1>2, SerialPrimed DEF SerialInv, Apart

\* Nothing of any order is written but its hold.
Steady ==
    /\ UNCHANGED <<status, last, pi>>
    /\ \A p \in Orders, k \in Intents : HasMoney(p, k) => HasMoneyNext(p, k)

LEMMA SteadyKept == ASSUME Steady, NEW p \in Orders, hold'[p] = hold[p] PROVE Kept(p)
BY DEF Steady, Kept

LEMMA SteadyStill == ASSUME Types, SerialInv, Steady, UNCHANGED <<hold, task>> PROVE SerialInv'
BY SteadyKept, SerialStill

(* A handler alone on its order, whose step leaves the order as it is.      *)
LEMMA SteadyStep ==
    ASSUME Types, SerialInv, Steady, NEW w \in Slots, NEW o \in Orders, NEW t, Alone(w, o),
           task'[w] = t, \A x \in Slots \ {w} : task'[x] = task[x],
           \A p \in Orders \ {o} : hold'[p] = hold[p],
           hold'[o] = hold[o] \/ status[o] # "none",
           t = Idle \/ (t.o = o /\ InStep(t))
    PROVE  SerialInv'
<1>1. \A p \in Orders \ {o} : Kept(p)
  BY SteadyKept
<1>2. FreshNext(o)
  BY DEF Steady, SerialInv, Fresh, FreshNext
<1>3. t = Idle \/ (t.o = o /\ InStepNext(t))
  BY DEF Steady, InStep, InStepNext, Payable, PayableNext
<1> QED
  BY <1>1, <1>2, <1>3, SerialFrame

LEMMA SteadyBegin ==
    ASSUME Types, SerialInv, Steady, hold' = hold, NEW w \in Slots, NEW o \in Orders, NEW t,
           Alone(w, o), Begin(w, t), t.o = o, InStep(t)
    PROVE  SerialInv'
BY SlotChange, SteadyStep

LEMMA SteadyFinish ==
    ASSUME Types, SerialInv, Steady, hold' = hold, NEW w \in Slots, NEW o \in Orders,
           Alone(w, o), Finish(w)
    PROVE  SerialInv'
BY SlotChange, SteadyStep

LEMMA FreeAlone ==
    ASSUME Overlap = FALSE, NEW kind, NEW w, NEW o, Free(kind, w, o)
    PROVE  Alone(w, o)
BY DEF Free, Alone

LEMMA RunningAlone ==
    ASSUME SerialInv, NEW w \in Slots, task[w] # Idle
    PROVE  Alone(w, task[w].o)
BY DEF SerialInv, Apart, Alone

\* Steps before which nothing of the order need be known.
Blind == {"enqueue", "mint", "attachIntent", "extend", "confirm", "spend", "delay", "announce"}

LEMMA InStepBlind == ASSUME NEW t, t.pc \in Blind PROVE InStep(t)
BY DEF Blind, InStep

(* The fields of a handler that moves. *)
LEMMA MovedFields ==
    ASSUME NEW t \in Task, NEW pc
    PROVE  /\ [t EXCEPT !.pc = pc].pc = pc
           /\ [t EXCEPT !.pc = pc].op = t.op
           /\ [t EXCEPT !.pc = pc].o = t.o
           /\ [t EXCEPT !.pc = pc].to = t.to
           /\ [t EXCEPT !.pc = pc].seen = t.seen
           /\ [t EXCEPT !.pc = pc].job = t.job
           /\ [t EXCEPT !.pc = pc].ref = t.ref
BY DEF Task

-----------------------------------------------------------------------------
(* The steps. *)

LEMMA SteadyRest == UNCHANGED <<status, last, pi, stripe>> => Steady
BY DEF Steady, HasMoney, HasMoneyNext

LEMMA EnvironmentSerial == Types /\ EarnedInv /\ SerialInv /\ Environment => SerialInv'
<1> SUFFICES ASSUME Types, EarnedInv, SerialInv, Environment PROVE SerialInv'
  OBVIOUS
<1> USE DEF rowVars, holdVars, moneyVars
<1>1. ASSUME NEW o \in Orders, NEW k \in Intents, StripeProcess(o, k) PROVE SerialInv'
  <2>1. Steady
    BY <1>1 DEF StripeProcess, Steady, HasMoney, HasMoneyNext, Types, TypeOK
  <2> QED
    BY <1>1, <2>1, SteadyStill DEF StripeProcess
<1>2. ASSUME NEW o \in Orders, NEW k \in Intents, StripeSucceed(o, k) PROVE SerialInv'
  <2>1. Steady
    BY <1>2 DEF StripeSucceed, Steady, HasMoney, HasMoneyNext, Types, TypeOK
  <2> QED
    BY <1>2, <2>1, SteadyStill DEF StripeSucceed
<1>3. ASSUME NEW o \in Orders, NEW k \in Intents, StripeFail(o, k) PROVE SerialInv'
  <2>1. Steady
    BY <1>3 DEF StripeFail, Steady, HasMoney, HasMoneyNext, Types, TypeOK
  <2> QED
    BY <1>3, <2>1, SteadyStill DEF StripeFail
<1>4. ASSUME NEW o \in Orders, NEW k \in Intents, StripeCancel(o, k) PROVE SerialInv'
  <2>1. Steady
    BY <1>4 DEF StripeCancel, Steady, HasMoney, HasMoneyNext, Types, TypeOK
  <2> QED
    BY <1>4, <2>1, SteadyStill DEF StripeCancel
<1>5. ASSUME NEW o \in Orders, NEW k \in Intents, StripeRefund(o, k) PROVE SerialInv'
  <2>1. Steady
    BY <1>5 DEF StripeRefund, Steady, HasMoney, HasMoneyNext, Types, TypeOK
  <2> QED
    BY <1>5, <2>1, SteadyStill DEF StripeRefund
<1>6. ASSUME NEW o \in Orders, Lapse(o) PROVE SerialInv'
  BY <1>6, SteadyRest, SteadyStill DEF Lapse
<1>7. ASSUME NEW o \in Orders, CreateFromCart(o) PROVE SerialInv'
  <2>1. \A p \in Orders \ {o} : Kept(p)
    BY <1>7 DEF CreateFromCart, Kept, HasMoney, HasMoneyNext, Types, TypeOK
  <2>2. FreshNext(o)
    BY <1>7 DEF CreateFromCart, FreshNext, Types, TypeOK
  <2>3. \A x \in Slots : task[x] # Idle => task[x].o # o
    BY <1>7 DEF CreateFromCart, EarnedInv, Earned
  <2> QED
    BY <1>7, <2>1, <2>2, <2>3, SerialStill DEF CreateFromCart
<1>8. ASSUME NEW w \in Slots, Fault(w) PROVE SerialInv'
  <2>1. Alone(w, task[w].o) /\ task[w].o \in Orders /\ Finish(w)
    BY <1>8, RunningAlone, Running DEF Fault, Types
  <2> QED
    BY <1>8, <2>1, SteadyRest, SteadyFinish DEF Fault
<1>9. ASSUME NEW v \in Variants, NEW d \in Deltas, Adjust(v, d) PROVE SerialInv'
  BY <1>9, SteadyRest, SteadyStill DEF Adjust
<1> QED
  BY <1>1, <1>2, <1>3, <1>4, <1>5, <1>6, <1>7, <1>8, <1>9 DEF Environment

LEMMA StartReconcileSerial ==
    ASSUME Overlap = FALSE, Types, SerialInv,
           NEW w \in Slots, NEW o \in Orders, StartReconcile(w, o)
    PROVE  SerialInv'
<1>1. InStep(Reconciliation(w, o)) /\ Reconciliation(w, o).o = o
  BY DEF InStep, Reconciliation, Handler
<1>2. Alone(w, o)
  BY FreeAlone DEF StartReconcile
<1> QED
  BY <1>1, <1>2, SteadyRest, SteadyBegin DEF StartReconcile, rowVars, holdVars, moneyVars

LEMMA RequestSerial ==
    ASSUME Overlap = FALSE, NEW w \in Workers, NEW o \in Orders
    PROVE  Types /\ SerialInv /\ Request(w, o) => SerialInv'
<1> SUFFICES ASSUME Types, SerialInv, Request(w, o) PROVE SerialInv'
  OBVIOUS
<1>w. w \in Slots
  BY DEF Slots
<1> USE DEF rowVars, holdVars, moneyVars
<1>1. ASSUME Initiate(w, o) PROVE SerialInv'
  <2> DEFINE t == [Handler("initiate", o, "enqueue") EXCEPT !.job = "base"]
  <2>1. t.pc = "enqueue" /\ t.o = o
    BY DEF Handler
  <2>2. Begin(w, t) /\ Alone(w, o)
    BY <1>1, FreeAlone DEF Initiate
  <2> HIDE DEF t
  <2>3. task'[w] = t /\ \A x \in Slots \ {w} : task'[x] = task[x]
    BY <1>w, <2>2, SlotChange
  <2>4. \A p \in Orders \ {o} : Kept(p)
    BY <1>1 DEF Initiate, Kept, HasMoney, HasMoneyNext, Types, TypeOK
  <2>5. FreshNext(o)
    BY <1>1 DEF Initiate, FreshNext, Types, TypeOK
  <2>6. InStepNext(t)
    BY <2>1 DEF InStepNext
  <2> QED
    BY <1>w, <2>1, <2>2, <2>3, <2>4, <2>5, <2>6, SerialFrame
<1>2. ASSUME Rebuild(w, o) PROVE SerialInv'
  <2> DEFINE t == [Handler("rebuild", o, "check") EXCEPT !.to = "cancelled"]
  <2>1. InStep(t) /\ t.o = o
    BY DEF InStep, Handler, Settling
  <2>2. Begin(w, t) /\ Alone(w, o)
    BY <1>2, FreeAlone DEF Rebuild
  <2> HIDE DEF t
  <2> QED
    BY <1>2, <1>w, <2>1, <2>2, SteadyRest, SteadyBegin DEF Rebuild
<1>3. ASSUME StartReady(w, o) PROVE SerialInv'
  <2> DEFINE t == Handler("ready", o, "ready")
  <2>1. InStep(t) /\ t.o = o
    BY <1>3 DEF StartReady, InStep, Handler, Settling
  <2>2. Begin(w, t) /\ Alone(w, o)
    BY <1>3, FreeAlone DEF StartReady
  <2> HIDE DEF t
  <2> QED
    BY <1>3, <1>w, <2>1, <2>2, SteadyRest, SteadyBegin DEF StartReady
<1>4. ASSUME StartIntent(w, o) PROVE SerialInv'
  <2> DEFINE t == [Handler("intent", o, "mint") EXCEPT !.ref = pi[o] + 1]
  <2>1. InStep(t) /\ t.o = o
    BY DEF InStep, Handler, Settling
  <2>2. Begin(w, t) /\ Alone(w, o)
    BY <1>4, FreeAlone DEF StartIntent
  <2> HIDE DEF t
  <2> QED
    BY <1>4, <1>w, <2>1, <2>2, SteadyRest, SteadyBegin DEF StartIntent
<1>5. ASSUME ReuseIntent(w, o) PROVE SerialInv'
  <2>1. Steady
    BY <1>5 DEF ReuseIntent, Shown, Steady, HasMoney, HasMoneyNext, Types, TypeOK
  <2> QED
    BY <1>5, <2>1, SteadyStill DEF ReuseIntent
<1>6. ASSUME StartReconcile(w, o) PROVE SerialInv'
  BY <1>6, <1>w, StartReconcileSerial
<1>7. ASSUME StartManual(w, o) PROVE SerialInv'
  <2> DEFINE t == [Handler("manual", o, "confirm")
                     EXCEPT !.ref = IF pi[o] = NoIntent THEN Manual ELSE pi[o]]
  <2>1. InStep(t) /\ t.o = o
    BY DEF InStep, Handler, Settling
  <2>2. Begin(w, t) /\ Alone(w, o)
    BY <1>7, FreeAlone DEF StartManual
  <2> HIDE DEF t
  <2> QED
    BY <1>7, <1>w, <2>1, <2>2, SteadyRest, SteadyBegin DEF StartManual
<1>8. ASSUME NEW s \in Statuses, StartAdmin(w, o, s) PROVE SerialInv'
  <2> DEFINE t == [Handler("admin", o, "check") EXCEPT !.to = s]
  <2>1. InStep(t) /\ t.o = o
    BY DEF InStep, Handler, Settling
  <2>2. Begin(w, t) /\ Alone(w, o)
    BY <1>8, FreeAlone DEF StartAdmin
  <2> HIDE DEF t
  <2> QED
    BY <1>8, <1>w, <2>1, <2>2, SteadyRest, SteadyBegin DEF StartAdmin
<1> QED
  BY <1>1, <1>2, <1>3, <1>4, <1>5, <1>6, <1>7, <1>8 DEF Request

LEMMA DeliverSerial ==
    ASSUME Overlap = FALSE, NEW w \in Workers, NEW e \in Event
    PROVE  Types /\ SerialInv /\ Deliver(w, e) => SerialInv'
<1> SUFFICES ASSUME Types, SerialInv, Deliver(w, e) PROVE SerialInv'
  OBVIOUS
<1> DEFINE t == [Handler(e.type, e.o, "ledger")
                   EXCEPT !.seen = status[e.o], !.ref = e.k, !.ev = e]
<1>1. task' = task \/ Begin(w, t)
  BY DEF Deliver
<1>2. Alone(w, e.o) /\ e.o \in Orders /\ w \in Slots
  BY FreeAlone DEF Deliver, Event, Slots
<1>3. InStep(t) /\ t.o = e.o
  <2>1. t.o = e.o /\ t.pc = "ledger" /\ t.seen = status[e.o]
    BY DEF Handler
  <2> HIDE DEF t
  <2> QED
    BY <2>1 DEF InStep
<1> HIDE DEF t
<1> QED
  BY <1>1, <1>2, <1>3, SteadyRest, SteadyBegin, SteadyStill
     DEF Deliver, rowVars, holdVars

LEMMA FireSerial ==
    ASSUME Overlap = FALSE, NEW o \in Orders, NEW j \in Timers
    PROVE  Types /\ SerialInv /\ Fire(o, j) => SerialInv'
<1> SUFFICES ASSUME Types, SerialInv, Fire(o, j) PROVE SerialInv'
  OBVIOUS
<1> DEFINE t == [Handler("timer", o, IF pi[o] = NoIntent THEN "check" ELSE "ask")
                   EXCEPT !.to = "cancelled", !.job = j]
<1>1. task' = task \/ (Begin("timer", t) /\ status[o] \in Cancellable)
  BY DEF Fire, StepsAside
<1>2. Alone("timer", o) /\ "timer" \in Slots
  BY FreeAlone DEF Fire, Slots
<1>3. status[o] \in Cancellable => InStep(t)
  BY DEF InStep, Handler, Settling
<1>4. t.o = o
  BY DEF Handler
<1> HIDE DEF t
<1> QED
  BY <1>1, <1>2, <1>3, <1>4, SteadyRest, SteadyBegin, SteadyStill
     DEF Fire, rowVars, holdVars, moneyVars

LEMMA OthersKept ==
    ASSUME Types, NEW o \in Orders, NEW s, NEW n, NEW k,
           status' = status \/ status' = [status EXCEPT ![o] = s],
           last' = last \/ last' = [last EXCEPT ![o] = n],
           pi' = pi \/ pi' = [pi EXCEPT ![o] = k],
           UNCHANGED <<hold, stripe>>
    PROVE  \A p \in Orders \ {o} : Kept(p)
BY DEF Types, TypeOK, Kept, HasMoney, HasMoneyNext

(* A handler writes its order and moves on, or ends. *)
LEMMA WritingStep ==
    ASSUME Types, SerialInv, NEW w \in Slots, NEW o \in Orders, NEW t, Alone(w, o),
           (Begin(w, t) /\ t.o = o /\ InStepNext(t)) \/ Finish(w),
           \A p \in Orders \ {o} : Kept(p), FreshNext(o)
    PROVE  SerialInv'
<1>1. CASE Begin(w, t) /\ t.o = o /\ InStepNext(t)
  BY <1>1, SlotChange, SerialFrame
<1>2. CASE Finish(w)
  <2>1. task'[w] = Idle /\ \A x \in Slots \ {w} : task'[x] = task[x]
    BY <1>2, SlotChange
  <2> QED
    BY <2>1, SerialFrame
<1> QED
  BY <1>1, <1>2

LEMMA StepSerial ==
    ASSUME NEW w \in Slots
    PROVE  Types /\ EarnedInv /\ SerialInv /\ Step(w) => SerialInv'
<1> SUFFICES ASSUME Types, EarnedInv, SerialInv, Step(w), task[w] # Idle PROVE SerialInv'
  BY DEF Step, Ready, ReadyNote, Mint, AttachIntent, Extend, Enqueue, Ledger,
         Confirm, History, Restore, Attach, Spend, Check, Apply, At
<1>r. /\ task[w] \in Task
      /\ task[w].o \in Orders
      /\ Earned(task[w])
      /\ InStep(task[w])
      /\ Alone(w, task[w].o)
  BY Running, RunningAlone DEF Types, EarnedInv, SerialInv
<1>n. /\ status[task[w].o] \in Statuses \ {"pending"} /\ status[task[w].o] # "none"
      /\ status \in [Orders -> Statuses \cup {"none"}]
      /\ last \in [Orders -> {"timeout", "other"}]
      /\ pi \in [Orders -> 0 .. MaxIntents + 1]
  BY <1>r DEF Earned, SerialInv, Fresh, Types, TypeOK
<1>f. SettleFailed(w) => Finish(w)
  BY DEF SettleFailed
<1> USE DEF At, rowVars, holdVars, moneyVars
<1>1. CASE Ready(w)
  <2> DEFINE t == [task[w] EXCEPT !.pc = "readyNote"]
  <2>1. t.pc = "readyNote" /\ t.o = task[w].o
    BY <1>r, MovedFields
  <2>2. Begin(w, t) /\ status' = [status EXCEPT ![task[w].o] = "awaiting_payment"]
    BY <1>1 DEF Ready, Goto, Begin
  <2> HIDE DEF t
  <2>3. status'[task[w].o] = "awaiting_payment"
    BY <1>n, <1>r, <2>2
  <2>4. InStepNext(t)
    BY <2>1, <2>3 DEF InStepNext
  <2>5. \A p \in Orders \ {task[w].o} : Kept(p)
    BY <1>1, <1>r, <2>2, OthersKept DEF Ready
  <2>6. FreshNext(task[w].o)
    BY <2>3 DEF FreshNext
  <2> QED
    BY <1>r, <2>1, <2>2, <2>4, <2>5, <2>6, WritingStep
<1>2. CASE ReadyNote(w)
  <2>1. \A p \in Orders \ {task[w].o} : Kept(p)
    BY <1>2, <1>r, OthersKept DEF ReadyNote
  <2>2. FreshNext(task[w].o)
    BY <1>2, <1>n DEF ReadyNote, FreshNext
  <2> QED
    BY <1>2, <1>r, <2>1, <2>2, WritingStep DEF ReadyNote
<1>3. CASE Mint(w)
  <2> DEFINE t == [task[w] EXCEPT !.pc = "attachIntent"]
  <2>1. t.pc = "attachIntent" /\ t.o = task[w].o
    BY <1>r, MovedFields
  <2>2. Begin(w, t)
    BY <1>3 DEF Mint, Goto, Begin
  <2> HIDE DEF t
  <2>3. InStep(t)
    BY <2>1, InStepBlind DEF Blind
  <2>4. Steady
    BY <1>3, <1>r DEF Mint, Steady, HasMoney, HasMoneyNext, Types, TypeOK
  <2> QED
    BY <1>3, <1>r, <2>1, <2>2, <2>3, <2>4, SteadyBegin DEF Mint
<1>4. CASE AttachIntent(w)
  <2> DEFINE t == [task[w] EXCEPT !.pc = "extend", !.job = "intent"]
  <2>1. t.pc = "extend" /\ t.o = task[w].o
    BY <1>r DEF Task
  <2>2. Begin(w, t)
    BY <1>4 DEF AttachIntent
  <2> HIDE DEF t
  <2>3. InStepNext(t)
    BY <2>1 DEF InStepNext
  <2>4. \A p \in Orders \ {task[w].o} : Kept(p)
    BY <1>4, <1>r, OthersKept DEF AttachIntent
  <2>5. FreshNext(task[w].o)
    BY <1>4, <1>n DEF AttachIntent, FreshNext
  <2> QED
    BY <1>r, <2>1, <2>2, <2>3, <2>4, <2>5, WritingStep
<1>5. CASE Extend(w)
  <2> DEFINE t == [task[w] EXCEPT !.pc = "enqueue"]
  <2>1. t.pc = "enqueue" /\ t.o = task[w].o
    BY <1>r, MovedFields
  <2>2. task'[w] = t /\ \A x \in Slots \ {w} : task'[x] = task[x]
    BY <1>5, SlotChange DEF Extend
  <2> HIDE DEF t
  <2>3. InStep(t)
    BY <2>1, InStepBlind DEF Blind
  <2>4. \A p \in Orders \ {task[w].o} : hold'[p] = hold[p]
    BY <1>5, <1>r DEF Extend, Types, TypeOK
  <2> QED
    BY <1>5, <1>r, <1>n, <2>1, <2>2, <2>3, <2>4, SteadyRest, SteadyStep DEF Extend
<1>6. CASE Enqueue(w)
  <2>1. Steady
    BY <1>6, <1>r DEF Enqueue, Shown, Steady, HasMoney, HasMoneyNext, Types, TypeOK
  <2> QED
    BY <1>6, <1>r, <2>1, SteadyFinish DEF Enqueue
<1>7. CASE Ledger(w)
  <2> DEFINE confirming == [task[w] EXCEPT !.pc = "confirm", !.seen = "none", !.ev = Idle]
             extending  == [Handler("failed", task[w].o, "extend") EXCEPT !.job = "retry"]
             refunding  == [Handler("refunded", task[w].o, "check") EXCEPT !.to = "refunded"]
  <2>1. Begin(w, confirming) \/ Begin(w, extending) \/ Begin(w, refunding) \/ Finish(w)
    BY <1>7 DEF Ledger
  <2>2. /\ confirming.pc = "confirm" /\ confirming.o = task[w].o
        /\ extending.pc = "extend" /\ extending.o = task[w].o
    BY <1>r DEF Task, Handler
  <2>3. refunding.o = task[w].o /\ InStep(refunding)
    BY DEF Handler, InStep, Settling
  <2> HIDE DEF confirming, extending, refunding
  <2>4. InStep(confirming) /\ InStep(extending)
    BY <2>2, InStepBlind DEF Blind
  <2> QED
    BY <1>7, <1>r, <2>1, <2>2, <2>3, <2>4, SteadyRest, SteadyBegin, SteadyFinish DEF Ledger
<1>8. CASE Confirm(w)
  <2> DEFINE pc == IF status[task[w].o] = "cancelled" THEN "history" ELSE "attach"
             t == [task[w] EXCEPT !.seen = status[task[w].o], !.pc = pc]
  <2>1. Begin(w, t) \/ Finish(w)
    BY <1>8 DEF Confirm
  <2>2. \/ pc = "history" /\ status[task[w].o] = "cancelled"
        \/ pc = "attach" /\ status[task[w].o] # "cancelled"
    OBVIOUS
  <2> HIDE DEF pc
  <2>3. t.pc = pc /\ t.o = task[w].o /\ t.seen = status[task[w].o]
    BY <1>r DEF Task
  <2> HIDE DEF t
  <2>4. InStep(t)
    BY <2>2, <2>3 DEF InStep
  <2> QED
    BY <1>8, <1>r, <2>1, <2>3, <2>4, SteadyRest, SteadyBegin, SteadyFinish DEF Confirm
<1>9. CASE History(w)
  <2> DEFINE t == [task[w] EXCEPT !.pc = "restore"]
  <2>1. t.pc = "restore" /\ t.o = task[w].o /\ t.seen = task[w].seen
    BY <1>r, MovedFields
  <2>2. (last[task[w].o] = "timeout" /\ Begin(w, t)) \/ Finish(w)
    BY <1>9, <1>f DEF History, Goto, Begin
  <2> HIDE DEF t
  <2>3. status[task[w].o] = "cancelled" /\ task[w].seen = "cancelled"
    BY <1>9, <1>r DEF History, InStep
  <2>4. last[task[w].o] = "timeout" => InStep(t)
    BY <2>1, <2>3 DEF InStep
  <2> QED
    BY <1>9, <1>r, <2>1, <2>2, <2>4, SteadyRest, SteadyBegin, SteadyFinish DEF History
<1>10. CASE Restore(w)
  <2>1. CASE CanReserve(stock, Lines[task[w].o])
    <3> DEFINE t == [task[w] EXCEPT !.pc = "attach"]
    <3>1. t.pc = "attach" /\ t.o = task[w].o /\ t.seen = task[w].seen
      BY <1>r, MovedFields
    <3>2. /\ Begin(w, t) /\ status' = [status EXCEPT ![task[w].o] = "awaiting_payment"]
          /\ last' = [last EXCEPT ![task[w].o] = "other"]
      BY <1>10, <2>1 DEF Restore, Goto, Begin
    <3> HIDE DEF t
    <3>3. status'[task[w].o] = "awaiting_payment"
      BY <1>n, <1>r, <3>2
    <3>4. task[w].seen = "cancelled"
      BY <1>10, <1>r DEF Restore, InStep
    <3>5. InStepNext(t)
      BY <3>1, <3>3, <3>4 DEF InStepNext
    <3>6. \A p \in Orders \ {task[w].o} : Kept(p)
      BY <1>10, <1>r, <3>2, OthersKept DEF Restore
    <3>7. FreshNext(task[w].o)
      BY <3>3 DEF FreshNext
    <3> QED
      BY <1>r, <3>1, <3>2, <3>5, <3>6, <3>7, WritingStep
  <2>2. CASE ~CanReserve(stock, Lines[task[w].o])
    BY <1>10, <1>f, <1>r, <2>2, SteadyRest, SteadyFinish DEF Restore
  <2> QED
    BY <2>1, <2>2
<1>11. CASE Attach(w)
  <2> DEFINE to == IF task[w].seen = "draft" THEN "awaiting_payment" ELSE "paid"
             t == [task[w] EXCEPT !.pc = "check", !.seen = "none", !.to = to]
  <2>1. Begin(w, t) /\ pi' = [pi EXCEPT ![task[w].o] = task[w].ref]
    BY <1>11 DEF Attach
  <2>2. to = IF task[w].seen = "draft" THEN "awaiting_payment" ELSE "paid"
    OBVIOUS
  <2> HIDE DEF to
  <2>3. t.pc = "check" /\ t.o = task[w].o /\ t.op = task[w].op /\ t.to = to
    BY <1>r DEF Task
  <2> HIDE DEF t
  <2>4. task[w].op \in Settling /\ task[w].op # "timer"
    BY <1>11, <1>r DEF Attach, Earned, Settling
  <2>5. \/ task[w].seen = status[task[w].o]
        \/ task[w].seen # "draft" /\ status[task[w].o] = "awaiting_payment"
    BY <1>11, <1>r DEF Attach, InStep
  <2>6. status[task[w].o] \in Cancellable => to \in AllowedTransitions[status[task[w].o]]
    BY <2>2, <2>5 DEF Cancellable, AllowedTransitions
  <2>7. status'[task[w].o] = status[task[w].o]
    BY <1>11 DEF Attach
  <2>8. InStepNext(t)
    BY <2>3, <2>4, <2>6, <2>7 DEF InStepNext
  <2>9. \A p \in Orders \ {task[w].o} : Kept(p)
    BY <1>11, <1>r, <2>1, OthersKept DEF Attach
  <2>10. FreshNext(task[w].o)
    BY <1>n, <2>7 DEF FreshNext
  <2> QED
    BY <1>r, <2>1, <2>3, <2>8, <2>9, <2>10, WritingStep
<1>12. CASE Spend(w)
  BY <1>12, <1>r, SteadyRest, SteadyFinish DEF Spend
<1>13. CASE Check(w)
  <2> DEFINE t == [task[w] EXCEPT !.pc = "apply", !.seen = status[task[w].o]]
  <2>1. Begin(w, t) \/ Finish(w)
    BY <1>13, <1>f DEF Check
  <2>2. /\ t.o = task[w].o /\ t.op = task[w].op /\ t.to = task[w].to
        /\ t.pc = "apply" /\ t.seen = status[task[w].o]
    BY <1>r DEF Task
  <2> HIDE DEF t
  <2>3. task[w].op = "timer" => status[task[w].o] \in Cancellable /\ task[w].to = "cancelled"
    BY <1>13, <1>r DEF Check, InStep
  <2>4. InStep(t)
    BY <2>2, <2>3 DEF InStep
  <2> QED
    BY <1>13, <1>r, <2>1, <2>2, <2>4, SteadyRest, SteadyBegin, SteadyFinish DEF Check
<1>14. CASE Apply(w)
  <2> DEFINE paying    == [task[w] EXCEPT !.pc = "check", !.to = "paid", !.seen = "none"]
             spending  == [task[w] EXCEPT !.pc = "spend", !.seen = "none"]
             announced == [task[w] EXCEPT !.pc = "announce", !.seen = "none"]
  <2>1. \/ task[w].op \in Settling /\ task[w].to = "awaiting_payment" /\ Begin(w, paying)
        \/ Begin(w, spending) \/ Begin(w, announced) \/ Finish(w)
    BY <1>14 DEF Apply
  <2>2. /\ paying.pc = "check" /\ paying.o = task[w].o /\ paying.to = "paid"
        /\ paying.op = task[w].op
        /\ spending.pc = "spend" /\ spending.o = task[w].o
        /\ announced.pc = "announce" /\ announced.o = task[w].o
    BY <1>r DEF Task
  <2> HIDE DEF paying, spending, announced
  <2>3. /\ status' = [status EXCEPT ![task[w].o] = task[w].to]
        /\ last' = [last EXCEPT ![task[w].o] = IF task[w].op = "timer" THEN "timeout" ELSE "other"]
    BY <1>14 DEF Apply
  <2>4. status'[task[w].o] = task[w].to
    BY <1>n, <1>r, <2>3
  <2>5. task[w].to \in Statuses /\ task[w].to # "pending"
    <3>1. task[w].seen \in Statuses /\ task[w].to \in AllowedTransitions[task[w].seen]
      BY <1>14, <1>r DEF Apply, Earned
    <3> QED
      BY <3>1 DEF Statuses, AllowedTransitions
  <2>6. InStepNext(spending) /\ InStepNext(announced)
    BY <2>2 DEF InStepNext
  <2>7. ASSUME task[w].op \in Settling, task[w].to = "awaiting_payment"
        PROVE  InStepNext(paying)
    <3>1. "paid" \in AllowedTransitions["awaiting_payment"]
      BY DEF AllowedTransitions
    <3>2. task[w].op # "timer"
      BY <2>7 DEF Settling
    <3> QED
      BY <2>2, <2>4, <2>7, <3>1, <3>2 DEF InStepNext
  <2>8. \A p \in Orders \ {task[w].o} : Kept(p)
    BY <1>14, <1>r, <2>3, OthersKept DEF Apply
  <2>9. FreshNext(task[w].o)
    BY <2>4, <2>5 DEF FreshNext, Statuses
  <2> QED
    BY <1>r, <2>1, <2>2, <2>6, <2>7, <2>8, <2>9, WritingStep
<1> QED
  BY <1>1, <1>2, <1>3, <1>4, <1>5, <1>6, <1>7, <1>8, <1>9, <1>10, <1>11, <1>12, <1>13, <1>14
     DEF Step

LEMMA TimerSerial == Types /\ EarnedInv /\ SerialInv /\ TimerStep => SerialInv'
<1> SUFFICES ASSUME Types, EarnedInv, SerialInv, TimerStep, task["timer"] # Idle PROVE SerialInv'
  BY DEF TimerStep, Ask, AskReconcile, Grace, Delay, Announce, At
<1>w. "timer" \in Slots
  BY DEF Slots
<1>r. /\ task["timer"] \in Task /\ task["timer"].o \in Orders
      /\ Earned(task["timer"]) /\ InStep(task["timer"])
      /\ Alone("timer", task["timer"].o)
  BY <1>w, Running, RunningAlone DEF Types, EarnedInv, SerialInv
<1> USE DEF At, rowVars, holdVars, moneyVars
<1>1. CASE Ask
  <2> DEFINE t == [task["timer"] EXCEPT !.op = "reconcile", !.pc = "reconcile"]
             g == [task["timer"] EXCEPT !.pc = "grace"]
             c == [task["timer"] EXCEPT !.pc = "check"]
  <2>1. \/ Payable(task["timer"].o) /\ Begin("timer", t)
        \/ Begin("timer", g)
        \/ Begin("timer", c)
    BY <1>1 DEF Ask, Goto, Begin
  <2>2. t.op = "reconcile" /\ t.pc = "reconcile" /\ t.o = task["timer"].o
    BY <1>r DEF Task
  <2>3. /\ g.pc = "grace" /\ g.op = task["timer"].op
        /\ g.o = task["timer"].o /\ g.to = task["timer"].to
    BY <1>r, MovedFields
  <2>4. /\ c.pc = "check" /\ c.op = task["timer"].op
        /\ c.o = task["timer"].o /\ c.to = task["timer"].to
    BY <1>r, MovedFields
  <2>5. task["timer"].op = "timer" /\ task["timer"].pc = "ask"
    BY <1>1, <1>r DEF Ask, Earned
  <2>6. status[task["timer"].o] \in Cancellable /\ task["timer"].to = "cancelled"
    BY <1>r, <2>5 DEF InStep
  <2> HIDE DEF t, g, c
  <2>7. Payable(task["timer"].o) => InStep(t)
    BY <2>2 DEF InStep
  <2>8. InStep(g) /\ InStep(c)
    BY <2>3, <2>4, <2>5, <2>6 DEF InStep, Settling
  <2> QED
    BY <1>1, <1>w, <1>r, <2>1, <2>2, <2>3, <2>4, <2>7, <2>8, SteadyRest, SteadyBegin DEF Ask
<1>2. CASE AskReconcile
  <2> DEFINE p == task["timer"].o
  <2>1. InStep(Reconciliation("timer", p)) /\ Reconciliation("timer", p).o = p
    BY DEF InStep, Reconciliation, Handler
  <2>2. Begin("timer", Reconciliation("timer", p)) \/ Finish("timer")
    BY <1>2 DEF AskReconcile
  <2> HIDE DEF p
  <2>3. p = task["timer"].o
    BY DEF p
  <2> QED
    BY <1>2, <1>w, <1>r, <2>1, <2>2, <2>3, SteadyRest, SteadyBegin, SteadyFinish DEF AskReconcile
<1>3. CASE Grace
  <2> DEFINE t == [task["timer"] EXCEPT !.pc = "delay"]
  <2>1. t.pc = "delay" /\ t.o = task["timer"].o
    BY <1>r, MovedFields
  <2>2. task'["timer"] = t /\ \A x \in Slots \ {"timer"} : task'[x] = task[x]
    BY <1>3, <1>w, SlotChange DEF Grace
  <2> HIDE DEF t
  <2>3. InStep(t)
    BY <2>1, InStepBlind DEF Blind
  <2>4. \A q \in Orders \ {task["timer"].o} : hold'[q] = hold[q]
    BY <1>3, <1>r DEF Grace, Types, TypeOK
  <2>5. status[task["timer"].o] # "none"
    BY <1>r DEF Earned
  <2> QED
    BY <1>3, <1>w, <1>r, <2>1, <2>2, <2>3, <2>4, <2>5, SteadyRest, SteadyStep DEF Grace
<1>4. CASE Delay
  BY <1>4, <1>w, <1>r, SteadyRest, SteadyFinish DEF Delay
<1>5. CASE Announce
  BY <1>5, <1>w, <1>r, SteadyRest, SteadyFinish DEF Announce
<1> QED
  BY <1>1, <1>2, <1>3, <1>4, <1>5 DEF TimerStep

LEMMA NextSerial ==
    ASSUME Overlap = FALSE
    PROVE  Types /\ EarnedInv /\ SerialInv /\ [Next]_vars => SerialInv'
<1> SUFFICES ASSUME Types, EarnedInv, SerialInv, [Next]_vars PROVE SerialInv'
  OBVIOUS
<1>1. CASE \E w \in Workers, o \in Orders : Request(w, o)
  BY <1>1, RequestSerial
<1>2. CASE \E w \in Workers, e \in Event : Deliver(w, e)
  BY <1>2, DeliverSerial
<1>3. CASE \E o \in Orders : StartReconcile("sweep", o)
  BY <1>3, StartReconcileSerial DEF Slots
<1>4. CASE \E o \in Orders, t \in Timers : Fire(o, t)
  BY <1>4, FireSerial
<1>5. CASE \E w \in Slots : Step(w)
  BY <1>5, StepSerial
<1>6. CASE TimerStep
  BY <1>6, TimerSerial
<1>7. CASE Environment
  BY <1>7, EnvironmentSerial
<1>8. CASE UNCHANGED vars
  BY <1>8, SteadyRest, SteadyStill DEF vars
<1> QED
  BY <1>1, <1>2, <1>3, <1>4, <1>5, <1>6, <1>7, <1>8 DEF Next

LEMMA InitSerial == Init => SerialInv
BY DEF Init, SerialInv, Apart, Fresh

LEMMA AlwaysSerial ==
    ASSUME Overlap = FALSE
    PROVE  Spec => [](Types /\ EarnedInv /\ SerialInv)
<1>1. Init => EarnedInv /\ SerialInv
  BY InitEarned, InitSerial
<1>2. Types /\ Types' /\ EarnedInv /\ SerialInv /\ [Next]_vars => EarnedInv' /\ SerialInv'
  BY NextEarned, NextSerial
<1> QED
  BY <1>1, <1>2, AlwaysTypes, PTL DEF Spec

-----------------------------------------------------------------------------
(* What the timer cancels. *)

LEMMA LastWritten ==
    ASSUME Types, EarnedInv, SerialInv, [Next]_vars, NEW o \in Orders,
           last[o] # "timeout", last'[o] = "timeout"
    PROVE  status[o] \in Cancellable
<1>1. PICK w \in Slots : Apply(w)
  <2>1. ASSUME NEW w \in Slots, Step(w), ~Apply(w) PROVE FALSE
    BY <2>1 DEF Step, Ready, ReadyNote, Mint, AttachIntent, Extend, Enqueue, Ledger,
       Confirm, History, Restore, Attach, Spend, Check, rowVars, Types, TypeOK
  <2>2. ~TimerStep
    BY DEF TimerStep, Ask, AskReconcile, Grace, Delay, Announce, rowVars
  <2>3. ~Environment
    BY DEF Environment, StripeProcess, StripeSucceed, StripeFail, StripeCancel, StripeRefund,
       Lapse, CreateFromCart, Fault, Adjust, rowVars
  <2>4. ASSUME NEW w, NEW p, Request(w, p) PROVE FALSE
    BY <2>4 DEF Request, Initiate, Rebuild, StartReady, StartIntent, ReuseIntent,
       StartReconcile, StartManual, StartAdmin, rowVars
  <2>5. ASSUME NEW w, NEW e, Deliver(w, e) PROVE FALSE
    BY <2>5 DEF Deliver, rowVars
  <2>6. ASSUME NEW p, NEW t, Fire(p, t) PROVE FALSE
    BY <2>6 DEF Fire, rowVars
  <2>7. ASSUME NEW p, StartReconcile("sweep", p) PROVE FALSE
    BY <2>7 DEF StartReconcile, rowVars
  <2> QED
    BY <2>1, <2>2, <2>3, <2>4, <2>5, <2>6, <2>7 DEF Next, vars
<1>2. task[w] # Idle /\ task[w].pc = "apply"
  BY <1>1 DEF Apply, At
<1>3. task[w].o \in Orders /\ InStep(task[w])
  BY <1>2, Running DEF Types, SerialInv
<1>4. o = task[w].o /\ task[w].op = "timer"
  BY <1>1, <1>3 DEF Apply, Types, TypeOK
<1> QED
  BY <1>2, <1>3, <1>4 DEF InStep

(* The reservation timer cancels only orders nobody has paid, as long as no *)
(* other handler of the order runs while it decides: between its read of    *)
(* the order and the write nothing else holds the row, and that is all it   *)
(* relies on.  (With overlap the code cancels a sale.)                      *)
THEOREM TimerSpares == ASSUME Overlap = FALSE PROVE Spec => TimerSparesSales
<1>1. Types /\ EarnedInv /\ SerialInv /\ [Next]_vars
         => [\A o \in Orders : last[o] # "timeout" /\ last'[o] = "timeout"
                                  => status[o] \in Cancellable]_vars
  BY LastWritten
<1> QED
  BY <1>1, AlwaysSerial, PTL DEF Spec, TimerSparesSales

-----------------------------------------------------------------------------
(* OrderSettlement implements OrderLifecycle. *)

(* The two modules read the same table and move the same buckets. *)
LEMMA SameRules ==
    /\ \A s : Lifecycle!AllowedTransitions[s] = AllowedTransitions[s]
    /\ Lifecycle!Statuses = Statuses
    /\ Lifecycle!Cancellable = Cancellable
    /\ \A l, q : Lifecycle!CanReserve(l, q) <=> CanReserve(l, q)
    /\ \A l, q : Lifecycle!Reserve(l, q) = Reserve(l, q)
    /\ \A l, q, a, b : Lifecycle!Moved(l, q, a, b) = Moved(l, q, a, b)
    /\ \A l, v, d : Lifecycle!CanAdjust(l, v, d) <=> CanAdjust(l, v, d)
    /\ \A l, v, d : Lifecycle!Adjusted(l, v, d) = Adjusted(l, v, d)
<1>1. \A l, q : Lifecycle!Reserve(l, q) = Reserve(l, q)
  BY DEF Lifecycle!Reserve, Reserve
<1>2. \A l, q, a, b : Lifecycle!Moved(l, q, a, b) = Moved(l, q, a, b)
  BY DEF Lifecycle!Moved, Moved, Lifecycle!ReleaseCommitted, ReleaseCommitted,
         Lifecycle!Release, Release, Lifecycle!Commit, Commit,
         Lifecycle!ConfirmSale, ConfirmSale, Lifecycle!Less, Less,
         Lifecycle!InCommitted, InCommitted
<1>3. \A l, q : Lifecycle!CanReserve(l, q) <=> CanReserve(l, q)
  BY DEF Lifecycle!CanReserve, CanReserve
<1>4. \A l, v, d : Lifecycle!CanAdjust(l, v, d) <=> CanAdjust(l, v, d)
  BY DEF Lifecycle!CanAdjust, CanAdjust
<1>5. \A l, v, d : Lifecycle!Adjusted(l, v, d) = Adjusted(l, v, d)
  BY DEF Lifecycle!Adjusted, Adjusted
<1>6. /\ \A s : Lifecycle!AllowedTransitions[s] = AllowedTransitions[s]
      /\ Lifecycle!Statuses = Statuses
      /\ Lifecycle!Cancellable = Cancellable
  BY DEF Lifecycle!AllowedTransitions, AllowedTransitions, Lifecycle!Statuses, Statuses,
         Lifecycle!Cancellable, Cancellable
<1> QED
  BY <1>1, <1>2, <1>3, <1>4, <1>5, <1>6

\* The orders a late payment restores.
Revivable == {o \in Orders : status[o] = "cancelled" /\ last[o] = "timeout"}

LEMMA LifecycleInit == Init => Lifecycle!Init
BY DEF Init, Lifecycle!Init

(* A step that writes neither status nor stock nor count, and no history of *)
(* a cancelled order, is no step of the lifecycle.                          *)
LEMMA Stutter ==
    ASSUME UNCHANGED <<status, stock, uses>>,
           \A o \in Orders : status[o] = "cancelled" => last'[o] = last[o]
    PROVE  UNCHANGED Lifecycle!vars
BY DEF Lifecycle!vars

LEMMA PlaceStep ==
    ASSUME NEW o \in Orders, NEW s \in Cancellable, Types,
           status[o] = "none", CanReserve(stock, Lines[o]),
           status' = [status EXCEPT ![o] = s], stock' = Reserve(stock, Lines[o]),
           UNCHANGED <<last, uses>>
    PROVE  Lifecycle!Place(o)
<1>1. {p \in Orders : status'[p] = "cancelled" /\ last'[p] = "timeout"}
      = {p \in Orders : status[p] = "cancelled" /\ last[p] = "timeout"}
  BY DEF Types, TypeOK, Cancellable
<1> QED
  BY <1>1, SameRules DEF Lifecycle!Place

(* A status written by the one handler that runs on the order, from the     *)
(* status it read: one transition of the table, with its units.             *)
LEMMA AdvanceStep ==
    ASSUME NEW o \in Orders, NEW s \in Statuses, Types,
           status[o] \in Statuses, s \in AllowedTransitions[status[o]],
           status' = [status EXCEPT ![o] = s],
           stock' = Moved(stock, Lines[o], status[o], s),
           uses' = IF s = "paid" THEN [uses EXCEPT ![o] = @ + 1] ELSE uses,
           \/ last' = last /\ s # "cancelled"
           \/ last' = [last EXCEPT ![o] = "other"]
           \/ last' = [last EXCEPT ![o] = "timeout"] /\ s = "cancelled" /\ status[o] \in Cancellable
    PROVE  Lifecycle!Advance(o, s)
<1> DEFINE R == {p \in Orders : status[p] = "cancelled" /\ last[p] = "timeout"}
           S == {p \in Orders : status'[p] = "cancelled" /\ last'[p] = "timeout"}
<1>t. status \in [Orders -> Statuses \cup {"none"}] /\ last \in [Orders -> {"timeout", "other"}]
  BY DEF Types, TypeOK
<1>1. status[o] # "cancelled"
  BY DEF AllowedTransitions
<1>2. S = R \/ (s = "cancelled" /\ status[o] \in Cancellable /\ S = R \cup {o})
  <2>1. CASE last' = last /\ s # "cancelled"
    BY <1>t, <1>1, <2>1
  <2>2. CASE last' = [last EXCEPT ![o] = "other"]
    BY <1>t, <1>1, <2>2
  <2>3. CASE last' = [last EXCEPT ![o] = "timeout"] /\ s = "cancelled" /\ status[o] \in Cancellable
    BY <1>t, <1>1, <2>3
  <2> QED
    BY <2>1, <2>2, <2>3
<1> QED
  BY <1>2, SameRules DEF Lifecycle!Advance

LEMMA RestoreStep ==
    ASSUME NEW o \in Orders, Types, status[o] = "cancelled", last[o] = "timeout",
           CanReserve(stock, Lines[o]), stock' = Reserve(stock, Lines[o]),
           status' = [status EXCEPT ![o] = "awaiting_payment"],
           last' = [last EXCEPT ![o] = "other"], UNCHANGED uses
    PROVE  Lifecycle!Restore(o)
<1>t. status \in [Orders -> Statuses \cup {"none"}] /\ last \in [Orders -> {"timeout", "other"}]
  BY DEF Types, TypeOK
<1>1. {p \in Orders : status'[p] = "cancelled" /\ last'[p] = "timeout"}
      = {p \in Orders : status[p] = "cancelled" /\ last[p] = "timeout"} \ {o}
  BY <1>t
<1> QED
  BY <1>1, <1>t, SameRules DEF Lifecycle!Restore

\* A step of the lifecycle, or none.
Simulated == Lifecycle!Next \/ UNCHANGED Lifecycle!vars

LEMMA EnvironmentSimulated == Types /\ Environment => Simulated
<1> SUFFICES ASSUME Types, Environment PROVE Simulated
  OBVIOUS
<1> USE DEF rowVars, stockVars
<1>1. ASSUME NEW o \in Orders, CreateFromCart(o) PROVE Simulated
  <2>1. Lifecycle!Place(o)
    BY <1>1, PlaceStep DEF CreateFromCart, Cancellable
  <2> QED
    BY <2>1 DEF Simulated, Lifecycle!Next
<1>2. ASSUME NEW v \in Variants, NEW d \in Deltas, Adjust(v, d) PROVE Simulated
  <2>1. Lifecycle!Adjust(v, d)
    BY <1>2, SameRules DEF Adjust, Lifecycle!Adjust
  <2> QED
    BY <2>1 DEF Simulated, Lifecycle!Next
<1>3. ASSUME UNCHANGED <<status, last, stock, uses>> PROVE Simulated
  BY <1>3, Stutter DEF Simulated
<1> QED
  BY <1>1, <1>2, <1>3
     DEF Environment, StripeProcess, StripeSucceed, StripeFail, StripeCancel, StripeRefund,
         Lapse, Fault

LEMMA RequestSimulated ==
    ASSUME NEW w \in Workers, NEW o \in Orders
    PROVE  Types /\ Request(w, o) => Simulated
<1> SUFFICES ASSUME Types, Request(w, o) PROVE Simulated
  OBVIOUS
<1>1. CASE Initiate(w, o)
  <2>1. Lifecycle!Place(o)
    BY <1>1, PlaceStep DEF Initiate, Cancellable
  <2> QED
    BY <2>1 DEF Simulated, Lifecycle!Next
<1>2. CASE ~Initiate(w, o)
  <2>1. UNCHANGED <<status, last, stock, uses>>
    BY <1>2 DEF Request, Rebuild, StartReady, StartIntent, ReuseIntent, StartReconcile,
                StartManual, StartAdmin, rowVars, stockVars
  <2> QED
    BY <2>1, Stutter DEF Simulated
<1> QED
  BY <1>1, <1>2

LEMMA StepSimulated ==
    ASSUME NEW w \in Slots
    PROVE  Types /\ EarnedInv /\ SerialInv /\ Step(w) => Simulated
<1> SUFFICES ASSUME Types, EarnedInv, SerialInv, Step(w), task[w] # Idle PROVE Simulated
  BY DEF Step, Ready, ReadyNote, Mint, AttachIntent, Extend, Enqueue, Ledger,
         Confirm, History, Restore, Attach, Spend, Check, Apply, At
<1>r. /\ task[w] \in Task /\ task[w].o \in Orders
      /\ Earned(task[w]) /\ InStep(task[w])
  BY Running DEF Types, EarnedInv, SerialInv
<1> PICK o \in Orders : o = task[w].o
  BY <1>r
<1>s. ASSUME NEW s \in Statuses, Lifecycle!Advance(o, s) PROVE Simulated
  BY <1>s, SameRules DEF Simulated, Lifecycle!Next
<1>q. UNCHANGED <<status, last, stock, uses>> => Simulated
  BY Stutter DEF Simulated
<1> USE DEF At, rowVars, stockVars
<1>1. CASE Ready(w)
  <2>1. status[o] = "draft"
    BY <1>1, <1>r DEF Ready, InStep
  <2>2. /\ "draft" \in Statuses /\ "awaiting_payment" \in Statuses
        /\ "awaiting_payment" \in AllowedTransitions["draft"]
        /\ stock = Moved(stock, Lines[o], "draft", "awaiting_payment")
    BY DEF Statuses, AllowedTransitions, Moved
  <2>3. Lifecycle!Advance(o, "awaiting_payment")
    BY <1>1, <2>1, <2>2, AdvanceStep DEF Ready
  <2> QED
    BY <1>s, <2>2, <2>3
<1>2. CASE ReadyNote(w)
  <2>1. status[o] = "awaiting_payment"
    BY <1>2, <1>r DEF ReadyNote, InStep
  <2>2. \A p \in Orders : status[p] = "cancelled" => last'[p] = last[p]
    BY <1>2, <2>1 DEF ReadyNote, Types, TypeOK
  <2> QED
    BY <1>2, <2>2, Stutter DEF ReadyNote, Simulated
<1>3. CASE Restore(w)
  <2>1. CASE CanReserve(stock, Lines[o])
    <3>1. status[o] = "cancelled" /\ last[o] = "timeout"
      BY <1>3, <1>r DEF Restore, InStep
    <3>2. Lifecycle!Restore(o)
      BY <1>3, <2>1, <3>1, RestoreStep DEF Restore
    <3> QED
      BY <3>2 DEF Simulated, Lifecycle!Next
  <2>2. CASE ~CanReserve(stock, Lines[o])
    BY <1>3, <1>q, <2>2 DEF Restore
  <2> QED
    BY <2>1, <2>2
<1>4. CASE Apply(w)
  <2>1. /\ task[w].pc = "apply" /\ task[w].seen = status[o] /\ task[w].to \in Statuses
        /\ task[w].seen \in Statuses /\ task[w].to \in AllowedTransitions[task[w].seen]
    BY <1>4, <1>r DEF Apply, InStep, Earned, Task
  <2>2. PICK s \in Statuses : s = task[w].to
    BY <2>1
  <2>3. task[w].op = "timer" => status[o] \in Cancellable /\ s = "cancelled"
    BY <1>r, <2>1, <2>2 DEF InStep
  <2>4. /\ status' = [status EXCEPT ![o] = s]
        /\ last' = [last EXCEPT ![o] = IF task[w].op = "timer" THEN "timeout" ELSE "other"]
        /\ stock' = Moved(stock, Lines[o], status[o], s)
        /\ uses' = IF s = "paid" THEN [uses EXCEPT ![o] = @ + 1] ELSE uses
    BY <1>4, <2>1, <2>2 DEF Apply
  <2>5. \/ last' = [last EXCEPT ![o] = "other"]
        \/ last' = [last EXCEPT ![o] = "timeout"] /\ s = "cancelled" /\ status[o] \in Cancellable
    BY <2>3, <2>4
  <2>6. status[o] \in Statuses /\ s \in AllowedTransitions[status[o]]
    BY <2>1, <2>2
  <2>7. Lifecycle!Advance(o, s)
    BY <2>4, <2>5, <2>6, AdvanceStep
  <2> QED
    BY <1>s, <2>7
<1>5. CASE ~(Ready(w) \/ ReadyNote(w) \/ Restore(w) \/ Apply(w))
  <2>1. UNCHANGED <<status, last, stock, uses>>
    BY <1>5 DEF Step, Mint, AttachIntent, Extend, Enqueue, Ledger, Confirm, History,
                Attach, Spend, Check
  <2> QED
    BY <1>q, <2>1
<1> QED
  BY <1>1, <1>2, <1>3, <1>4, <1>5

LEMMA NextSimulated == Types /\ EarnedInv /\ SerialInv /\ [Next]_vars => Simulated
<1> SUFFICES ASSUME Types, EarnedInv, SerialInv, [Next]_vars PROVE Simulated
  OBVIOUS
<1>q. UNCHANGED <<status, last, stock, uses>> => Simulated
  BY Stutter DEF Simulated
<1>1. CASE \E w \in Workers, o \in Orders : Request(w, o)
  BY <1>1, RequestSimulated
<1>2. ASSUME NEW w \in Workers, NEW e \in Event, Deliver(w, e) PROVE Simulated
  BY <1>2, <1>q DEF Deliver, rowVars, stockVars
<1>3. ASSUME NEW o \in Orders, StartReconcile("sweep", o) PROVE Simulated
  BY <1>3, <1>q DEF StartReconcile, rowVars, stockVars
<1>4. ASSUME NEW o \in Orders, NEW t \in Timers, Fire(o, t) PROVE Simulated
  BY <1>4, <1>q DEF Fire, rowVars, stockVars
<1>5. CASE \E w \in Slots : Step(w)
  BY <1>5, StepSimulated
<1>6. CASE TimerStep
  BY <1>6, <1>q DEF TimerStep, Ask, AskReconcile, Grace, Delay, Announce, rowVars, stockVars
<1>7. CASE Environment
  BY <1>7, EnvironmentSimulated
<1>8. CASE UNCHANGED vars
  BY <1>8, <1>q DEF vars
<1> QED
  BY <1>1, <1>2, <1>3, <1>4, <1>5, <1>6, <1>7, <1>8 DEF Next

(* The detailed handlers implement the atomic lifecycle: what checkout,     *)
(* webhooks, the sweep, the desk and the timer do to an order in many       *)
(* awaits, with crashes between them, is one legal transition at a time,    *)
(* each with the units it moves, as long as no two handlers of one order    *)
(* overlap.                                                                 *)
THEOREM SettlementImplementsLifecycle ==
    ASSUME Overlap = FALSE PROVE Spec => ImplementsLifecycle
<1>1. Init => Lifecycle!Init
  BY LifecycleInit
<1>2. Types /\ EarnedInv /\ SerialInv /\ [Next]_vars => [Lifecycle!Next]_(Lifecycle!vars)
  BY NextSimulated DEF Simulated
<1> QED
  BY <1>1, <1>2, AlwaysSerial, PTL DEF Spec, ImplementsLifecycle, Lifecycle!Spec

-----------------------------------------------------------------------------
(* What the lifecycle promises, the handlers keep. *)

Promises == INSTANCE OrderLifecycle_proofs WITH revivable <- Revivable

\* The lifecycle's assumptions are those of this module.
LEMMA PromisesAssumptions ==
    /\ Lines \in [Orders -> Promises!Claim]
    /\ Promises!IsFiniteSet(Orders)
BY LinesAssumption, OrdersAssumption
   DEF Promises!Claim, Claim, Promises!IsFiniteSet, IsFiniteSet

LEMMA SameInit == Lifecycle!Init => Promises!Init
BY DEF Lifecycle!Init, Promises!Init, Revivable

LEMMA SameNext == [Lifecycle!Next]_(Lifecycle!vars) => [Promises!Next]_(Promises!vars)
<1> USE DEF Revivable
<1>1. \A o \in Orders : Lifecycle!Place(o) => Promises!Place(o)
  BY DEF Lifecycle!Place, Promises!Place, Lifecycle!CanReserve, Promises!CanReserve,
         Lifecycle!Reserve, Promises!Reserve, Lifecycle!Cancellable, Promises!Cancellable
<1>2. \A o \in Orders : Lifecycle!Restore(o) => Promises!Restore(o)
  BY DEF Lifecycle!Restore, Promises!Restore, Lifecycle!CanReserve, Promises!CanReserve,
         Lifecycle!Reserve, Promises!Reserve
<1>3. Lifecycle!Statuses = Promises!Statuses
  BY DEF Lifecycle!Statuses, Promises!Statuses
<1>4. \A l, q, a, b : Lifecycle!Moved(l, q, a, b) = Promises!Moved(l, q, a, b)
  BY DEF Lifecycle!Moved, Promises!Moved, Lifecycle!ReleaseCommitted, Promises!ReleaseCommitted,
         Lifecycle!Release, Promises!Release, Lifecycle!Commit, Promises!Commit,
         Lifecycle!ConfirmSale, Promises!ConfirmSale, Lifecycle!Less, Promises!Less,
         Lifecycle!InCommitted, Promises!InCommitted
<1>5. \A o \in Orders : \A s \in Lifecycle!Statuses :
         Lifecycle!Advance(o, s) => Promises!Advance(o, s)
  BY <1>3, <1>4
     DEF Lifecycle!Advance, Promises!Advance, Lifecycle!AllowedTransitions,
         Promises!AllowedTransitions, Lifecycle!Cancellable, Promises!Cancellable
<1>6. \A v \in Variants, d \in Deltas : Lifecycle!Adjust(v, d) => Promises!Adjust(v, d)
  BY DEF Lifecycle!Adjust, Promises!Adjust, Lifecycle!CanAdjust, Promises!CanAdjust,
         Lifecycle!Adjusted, Promises!Adjusted
<1>7. UNCHANGED Lifecycle!vars => UNCHANGED Promises!vars
  BY DEF Lifecycle!vars, Promises!vars
<1>8. Lifecycle!Next => Promises!Next
  BY <1>1, <1>2, <1>3, <1>5, <1>6 DEF Lifecycle!Next, Promises!Next
<1> QED
  BY <1>7, <1>8

LEMMA SamePromises ==
    /\ Promises!StockMatchesOrders => Lifecycle!StockMatchesOrders
    /\ Promises!CountedOnce => Lifecycle!CountedOnce
BY DEF Promises!StockMatchesOrders, Lifecycle!StockMatchesOrders,
       Promises!Units, Lifecycle!Units, Promises!With, Lifecycle!With,
       Promises!InReserved, Lifecycle!InReserved, Promises!InCommitted, Lifecycle!InCommitted,
       Promises!Cardinality, Lifecycle!Cardinality, Promises!IsFiniteSet, Lifecycle!IsFiniteSet,
       Promises!CountedOnce, Lifecycle!CountedOnce, Promises!Refundable, Lifecycle!Refundable

LEMMA KeepsPromises ==
    ASSUME Overlap = FALSE
    PROVE  Spec => [](Promises!StockMatchesOrders /\ Promises!CountedOnce)
<1>1. Spec => Promises!Spec
  BY SettlementImplementsLifecycle, SameInit, SameNext, PTL
     DEF ImplementsLifecycle, Lifecycle!Spec, Promises!Spec
<1>2. Promises!Spec => []Promises!StockMatchesOrders
  BY PromisesAssumptions, Promises!StockCorrect, OrdersAssumption, LinesAssumption,
     StockAssumption, DeltasAssumption
<1>3. Promises!Spec => []Promises!CountedOnce
  BY PromisesAssumptions, Promises!CountCorrect, OrdersAssumption, LinesAssumption,
     StockAssumption, DeltasAssumption
<1> QED
  BY <1>1, <1>2, <1>3, PTL

(* No unit is lost: while checkouts, payments, timeouts and refunds run,    *)
(* crash and are retried, the reserved and committed buckets are exactly    *)
(* the units of the unpaid and of the paid, unshipped orders, as long as    *)
(* the handlers of one order do not overlap.                                *)
THEOREM UnitsAccounted ==
    ASSUME Overlap = FALSE PROVE Spec => []Lifecycle!StockMatchesOrders
BY KeepsPromises, SamePromises, PTL

(* No order is counted twice, whatever is redelivered, swept and retried:   *)
(* coupon uses and customer statistics see it once, as long as its handlers *)
(* do not overlap.  (With overlap two settlements both count it.)           *)
THEOREM SettlesOnce == ASSUME Overlap = FALSE PROVE Spec => []SettledOnce
<1>1. Lifecycle!CountedOnce => SettledOnce
  BY DEF Lifecycle!CountedOnce, SettledOnce
<1> QED
  BY <1>1, KeepsPromises, SamePromises, PTL

-----------------------------------------------------------------------------
(* Holds. *)

\* A handler that will queue the job of its order's deadline, or after which
\* the order is no longer unpaid.
Holding(t) ==
    \/ t.pc \in {"enqueue", "delay"} /\ t.job = hold[t.o]
    \/ t.op = "timer" /\ t.pc \in {"ask", "grace", "check", "apply"}
    \/ t.op \in Settling
       /\ t.pc \in {"reconcile", "ledger", "confirm", "attach", "check", "apply"}
Covered(o) ==
    status[o] \in Cancellable /\ hold[o] # "none" =>
        \/ hold[o] \in timers[o]
        \/ \E x \in Slots : task[x] # Idle /\ task[x].o = o /\ Holding(task[x])
HoldInv == \A o \in Orders : Covered(o)

(* The same, of the next state. *)
HoldingNext(t) ==
    \/ t.pc \in {"enqueue", "delay"} /\ t.job = hold'[t.o]
    \/ t.op = "timer" /\ t.pc \in {"ask", "grace", "check", "apply"}
    \/ t.op \in Settling
       /\ t.pc \in {"reconcile", "ledger", "confirm", "attach", "check", "apply"}
CoveredNext(o) ==
    status'[o] \in Cancellable /\ hold'[o] # "none" =>
        \/ hold'[o] \in timers'[o]
        \/ \E x \in Slots : task'[x] # Idle /\ task'[x].o = o /\ HoldingNext(task'[x])

LEMMA HoldPrimed == ASSUME \A o \in Orders : CoveredNext(o) PROVE HoldInv'
<1>1. (\A o \in Orders : Covered(o))'
  BY DEF Covered, CoveredNext, Holding, HoldingNext
<1> QED
  BY <1>1 DEF HoldInv

\* What covers the order p stays.
Unmoved(p) ==
    /\ status'[p] \in Cancellable => status[p] \in Cancellable
    /\ hold'[p] = hold[p]
    /\ timers[p] \subseteq timers'[p]

(* The handlers of other orders cover them still. *)
LEMMA OtherCovered ==
    ASSUME HoldInv, NEW w \in Slots, NEW p \in Orders, Unmoved(p),
           \A x \in Slots \ {w} : task'[x] = task[x],
           task[w] # Idle => task[w].o # p
    PROVE  CoveredNext(p)
<1>1. Covered(p)
  BY DEF HoldInv
<1>2. ASSUME NEW x \in Slots, task[x] # Idle, task[x].o = p, Holding(task[x])
      PROVE  task'[x] # Idle /\ task'[x].o = p /\ HoldingNext(task'[x])
  <2>1. x # w
    BY <1>2
  <2>2. task'[x] = task[x]
    BY <2>1
  <2> QED
    BY <1>2, <2>2 DEF Unmoved, Holding, HoldingNext
<1> QED
  BY <1>1, <1>2 DEF Covered, CoveredNext, Unmoved

(* A handler that covers its order hands the cover on. *)
LEMMA OwnCovered ==
    ASSUME SerialInv, HoldInv, NEW w \in Slots, task[w] # Idle, task[w].o \in Orders,
           Holding(task[w]) => CoveredNext(task[w].o),
           ~Holding(task[w]) => Unmoved(task[w].o)
    PROVE  CoveredNext(task[w].o)
<1>1. CASE Holding(task[w])
  BY <1>1
<1>2. CASE ~Holding(task[w])
  <2>1. \A x \in Slots : task[x] # Idle /\ task[x].o = task[w].o => x = w
    BY DEF SerialInv, Apart
  <2>2. Covered(task[w].o)
    BY DEF HoldInv
  <2> QED
    BY <1>2, <2>1, <2>2 DEF Covered, CoveredNext, Unmoved
<1> QED
  BY <1>1, <1>2

LEMMA HoldStep ==
    ASSUME HoldInv, NEW w \in Slots, NEW o \in Orders,
           \A x \in Slots \ {w} : task'[x] = task[x],
           task[w] # Idle => task[w].o = o,
           \A p \in Orders \ {o} : Unmoved(p),
           CoveredNext(o)
    PROVE  HoldInv'
BY OtherCovered, HoldPrimed

LEMMA HoldOwn ==
    ASSUME SerialInv, HoldInv, NEW w \in Slots, task[w] # Idle, task[w].o \in Orders,
           \A x \in Slots \ {w} : task'[x] = task[x],
           \A p \in Orders \ {task[w].o} : Unmoved(p),
           Holding(task[w]) => CoveredNext(task[w].o),
           ~Holding(task[w]) => Unmoved(task[w].o)
    PROVE  HoldInv'
<1>1. CoveredNext(task[w].o)
  BY OwnCovered
<1> QED
  BY <1>1, HoldStep

LEMMA HoldStill ==
    ASSUME HoldInv, task' = task, \A p \in Orders : Unmoved(p) \/ CoveredNext(p)
    PROVE  HoldInv'
<1>1. ASSUME NEW p \in Orders, Unmoved(p) PROVE CoveredNext(p)
  BY <1>1 DEF HoldInv, Covered, CoveredNext, Holding, HoldingNext, Unmoved
<1> QED
  BY <1>1, HoldPrimed

(* A handler starts and touches neither status, hold nor jobs. *)
LEMMA HoldBegin ==
    ASSUME Types, HoldInv, NEW w \in Slots, NEW o \in Orders, NEW t, Begin(w, t),
           task[w] = Idle, \A p \in Orders : Unmoved(p)
    PROVE  HoldInv'
<1>1. \A x \in Slots \ {w} : task'[x] = task[x]
  BY SlotChange
<1> QED
  BY <1>1, OtherCovered, HoldPrimed

\* Steps that touch neither status, hold nor jobs.
Unheld == UNCHANGED <<status, hold, timers>>

LEMMA UnheldUnmoved == Unheld => \A p : Unmoved(p)
BY DEF Unheld, Unmoved

(* A handler ends, or moves to a step at which it covers its order. *)
LEMMA CoversNext ==
    ASSUME NEW w \in Slots, task'[w] # Idle, HoldingNext(task'[w])
    PROVE  CoveredNext(task'[w].o)
BY DEF CoveredNext

LEMMA EnvironmentHeld ==
    Types /\ SerialInv /\ HoldInv /\ Environment /\ faults' = 0 => HoldInv'
<1> SUFFICES ASSUME Types, SerialInv, HoldInv, Environment, faults' = 0 PROVE HoldInv'
  OBVIOUS
<1> USE DEF rowVars, holdVars, moneyVars
<1>1. ASSUME NEW o \in Orders, CreateFromCart(o) PROVE HoldInv'
  <2>1. \A p \in Orders \ {o} : Unmoved(p)
    BY <1>1 DEF CreateFromCart, Unmoved, Types, TypeOK
  <2>2. CoveredNext(o)
    BY <1>1 DEF CreateFromCart, CoveredNext, SerialInv, Fresh
  <2> QED
    BY <1>1, <2>1, <2>2, HoldStill DEF CreateFromCart
<1>2. ASSUME NEW w \in Slots, Fault(w) PROVE HoldInv'
  BY <1>2 DEF Fault, Types, TypeOK
<1>3. ASSUME Unheld, task' = task PROVE HoldInv'
  BY <1>3, UnheldUnmoved, HoldStill
<1> QED
  BY <1>1, <1>2, <1>3
     DEF Environment, StripeProcess, StripeSucceed, StripeFail, StripeCancel, StripeRefund,
         Lapse, Adjust, Unheld

LEMMA RequestHeld ==
    ASSUME NEW w \in Workers, NEW o \in Orders
    PROVE  Types /\ HoldInv /\ Request(w, o) => HoldInv'
<1> SUFFICES ASSUME Types, HoldInv, Request(w, o) PROVE HoldInv'
  OBVIOUS
<1>w. w \in Slots
  BY DEF Slots
<1> USE DEF rowVars, holdVars, moneyVars
<1>1. CASE Initiate(w, o)
  <2> DEFINE t == [Handler("initiate", o, "enqueue") EXCEPT !.job = "base"]
  <2>1. t.pc = "enqueue" /\ t.o = o /\ t.job = "base" /\ t.op = "initiate"
    BY DEF Handler
  <2>2. Begin(w, t) /\ task[w] = Idle
    BY <1>1 DEF Initiate, Free
  <2>3. hold' = [hold EXCEPT ![o] = "base"] /\ hold \in [Orders -> Timers \cup {"none"}]
    BY <1>1 DEF Initiate, Types, TypeOK
  <2> HIDE DEF t
  <2>4. task'[w] = t /\ \A x \in Slots \ {w} : task'[x] = task[x]
    BY <1>w, <2>2, SlotChange
  <2>5. t # Idle
    BY <2>1 DEF Idle
  <2>6. CoveredNext(o)
    BY <1>w, <2>1, <2>3, <2>4, <2>5 DEF CoveredNext, HoldingNext
  <2>7. \A p \in Orders \ {o} : Unmoved(p)
    BY <1>1 DEF Initiate, Unmoved, Types, TypeOK
  <2> QED
    BY <1>w, <2>2, <2>4, <2>6, <2>7, HoldStep
<1>2. CASE ~Initiate(w, o)
  <2>1. Unheld
    BY <1>2 DEF Request, Rebuild, StartReady, StartIntent, ReuseIntent, StartReconcile,
                StartManual, StartAdmin, Unheld
  <2>2. task' = task \/ (task[w] = Idle /\ \E t : Begin(w, t))
    BY <1>2 DEF Request, Rebuild, StartReady, StartIntent, ReuseIntent, StartReconcile,
                StartManual, StartAdmin, Free
  <2> QED
    BY <1>w, <2>1, <2>2, UnheldUnmoved, HoldBegin, HoldStill
<1> QED
  BY <1>1, <1>2

LEMMA FireHeld ==
    ASSUME NEW o \in Orders, NEW j \in Timers
    PROVE  Types /\ HoldInv /\ Fire(o, j) => HoldInv'
<1> SUFFICES ASSUME Types, HoldInv, Fire(o, j) PROVE HoldInv'
  OBVIOUS
<1>w. "timer" \in Slots /\ task["timer"] = Idle
  BY DEF Slots, Fire, Free
<1>1. \A p \in Orders \ {o} : Unmoved(p)
  BY DEF Fire, Unmoved, rowVars, holdVars, Types, TypeOK
<1>2. CASE StepsAside(o)
  <2>1. task' = task
    BY <1>2 DEF Fire
  <2>2. status' = status /\ hold' = hold /\ timers'[o] = timers[o] \ {j}
    BY DEF Fire, rowVars, holdVars, Types, TypeOK
  <2>3. status[o] \in Cancellable /\ hold[o] # "none" => hold[o] # j
    BY <1>2 DEF Fire, Due, StepsAside
  <2>4. Covered(o)
    BY DEF HoldInv
  <2>5. CoveredNext(o)
    BY <2>1, <2>2, <2>3, <2>4 DEF Covered, CoveredNext, Holding, HoldingNext
  <2> QED
    BY <1>1, <2>1, <2>5, HoldStill
<1>3. CASE ~StepsAside(o)
  <2> DEFINE pc == IF pi[o] = NoIntent THEN "check" ELSE "ask"
             t == [Handler("timer", o, pc) EXCEPT !.to = "cancelled", !.job = j]
  <2>1. Begin("timer", t)
    BY <1>3 DEF Fire
  <2>2. pc \in {"check", "ask"}
    OBVIOUS
  <2> HIDE DEF pc
  <2>3. t.op = "timer" /\ t.pc = pc /\ t.o = o
    BY DEF Handler
  <2> HIDE DEF t
  <2>4. task'["timer"] = t /\ \A x \in Slots \ {"timer"} : task'[x] = task[x]
    BY <1>w, <2>1, SlotChange
  <2>5. t # Idle
    BY <2>3 DEF Idle
  <2>6. CoveredNext(o)
    BY <1>w, <2>2, <2>3, <2>4, <2>5 DEF CoveredNext, HoldingNext
  <2> QED
    BY <1>w, <1>1, <2>4, <2>6, HoldStep
<1> QED
  BY <1>2, <1>3

LEMMA DeliverHeld ==
    ASSUME NEW w \in Workers, NEW e \in Event
    PROVE  Types /\ HoldInv /\ Deliver(w, e) => HoldInv'
<1> SUFFICES ASSUME Types, HoldInv, Deliver(w, e) PROVE HoldInv'
  OBVIOUS
<1>1. w \in Slots /\ task[w] = Idle /\ e.o \in Orders
  BY DEF Slots, Deliver, Free, Event
<1>2. Unheld
  BY DEF Deliver, Unheld, rowVars, holdVars
<1>3. task' = task \/ \E t : Begin(w, t)
  BY DEF Deliver
<1> QED
  BY <1>1, <1>2, <1>3, UnheldUnmoved, HoldBegin, HoldStill

LEMMA SweepHeld ==
    ASSUME NEW w \in Slots, NEW o \in Orders
    PROVE  Types /\ HoldInv /\ StartReconcile(w, o) => HoldInv'
<1> SUFFICES ASSUME Types, HoldInv, StartReconcile(w, o) PROVE HoldInv'
  OBVIOUS
<1>1. task[w] = Idle /\ Unheld /\ Begin(w, Reconciliation(w, o))
  BY DEF StartReconcile, Free, Unheld, rowVars, holdVars
<1> QED
  BY <1>1, UnheldUnmoved, HoldBegin

(* A handler that covers nothing moves on or ends. *)
LEMMA HoldLeave ==
    ASSUME SerialInv, HoldInv, NEW w \in Slots, task[w] # Idle, task[w].o \in Orders,
           ~Holding(task[w]), \A x \in Slots \ {w} : task'[x] = task[x],
           \A p \in Orders : Unmoved(p)
    PROVE  HoldInv'
BY HoldOwn

(* A handler whose next step covers its order. *)
LEMMA HoldHand ==
    ASSUME HoldInv, NEW w \in Slots, task[w] # Idle, task[w].o \in Orders,
           \A x \in Slots \ {w} : task'[x] = task[x],
           \A p \in Orders \ {task[w].o} : Unmoved(p),
           NEW t, task'[w] = t, t # Idle, t.o = task[w].o, HoldingNext(t)
    PROVE  HoldInv'
<1>1. CoveredNext(task[w].o)
  BY CoversNext
<1> QED
  BY <1>1, HoldStep

(* A handler whose order is no longer unpaid. *)
LEMMA HoldSettled ==
    ASSUME HoldInv, NEW w \in Slots, task[w] # Idle, task[w].o \in Orders,
           \A x \in Slots \ {w} : task'[x] = task[x],
           \A p \in Orders \ {task[w].o} : Unmoved(p),
           status'[task[w].o] \notin Cancellable
    PROVE  HoldInv'
<1>1. CoveredNext(task[w].o)
  BY DEF CoveredNext
<1> QED
  BY <1>1, HoldStep

(* The job a handler covers its order with is queued. *)
LEMMA HoldQueued ==
    ASSUME Types, SerialInv, HoldInv, NEW w \in Slots, task[w] # Idle, task[w].o \in Orders,
           task[w].pc \in {"enqueue", "delay"}, UNCHANGED <<status, hold>>,
           timers' = [timers EXCEPT ![task[w].o] = @ \cup {task[w].job}],
           \A x \in Slots \ {w} : task'[x] = task[x]
    PROVE  HoldInv'
<1>1. task[w].job \in timers'[task[w].o]
  BY DEF Types, TypeOK
<1>2. Holding(task[w]) => task[w].job = hold[task[w].o]
  BY DEF Holding
<1>3. Holding(task[w]) => CoveredNext(task[w].o)
  BY <1>1, <1>2 DEF CoveredNext
<1>4. \A p \in Orders : Unmoved(p)
  BY DEF Unmoved, Types, TypeOK
<1> QED
  BY <1>3, <1>4, HoldOwn

LEMMA SlotSteps ==
    ASSUME Types, NEW w \in Slots, NEW t, Begin(w, t) \/ Finish(w)
    PROVE  \A x \in Slots \ {w} : task'[x] = task[x]
BY SlotChange

LEMMA ApplyHeld ==
    ASSUME NEW w \in Slots
    PROVE  Types /\ EarnedInv /\ SerialInv /\ HoldInv /\ Apply(w) => HoldInv'
<1> SUFFICES ASSUME Types, EarnedInv, SerialInv, HoldInv, Apply(w), task[w] # Idle
             PROVE  HoldInv'
  BY DEF Apply, At
<1>r. /\ task[w] \in Task
      /\ task[w].o \in Orders
      /\ Earned(task[w])
      /\ InStep(task[w])
      /\ task[w].pc = "apply"
      /\ status[task[w].o] # "pending"
  BY Running DEF Types, EarnedInv, SerialInv, Fresh, Apply, At
<1> DEFINE o == task[w].o
           back  == [task[w] EXCEPT !.pc = "check", !.to = "paid", !.seen = "none"]
           spend == [task[w] EXCEPT !.pc = "spend", !.seen = "none"]
           tell  == [task[w] EXCEPT !.pc = "announce", !.seen = "none"]
<1>1. /\ status' = [status EXCEPT ![o] = task[w].to]
      /\ UNCHANGED <<hold, timers>>
      /\ status[o] = task[w].seen /\ task[w].seen \in Statuses
      /\ task[w].to \in AllowedTransitions[task[w].seen]
  BY <1>r DEF Apply, holdVars, InStep, Earned
<1>2. status'[o] = task[w].to /\ \A p \in Orders \ {o} : Unmoved(p)
  BY <1>1, <1>r DEF Unmoved, Types, TypeOK
<1>3. /\ task[w].to = "awaiting_payment" => task[w].seen \in {"draft", "pending"}
      /\ task[w].to # "draft"
  BY <1>1 DEF AllowedTransitions, Statuses
<1>4. back # Idle /\ back.o = o /\ back.pc = "check" /\ back.op = task[w].op
  BY <1>r, TaskNotIdle DEF Task, Idle
<1>5. /\ task[w].op \in Settling /\ task[w].to = "awaiting_payment" => Begin(w, back)
      /\ Begin(w, back) \/ Begin(w, spend) \/ Begin(w, tell) \/ Finish(w)
  BY DEF Apply
<1> HIDE DEF back, spend, tell
<1>6. \A x \in Slots \ {w} : task'[x] = task[x]
  BY <1>5, SlotSteps
<1>7. CASE task[w].op \in Settling /\ task[w].to = "awaiting_payment"
  <2>1. task'[w] = back
    BY <1>5, <1>7, SlotChange
  <2>2. HoldingNext(back)
    BY <1>4, <1>7 DEF HoldingNext
  <2> QED
    BY <1>r, <1>2, <1>4, <1>6, <2>1, <2>2, HoldHand
<1>8. CASE task[w].to \notin Cancellable
  BY <1>r, <1>2, <1>6, <1>8, HoldSettled
<1>9. CASE task[w].op \notin Settling /\ task[w].to = "awaiting_payment"
  <2>1. task[w].op # "timer"
    BY <1>r, <1>9 DEF InStep
  <2>2. ~Holding(task[w])
    BY <1>r, <1>9, <2>1 DEF Holding
  <2>3. Unmoved(o)
    BY <1>r, <1>1, <1>2, <1>3, <1>9 DEF Unmoved, Cancellable
  <2>4. \A p \in Orders : Unmoved(p)
    BY <1>2, <2>3
  <2> QED
    BY <1>r, <1>6, <2>2, <2>4, HoldLeave
<1> QED
  BY <1>3, <1>7, <1>8, <1>9 DEF Cancellable

LEMMA CheckHeld ==
    ASSUME NEW w \in Slots
    PROVE  Types /\ SerialInv /\ HoldInv /\ Check(w) => HoldInv'
<1> SUFFICES ASSUME Types, SerialInv, HoldInv, Check(w), task[w] # Idle PROVE HoldInv'
  BY DEF Check, At
<1>r. /\ task[w] \in Task
      /\ task[w].o \in Orders
      /\ InStep(task[w])
      /\ task[w].pc = "check"
  BY Running DEF Types, SerialInv, Check, At
<1> DEFINE t == [task[w] EXCEPT !.pc = "apply", !.seen = status[task[w].o]]
<1>1. /\ \/ task[w].to \in AllowedTransitions[status[task[w].o]] /\ Begin(w, t) /\ UNCHANGED timers
         \/ task[w].to \notin AllowedTransitions[status[task[w].o]] /\ Finish(w)
      /\ UNCHANGED <<status, hold>>
      /\ \A p \in Orders : timers[p] \subseteq timers'[p]
  BY <1>r DEF Check, SettleFailed, rowVars, holdVars, Types, TypeOK
<1>2. t # Idle /\ t.o = task[w].o /\ t.pc = "apply" /\ t.op = task[w].op
  BY <1>r, TaskNotIdle DEF Task, Idle
<1> HIDE DEF t
<1>3. \A x \in Slots \ {w} : task'[x] = task[x]
  BY <1>1, SlotSteps
<1>4. \A p \in Orders : Unmoved(p)
  BY <1>1 DEF Unmoved
<1>5. CASE ~Holding(task[w])
  BY <1>r, <1>3, <1>4, <1>5, HoldLeave
<1>6. CASE Holding(task[w]) /\ task[w].to \in AllowedTransitions[status[task[w].o]]
  <2>1. task'[w] = t
    BY <1>1, <1>6, SlotChange
  <2>2. HoldingNext(t)
    BY <1>r, <1>2, <1>6 DEF Holding, HoldingNext
  <2> QED
    BY <1>r, <1>2, <1>3, <1>4, <2>1, <2>2, HoldHand
<1>7. CASE Holding(task[w]) /\ task[w].to \notin AllowedTransitions[status[task[w].o]]
  <2>1. task[w].op = "timer" \/ task[w].op \in Settling
    BY <1>r, <1>7 DEF Holding
  <2>2. status[task[w].o] \notin Cancellable
    BY <1>r, <1>7, <2>1 DEF InStep, AllowedTransitions, Cancellable
  <2> QED
    BY <1>r, <1>1, <1>3, <1>4, <2>2, HoldSettled
<1> QED
  BY <1>5, <1>6, <1>7

LEMMA SettlingHeld ==
    ASSUME NEW w \in Slots
    PROVE  Types /\ EarnedInv /\ SerialInv /\ HoldInv
             /\ (Ledger(w) \/ Confirm(w) \/ Restore(w) \/ Attach(w)) => HoldInv'
<1> SUFFICES ASSUME Types, EarnedInv, SerialInv, HoldInv,
                    Ledger(w) \/ Confirm(w) \/ Restore(w) \/ Attach(w), task[w] # Idle
             PROVE  HoldInv'
  BY DEF Ledger, Confirm, Restore, Attach, At
<1>r. /\ task[w] \in Task
      /\ task[w].o \in Orders
      /\ Earned(task[w])
      /\ InStep(task[w])
  BY Running DEF Types, EarnedInv, SerialInv
<1> USE DEF At, rowVars, holdVars
<1>1. CASE Ledger(w)
  <2> DEFINE confirming == [task[w] EXCEPT !.pc = "confirm", !.seen = "none", !.ev = Idle]
             extending  == [Handler("failed", task[w].o, "extend") EXCEPT !.job = "retry"]
             refunding  == [Handler("refunded", task[w].o, "check") EXCEPT !.to = "refunded"]
  <2>1. \/ task[w].op \in Settling /\ Begin(w, confirming)
        \/ task[w].op \notin Settling
           /\ (Begin(w, extending) \/ Begin(w, refunding) \/ Finish(w))
        \/ task[w].op \in Settling /\ task[w].seen = "paid" /\ Finish(w)
    BY <1>1 DEF Ledger, Settling
  <2>2. /\ confirming # Idle /\ confirming.pc = "confirm"
        /\ confirming.o = task[w].o /\ confirming.op = task[w].op
    BY <1>r DEF Task, Idle
  <2> HIDE DEF confirming, extending, refunding
  <2>3. \A x \in Slots \ {w} : task'[x] = task[x]
    BY <2>1, SlotSteps
  <2>4. Unheld /\ \A p \in Orders : Unmoved(p)
    BY <1>1, UnheldUnmoved DEF Ledger, Unheld
  <2>5. CASE task[w].op \in Settling /\ Begin(w, confirming)
    <3>1. task'[w] = confirming
      BY <2>5, SlotChange
    <3>2. HoldingNext(confirming)
      BY <2>2, <2>5 DEF HoldingNext
    <3> QED
      BY <1>r, <2>2, <2>3, <2>4, <3>1, <3>2, HoldHand
  <2>6. CASE task[w].op \notin Settling
    <3>1. ~Holding(task[w])
      BY <1>1, <2>6 DEF Holding, Ledger
    <3> QED
      BY <1>r, <2>3, <2>4, <3>1, HoldLeave
  <2>7. CASE task[w].seen = "paid"
    <3>1. status'[task[w].o] \notin Cancellable
      BY <1>1, <1>r, <2>4, <2>7 DEF Ledger, InStep, Unheld, Cancellable
    <3> QED
      BY <1>r, <2>3, <2>4, <3>1, HoldSettled
  <2> QED
    BY <2>1, <2>5, <2>6, <2>7
<1>2. CASE Confirm(w)
  <2> DEFINE pc == IF status[task[w].o] = "cancelled" THEN "history" ELSE "attach"
             t == [task[w] EXCEPT !.seen = status[task[w].o], !.pc = pc]
  <2>1. \/ status[task[w].o] = "paid" /\ Finish(w)
        \/ Begin(w, t)
    BY <1>2 DEF Confirm
  <2>2. status[task[w].o] # "cancelled" => pc = "attach"
    OBVIOUS
  <2> HIDE DEF pc
  <2>3. t # Idle /\ t.pc = pc /\ t.o = task[w].o /\ t.op = task[w].op
    BY <1>r DEF Task, Idle
  <2> HIDE DEF t
  <2>4. \A x \in Slots \ {w} : task'[x] = task[x]
    BY <2>1, SlotSteps
  <2>5. Unheld /\ \A p \in Orders : Unmoved(p)
    BY <1>2, UnheldUnmoved DEF Confirm, Unheld
  <2>6. CASE status[task[w].o] \in Cancellable
    <3>1. Begin(w, t) /\ pc = "attach"
      BY <2>1, <2>2, <2>6 DEF Cancellable
    <3>2. task'[w] = t
      BY <3>1, SlotChange
    <3>3. HoldingNext(t)
      BY <1>2, <1>r, <2>3, <3>1 DEF HoldingNext, Earned, Confirm
    <3> QED
      BY <1>r, <2>3, <2>4, <2>5, <3>2, <3>3, HoldHand
  <2>7. CASE status[task[w].o] \notin Cancellable
    BY <1>r, <2>4, <2>5, <2>7, HoldSettled DEF Unheld
  <2> QED
    BY <2>6, <2>7
<1>3. CASE Restore(w)
  <2> DEFINE t == [task[w] EXCEPT !.pc = "attach"]
  <2>1. \/ Begin(w, t) /\ status' = [status EXCEPT ![task[w].o] = "awaiting_payment"]
        \/ Finish(w) /\ UNCHANGED status
    BY <1>3 DEF Restore, SettleFailed, Goto, Begin
  <2>2. t # Idle /\ t.pc = "attach" /\ t.o = task[w].o /\ t.op = task[w].op
    BY <1>r DEF Task, Idle
  <2> HIDE DEF t
  <2>3. \A x \in Slots \ {w} : task'[x] = task[x]
    BY <2>1, SlotSteps
  <2>4. task[w].pc = "restore" /\ task[w].op \in Settling /\ UNCHANGED <<hold, timers>>
    BY <1>3, <1>r DEF Restore, Earned
  <2>5. \A p \in Orders \ {task[w].o} : Unmoved(p)
    BY <1>r, <2>1, <2>4 DEF Unmoved, Types, TypeOK
  <2>6. CASE Begin(w, t)
    <3>1. task'[w] = t
      BY <2>6, SlotChange
    <3>2. HoldingNext(t)
      BY <2>2, <2>4 DEF HoldingNext
    <3> QED
      BY <1>r, <2>2, <2>3, <2>5, <3>1, <3>2, HoldHand
  <2>7. CASE UNCHANGED status
    <3>1. ~Holding(task[w])
      BY <2>4 DEF Holding
    <3>2. \A p \in Orders : Unmoved(p)
      BY <2>4, <2>7 DEF Unmoved
    <3> QED
      BY <1>r, <2>3, <3>1, <3>2, HoldLeave
  <2> QED
    BY <2>1, <2>6, <2>7
<1>4. CASE Attach(w)
  <2> DEFINE to == IF task[w].seen = "draft" THEN "awaiting_payment" ELSE "paid"
             t == [task[w] EXCEPT !.pc = "check", !.seen = "none", !.to = to]
  <2>1. Begin(w, t)
    BY <1>4 DEF Attach
  <2> HIDE DEF to
  <2>2. t # Idle /\ t.pc = "check" /\ t.o = task[w].o /\ t.op = task[w].op
    BY <1>r DEF Task, Idle
  <2> HIDE DEF t
  <2>3. task'[w] = t /\ \A x \in Slots \ {w} : task'[x] = task[x]
    BY <2>1, SlotChange
  <2>4. \A p \in Orders \ {task[w].o} : Unmoved(p)
    BY <1>4, <1>r DEF Attach, Unmoved, Types, TypeOK
  <2>5. HoldingNext(t)
    BY <1>4, <1>r, <2>2 DEF HoldingNext, Earned, Attach
  <2> QED
    BY <1>r, <2>2, <2>3, <2>4, <2>5, HoldHand
<1> QED
  BY <1>1, <1>2, <1>3, <1>4

LEMMA StepHeld ==
    ASSUME NEW w \in Slots
    PROVE  Types /\ EarnedInv /\ SerialInv /\ HoldInv /\ Step(w) => HoldInv'
<1> SUFFICES ASSUME Types, EarnedInv, SerialInv, HoldInv, Step(w), task[w] # Idle PROVE HoldInv'
  BY DEF Step, Ready, ReadyNote, Mint, AttachIntent, Extend, Enqueue, Ledger,
         Confirm, History, Restore, Attach, Spend, Check, Apply, At
<1>r. /\ task[w] \in Task
      /\ task[w].o \in Orders
      /\ InStep(task[w])
  BY Running DEF Types, SerialInv
<1> USE DEF At, rowVars, holdVars
<1>1. CASE Ready(w)
  <2>1. \A x \in Slots \ {w} : task'[x] = task[x]
    BY <1>1, SlotChange DEF Ready, Goto, Begin
  <2>2. ~Holding(task[w])
    BY <1>1 DEF Ready, Holding
  <2>3. \A p \in Orders : Unmoved(p)
    BY <1>1, <1>r DEF Ready, Unmoved, InStep, Cancellable, Types, TypeOK
  <2> QED
    BY <1>r, <2>1, <2>2, <2>3, HoldLeave
<1>2. CASE ReadyNote(w) \/ Mint(w) \/ AttachIntent(w) \/ History(w) \/ Spend(w)
  <2>1. \A x \in Slots \ {w} : task'[x] = task[x]
    BY <1>2, SlotChange
       DEF ReadyNote, Mint, AttachIntent, History, Spend, Goto, Begin, SettleFailed
  <2>2. ~Holding(task[w])
    BY <1>2 DEF ReadyNote, Mint, AttachIntent, History, Spend, Holding
  <2>3. \A p \in Orders : Unmoved(p)
    BY <1>2, UnheldUnmoved DEF ReadyNote, Mint, AttachIntent, History, Spend, Unheld
  <2> QED
    BY <1>r, <2>1, <2>2, <2>3, HoldLeave
<1>3. CASE Extend(w)
  <2> DEFINE t == [task[w] EXCEPT !.pc = "enqueue"]
  <2>1. t # Idle /\ t.pc = "enqueue" /\ t.o = task[w].o /\ t.job = task[w].job
    BY <1>r DEF Task, Idle
  <2>2. Begin(w, t)
    BY <1>3 DEF Extend, Goto, Begin
  <2> HIDE DEF t
  <2>3. task'[w] = t /\ \A x \in Slots \ {w} : task'[x] = task[x]
    BY <2>2, SlotChange
  <2>4. /\ UNCHANGED <<status, timers>>
        /\ \A p \in Orders \ {task[w].o} : hold'[p] = hold[p]
        /\ status[task[w].o] \in Cancellable => hold'[task[w].o] = task[w].job
    BY <1>3, <1>r DEF Extend, Types, TypeOK
  <2>5. \A p \in Orders \ {task[w].o} : Unmoved(p)
    BY <2>4 DEF Unmoved
  <2>6. CASE status[task[w].o] \in Cancellable
    <3>1. HoldingNext(t)
      BY <2>1, <2>4, <2>6 DEF HoldingNext
    <3> QED
      BY <1>r, <2>1, <2>3, <2>5, <3>1, HoldHand
  <2>7. CASE status[task[w].o] \notin Cancellable
    BY <1>r, <2>3, <2>4, <2>5, <2>7, HoldSettled
  <2> QED
    BY <2>6, <2>7
<1>4. CASE Enqueue(w)
  <2>1. \A x \in Slots \ {w} : task'[x] = task[x]
    BY <1>4, SlotChange DEF Enqueue
  <2> QED
    BY <1>4, <1>r, <2>1, HoldQueued DEF Enqueue
<1>5. CASE Ledger(w) \/ Confirm(w) \/ Restore(w) \/ Attach(w)
  BY <1>5, SettlingHeld
<1>6. CASE Check(w)
  BY <1>6, CheckHeld
<1>7. CASE Apply(w)
  BY <1>7, ApplyHeld
<1> QED
  BY <1>1, <1>2, <1>3, <1>4, <1>5, <1>6, <1>7 DEF Step

LEMMA TimerHeld == Types /\ EarnedInv /\ SerialInv /\ HoldInv /\ TimerStep => HoldInv'
<1> SUFFICES ASSUME Types, EarnedInv, SerialInv, HoldInv, TimerStep, task["timer"] # Idle
             PROVE  HoldInv'
  BY DEF TimerStep, Ask, AskReconcile, Grace, Delay, Announce, At
<1>r. /\ "timer" \in Slots
      /\ task["timer"] \in Task
      /\ task["timer"].o \in Orders
      /\ Earned(task["timer"])
      /\ InStep(task["timer"])
  BY Running DEF Slots, Types, EarnedInv, SerialInv
<1> USE DEF At, rowVars, holdVars
<1>1. CASE Ask
  <2> DEFINE settling == [task["timer"] EXCEPT !.op = "reconcile", !.pc = "reconcile"]
             grace == [task["timer"] EXCEPT !.pc = "grace"]
             check == [task["timer"] EXCEPT !.pc = "check"]
  <2>1. Begin("timer", settling) \/ Begin("timer", grace) \/ Begin("timer", check)
    BY <1>1 DEF Ask, Goto, Begin
  <2>2. /\ settling # Idle /\ settling.op = "reconcile" /\ settling.pc = "reconcile"
        /\ settling.o = task["timer"].o
    BY <1>r DEF Task, Idle
  <2>3. grace # Idle /\ grace.o = task["timer"].o /\ grace.op = "timer" /\ grace.pc = "grace"
    BY <1>1, <1>r DEF Ask, Earned, Task, Idle
  <2>4. check # Idle /\ check.o = task["timer"].o /\ check.op = "timer" /\ check.pc = "check"
    BY <1>1, <1>r DEF Ask, Earned, Task, Idle
  <2> HIDE DEF settling, grace, check
  <2>5. HoldingNext(settling) /\ HoldingNext(grace) /\ HoldingNext(check)
    BY <2>2, <2>3, <2>4 DEF HoldingNext, Settling
  <2>6. \A p \in Orders : Unmoved(p)
    BY <1>1, UnheldUnmoved DEF Ask, Unheld
  <2>7. PICK t \in {settling, grace, check} : Begin("timer", t)
    BY <2>1
  <2>8. task'["timer"] = t /\ \A x \in Slots \ {"timer"} : task'[x] = task[x]
    BY <1>r, <2>7, SlotChange
  <2>9. t # Idle /\ t.o = task["timer"].o /\ HoldingNext(t)
    BY <2>2, <2>3, <2>4, <2>5
  <2> QED
    BY <1>r, <2>6, <2>8, <2>9, HoldHand
<1>2. CASE AskReconcile
  <2> DEFINE t == Reconciliation("timer", task["timer"].o)
  <2>1. t # Idle /\ t.o = task["timer"].o /\ t.op = "reconcile" /\ t.pc = "ledger"
    BY DEF Reconciliation, Handler, Idle
  <2>2. \/ status[task["timer"].o] \in Reconcilable /\ Begin("timer", t)
        \/ status[task["timer"].o] \notin Reconcilable /\ Finish("timer")
    BY <1>2, <1>r DEF AskReconcile, InStep
  <2> HIDE DEF t
  <2>3. \A x \in Slots \ {"timer"} : task'[x] = task[x]
    BY <1>r, <2>2, SlotSteps
  <2>4. Unheld /\ \A p \in Orders : Unmoved(p)
    BY <1>2, UnheldUnmoved DEF AskReconcile, Unheld
  <2>5. CASE Begin("timer", t)
    <3>1. task'["timer"] = t
      BY <1>r, <2>5, SlotChange
    <3>2. HoldingNext(t)
      BY <2>1 DEF HoldingNext, Settling
    <3> QED
      BY <1>r, <2>1, <2>3, <2>4, <3>1, <3>2, HoldHand
  <2>6. CASE status[task["timer"].o] \notin Reconcilable
    <3>1. status'[task["timer"].o] \notin Cancellable
      BY <2>4, <2>6 DEF Unheld, Reconcilable, Cancellable
    <3> QED
      BY <1>r, <2>3, <2>4, <3>1, HoldSettled
  <2> QED
    BY <2>2, <2>5, <2>6
<1>3. CASE Grace
  <2> DEFINE t == [task["timer"] EXCEPT !.pc = "delay"]
  <2>1. t # Idle /\ t.pc = "delay" /\ t.o = task["timer"].o /\ t.job = task["timer"].job
    BY <1>r DEF Task, Idle
  <2>2. Begin("timer", t)
    BY <1>3 DEF Grace, Goto, Begin
  <2> HIDE DEF t
  <2>3. task'["timer"] = t /\ \A x \in Slots \ {"timer"} : task'[x] = task[x]
    BY <1>r, <2>2, SlotChange
  <2>4. \A p \in Orders \ {task["timer"].o} : Unmoved(p)
    BY <1>3, <1>r DEF Grace, Unmoved, Types, TypeOK
  <2>5. hold'[task["timer"].o] = task["timer"].job
    BY <1>3, <1>r DEF Grace, Types, TypeOK
  <2>6. HoldingNext(t)
    BY <2>1, <2>5 DEF HoldingNext
  <2> QED
    BY <1>r, <2>1, <2>3, <2>4, <2>6, HoldHand
<1>4. CASE Delay
  <2>1. \A x \in Slots \ {"timer"} : task'[x] = task[x]
    BY <1>4, <1>r, SlotChange DEF Delay
  <2> QED
    BY <1>4, <1>r, <2>1, HoldQueued DEF Delay
<1>5. CASE Announce
  <2>1. \A x \in Slots \ {"timer"} : task'[x] = task[x]
    BY <1>5, <1>r, SlotChange DEF Announce
  <2>2. ~Holding(task["timer"])
    BY <1>5 DEF Announce, Holding
  <2>3. \A p \in Orders : Unmoved(p)
    BY <1>5, UnheldUnmoved DEF Announce, Unheld
  <2> QED
    BY <1>r, <2>1, <2>2, <2>3, HoldLeave
<1> QED
  BY <1>1, <1>2, <1>3, <1>4, <1>5 DEF TimerStep

LEMMA NextHeld ==
    Types /\ EarnedInv /\ SerialInv /\ HoldInv /\ [Next]_vars /\ faults' = 0 => HoldInv'
<1> SUFFICES ASSUME Types, EarnedInv, SerialInv, HoldInv, [Next]_vars, faults' = 0 PROVE HoldInv'
  OBVIOUS
<1>1. CASE \E w \in Workers, o \in Orders : Request(w, o)
  BY <1>1, RequestHeld
<1>2. CASE \E w \in Workers, e \in Event : Deliver(w, e)
  BY <1>2, DeliverHeld
<1>3. CASE \E o \in Orders : StartReconcile("sweep", o)
  BY <1>3, SweepHeld DEF Slots
<1>4. CASE \E o \in Orders, t \in Timers : Fire(o, t)
  BY <1>4, FireHeld
<1>5. CASE \E w \in Slots : Step(w)
  BY <1>5, StepHeld
<1>6. CASE TimerStep
  BY <1>6, TimerHeld
<1>7. CASE Environment
  BY <1>7, EnvironmentHeld
<1>8. CASE UNCHANGED vars
  BY <1>8, UnheldUnmoved, HoldStill DEF vars, Unheld
<1> QED
  BY <1>1, <1>2, <1>3, <1>4, <1>5, <1>6, <1>7, <1>8 DEF Next

(* Every deadline has its job: while handlers of one order do not overlap   *)
(* and none crashes, an unpaid order with nothing running on it whose hold  *)
(* has a deadline has, in the queue, the job that will act on it, whatever  *)
(* extended, delayed or stepped aside before.                               *)
THEOREM HoldsCovered ==
    ASSUME Overlap = FALSE PROVE Spec => [](faults = 0 => HoldCovered)
<1> DEFINE Inv == faults = 0 => HoldInv
           Base == Types /\ EarnedInv /\ SerialInv
<1>1. Init => Inv
  BY DEF Init, HoldInv, Covered
<1>2. Base /\ Inv /\ [Next]_vars => Inv'
  BY NextHeld, FaultsGrow
<1>3. Inv => (faults = 0 => HoldCovered)
  BY DEF HoldInv, Covered, HoldCovered, Quiet
<1>4. Spec => []Base
  BY AlwaysSerial
<1> QED
  BY <1>1, <1>2, <1>3, <1>4, PTL DEF Spec
=============================================================================
