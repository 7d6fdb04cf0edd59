--------------------------- MODULE Returns_proofs ---------------------------
(***************************************************************************)
(* What returns promise, for every set of requests, lines, prices and      *)
(* charge.                                                                 *)
(*                                                                         *)
(* Every refunded return was paid back (RefundedIsPaid), with handlers     *)
(* that overlap and crash.  The lines of a request never change once it is *)
(* stored, so the amount a handler computed from the lines it read is the  *)
(* amount of the row it writes to, whatever others wrote in between; and   *)
(* Stripe forgets no refund.  What needs care is that no insertion hits a  *)
(* request another handler works on: Handlers and Fresh.                   *)
(*                                                                         *)
(* Every item marked as restocked has its units in stock (MarkedIsInStock),*)
(* again with any overlap and crash.  The items that are back are those    *)
(* marked and those a handler put back and is about to mark: their units   *)
(* form one set, Back(v), and each put-back adds at least what it adds to  *)
(* that set: Stocked.                                                      *)
(*                                                                         *)
(* Two promises need handlers that do not overlap (raced is FALSE), for    *)
(* the code reads, decides and writes without a lock: what a handler read  *)
(* is then still so when it writes (Solo), whence units are put back once  *)
(* (RestockedOnce, no crash either) and no more is requested back than was *)
(* ordered (ReturnsFitOrder).                                              *)
(***************************************************************************)
EXTENDS Returns, FiniteSetTheorems, TLAPS

-----------------------------------------------------------------------------
(* Each bucket movement keeps natural numbers in the buckets. *)
LEMMA LessNat == \A n, m \in Nat : Less(n, m) \in Nat
BY DEF Less

LEMMA MovedType ==
    ASSUME NEW levels \in StockLevels, NEW q \in Claim, NEW prev, NEW next
    PROVE  Moved(levels, q, prev, next) \in StockLevels
<1>t. \A v \in Variants : /\ levels[v].available \in Nat
                            /\ levels[v].reserved \in Nat
                            /\ levels[v].committed \in Nat
                            /\ q[v] \in Nat
                            /\ levels[v].available + q[v] \in Nat
                            /\ levels[v].committed + q[v] \in Nat
  BY DEF StockLevels, Row, Claim
<1>1. Release(levels, q) \in StockLevels
  <2>1. ASSUME NEW v \in Variants PROVE Release(levels, q)[v] \in Row
    <3>1. Less(levels[v].reserved, q[v]) \in Nat
      BY <1>t, LessNat
    <3> QED
      BY <1>t, <3>1 DEF Release, Row
  <2> QED
    BY <2>1 DEF Release, StockLevels
<1>2. Commit(levels, q) \in StockLevels
  <2>1. ASSUME NEW v \in Variants PROVE Commit(levels, q)[v] \in Row
    <3>1. Less(levels[v].reserved, q[v]) \in Nat
      BY <1>t, LessNat
    <3> QED
      BY <1>t, <3>1 DEF Commit, Row
  <2> QED
    BY <2>1 DEF Commit, StockLevels
<1>3. ReleaseCommitted(levels, q) \in StockLevels
  <2>1. ASSUME NEW v \in Variants PROVE ReleaseCommitted(levels, q)[v] \in Row
    <3>1. Less(levels[v].committed, q[v]) \in Nat
      BY <1>t, LessNat
    <3> QED
      BY <1>t, <3>1 DEF ReleaseCommitted, Row
  <2> QED
    BY <2>1 DEF ReleaseCommitted, StockLevels
<1>4. ConfirmSale(levels, q) \in StockLevels
  <2>1. ASSUME NEW v \in Variants PROVE ConfirmSale(levels, q)[v] \in Row
    <3>1. Less(levels[v].committed, q[v]) \in Nat
      BY <1>t, LessNat
    <3> QED
      BY <1>t, <3>1 DEF ConfirmSale, Row
  <2> QED
    BY <2>1 DEF ConfirmSale, StockLevels
<1> QED
  BY <1>1, <1>2, <1>3, <1>4 DEF Moved

OnRequest == {"write", "order", "stripe", "record", "restock", "mark"}
AfterSale == Refundable \cup {"cancelled", "refunded"}

\* What a handler has established; an idle worker has no such step.
HandlerOK(t) ==
    /\ t.pc = "insert" => t.r \in Requests /\ returns[t.r] = Absent
                          /\ t.read \in Request /\ t.read.status = "requested"
    /\ t.pc \in OnRequest => t.r \in Requests /\ returns[t.r] \in Request
                             /\ t.read \in Request /\ returns[t.r].lines = t.read.lines
    /\ t.pc \in {"record", "restock", "mark"} => Amount(t.read.lines) \in refunds
    /\ t.pc = "write" => t.to \in {"approved", "rejected"}
    /\ t.pc \in {"restock", "mark"} => t.left \subseteq DOMAIN t.read.lines
    /\ t.pc \in {"check", "apply"} => t.to \in AfterSale
Handlers == \A w \in Workers : HandlerOK(task[w])

\* Two requests being inserted are different.
Fresh ==
    \A w, x \in Workers :
        w # x /\ task[w].pc = "insert" /\ task[x].pc = "insert" => task[w].r # task[x].r

Inv == TypeOK /\ Handlers /\ Fresh /\ RefundedIsPaid

-----------------------------------------------------------------------------
(* The next state of a handler, and the frames of the actions. *)

HandlerNext(t) ==
    /\ t.pc = "insert" => t.r \in Requests /\ returns'[t.r] = Absent
                          /\ t.read \in Request /\ t.read.status = "requested"
    /\ t.pc \in OnRequest => t.r \in Requests /\ returns'[t.r] \in Request
                             /\ t.read \in Request /\ returns'[t.r].lines = t.read.lines
    /\ t.pc \in {"record", "restock", "mark"} => Amount(t.read.lines) \in refunds'
    /\ t.pc = "write" => t.to \in {"approved", "rejected"}
    /\ t.pc \in {"restock", "mark"} => t.left \subseteq DOMAIN t.read.lines
    /\ t.pc \in {"check", "apply"} => t.to \in AfterSale

\* A row keeps its lines, unless worker w inserts it.
RowKept(w, r) ==
    \/ returns'[r] = returns[r]
    \/ returns[r] \in Request /\ returns'[r] \in Request /\ returns'[r].lines = returns[r].lines
    \/ task[w].pc = "insert" /\ r = task[w].r

LEMMA AbsentIsNoRequest == Absent \notin Request
BY DEF Absent, Request, ReturnStatuses

LEMMA IdleOK == HandlerNext(Idle) /\ Idle.pc = "idle"
BY DEF HandlerNext, Idle, OnRequest

(* A step of one worker keeps what the others established. *)
LEMMA HandlersFrame ==
    ASSUME TypeOK, Handlers, Fresh, NEW w \in Workers, NEW t \in Task \cup {Idle},
           task' = [task EXCEPT ![w] = t], HandlerNext(t), refunds \subseteq refunds',
           \A r \in Requests : RowKept(w, r),
           t.pc = "insert" => \A x \in Workers : task[x].pc = "insert" => task[x].r # t.r
    PROVE  task' \in [Workers -> Task \cup {Idle}] /\ Handlers' /\ Fresh'
<1>1. task' \in [Workers -> Task \cup {Idle}] /\ task'[w] = t
  BY DEF TypeOK
<1>2. \A x \in Workers \ {w} : task'[x] = task[x]
  BY DEF TypeOK
<1>3. ASSUME NEW x \in Workers \ {w} PROVE HandlerNext(task[x])
  <2>1. HandlerOK(task[x]) /\ HandlerOK(task[w])
    BY DEF Handlers
  <2>2. ASSUME task[x].pc = "insert" PROVE returns'[task[x].r] = Absent
    <3>1. task[x].r \in Requests /\ returns[task[x].r] = Absent
      BY <2>1, <2>2 DEF HandlerOK
    <3>2. ~(task[w].pc = "insert" /\ task[x].r = task[w].r)
      BY <2>2 DEF Fresh
    <3> QED
      BY <3>1, <3>2, AbsentIsNoRequest DEF RowKept
  <2>3. ASSUME task[x].pc \in OnRequest
        PROVE  returns'[task[x].r] \in Request /\ returns'[task[x].r].lines = task[x].read.lines
    <3>1. /\ task[x].r \in Requests /\ returns[task[x].r] \in Request
          /\ returns[task[x].r].lines = task[x].read.lines
      BY <2>1, <2>3 DEF HandlerOK
    <3>2. ~(task[w].pc = "insert" /\ task[x].r = task[w].r)
      BY <2>1, <3>1, AbsentIsNoRequest DEF HandlerOK
    <3> QED
      BY <3>1, <3>2 DEF RowKept
  <2> QED
    BY <2>1, <2>2, <2>3 DEF HandlerOK, HandlerNext
<1>4. Handlers'
  BY <1>1, <1>2, <1>3 DEF Handlers, HandlerOK, HandlerNext
<1>5. Fresh'
  BY <1>1, <1>2 DEF Fresh
<1> QED
  BY <1>1, <1>4, <1>5

(* A handler that ends leaves nothing to establish. *)
LEMMA FinishFrame ==
    ASSUME TypeOK, Handlers, Fresh, NEW w \in Workers, Finish(w), refunds \subseteq refunds',
           \A r \in Requests : RowKept(w, r)
    PROVE  task' \in [Workers -> Task \cup {Idle}] /\ Handlers' /\ Fresh'
BY HandlersFrame, IdleOK DEF Finish

LEMMA QuietRows ==
    ASSUME UNCHANGED returns, NEW w PROVE \A r \in Requests : RowKept(w, r)
BY DEF RowKept

(* The status of one row is replaced; its lines stay. *)
LEMMA StatusFrame ==
    ASSUME TypeOK, NEW w, NEW r \in Requests, returns[r] \in Request,
           NEW s \in ReturnStatuses, SetStatus(r, s)
    PROVE  /\ returns' \in [Requests -> Request \cup {Absent}]
           /\ \A q \in Requests : RowKept(w, q)
           /\ returns'[r].status = s /\ returns'[r].lines = returns[r].lines
           /\ \A q \in Requests \ {r} : returns'[q] = returns[q]
<1>1. [returns[r] EXCEPT !.status = s] \in Request
  BY DEF Request
<1>2. /\ [returns[r] EXCEPT !.status = s].status = s
      /\ [returns[r] EXCEPT !.status = s].lines = returns[r].lines
  BY DEF Request
<1>3. returns' \in [Requests -> Request \cup {Absent}]
  BY <1>1 DEF SetStatus, TypeOK
<1>4. returns'[r] = [returns[r] EXCEPT !.status = s]
  BY DEF SetStatus, TypeOK
<1>5. \A q \in Requests \ {r} : returns'[q] = returns[q]
  BY DEF SetStatus, TypeOK
<1> QED
  BY <1>1, <1>2, <1>3, <1>4, <1>5 DEF RowKept

(* Rows that are not refunded anew stay paid. *)
LEMMA PaidFrame ==
    ASSUME TypeOK, RefundedIsPaid, refunds \subseteq refunds',
           \A r \in Requests :
              returns'[r].status \in {"refunded", "restocked"} =>
                 \/ Amount(returns'[r].lines) \in refunds'
                 \/ returns[r].status \in {"refunded", "restocked"}
                    /\ returns'[r].lines = returns[r].lines
    PROVE  RefundedIsPaid'
<1>1. \A r \in Requests : returns[r].status \in {"refunded", "restocked"} =>
                             Amount(returns[r].lines) \in refunds
  BY DEF RefundedIsPaid, In
<1>2. \A r \in Requests : returns'[r].status \in {"refunded", "restocked"} =>
                             Amount(returns'[r].lines) \in refunds'
  BY <1>1
<1> QED
  BY <1>2 DEF RefundedIsPaid, In

LEMMA QuietPaid ==
    ASSUME TypeOK, RefundedIsPaid, UNCHANGED returns, refunds \subseteq refunds'
    PROVE  RefundedIsPaid'
BY PaidFrame

(* A running handler is a task, and knows what its step requires. *)
LEMMA Running ==
    ASSUME TypeOK, Handlers, NEW w \in Workers, task[w].pc # "idle"
    PROVE  task[w] \in Task /\ HandlerOK(task[w])
BY DEF TypeOK, Handlers, Idle

LEMMA HandlerType ==
    ASSUME NEW pc \in Steps, NEW r \in Requests \cup {"none"},
           NEW to \in ReturnStatuses \cup Statuses
    PROVE  Handler(pc, r, to) \in Task
BY DEF Handler, Task, Statuses

(* A handler that goes on with a refund. *)
LEMMA GotoFrame ==
    ASSUME TypeOK, Handlers, Fresh, NEW w \in Workers, task[w].pc \in OnRequest,
           NEW pc \in {"stripe", "record", "close"}, Goto(w, pc), refunds \subseteq refunds',
           \A r \in Requests : RowKept(w, r),
           pc = "record" => Amount(task[w].read.lines) \in refunds'
    PROVE  task' \in [Workers -> Task \cup {Idle}] /\ Handlers' /\ Fresh'
<1> DEFINE t == [task[w] EXCEPT !.pc = pc]
<1>1. task[w] \in Task /\ HandlerOK(task[w])
  BY Running DEF OnRequest
<1>2. t \in Task /\ t.pc = pc /\ t.r = task[w].r /\ t.read = task[w].read
  BY <1>1 DEF Task, Steps
<1>3. /\ t.r \in Requests /\ returns[t.r] \in Request
      /\ t.read \in Request /\ returns[t.r].lines = t.read.lines
  BY <1>1, <1>2 DEF HandlerOK
<1>4. returns'[t.r] \in Request /\ returns'[t.r].lines = t.read.lines
  BY <1>2, <1>3 DEF RowKept, OnRequest
<1>5. task' = [task EXCEPT ![w] = t]
  BY DEF Goto
<1> HIDE DEF t
<1>6. HandlerNext(t)
  BY <1>2, <1>3, <1>4 DEF HandlerNext
<1> QED
  BY <1>2, <1>5, <1>6, HandlersFrame

-----------------------------------------------------------------------------
(* The actions. *)

LEMMA InitInv == Init => Inv
<1> SUFFICES ASSUME Init PROVE TypeOK /\ Handlers /\ Fresh /\ RefundedIsPaid
  BY DEF Inv
<1>1. TypeOK
  <2>1. stock \in StockLevels
    BY OrderedAssumption DEF Init, StockLevels, Row, Claim
  <2>2. order \in Refundable \cup {"cancelled", "refunded"} /\ faults \in 0 .. MaxFaults
    BY SoldAssumption, FaultsAssumption DEF Init
  <2>3. returns \in [Requests -> Request \cup {Absent}] /\ task \in [Workers -> Task \cup {Idle}]
    BY DEF Init
  <2>4. events \subseteq refunds /\ ledger \subseteq refunds
    BY DEF Init
  <2>5. released \in BOOLEAN /\ raced \in BOOLEAN
    BY DEF Init
  <2> QED
    BY <2>1, <2>2, <2>3, <2>4, <2>5 DEF TypeOK
<1>2. \A w \in Workers : task[w].pc = "idle"
  BY DEF Init, Idle
<1>3. Handlers /\ Fresh
  BY <1>2 DEF Handlers, HandlerOK, Fresh, OnRequest
<1>4. RefundedIsPaid
  BY DEF Init, Absent, RefundedIsPaid, In
<1> QED
  BY <1>1, <1>3, <1>4

LEMMA StartCreateInv ==
    ASSUME Inv, NEW w \in Workers, NEW r \in Requests, NEW lines \in Dtos, NEW b \in BOOLEAN,
           StartCreate(w, r, lines, b)
    PROVE  Inv'
<1> USE DEF Inv
<1> DEFINE read == [status |-> "requested", lines |-> lines, restock |-> b, marked |-> {}]
           h == Handler("insert", r, "requested")
           t == [h EXCEPT !.read = read]
<1>1. read \in Request
  BY DtosAssumption DEF Request, ReturnStatuses
<1>2. h \in Task
  BY HandlerType DEF Steps, ReturnStatuses
<1>3. t \in Task /\ t.pc = "insert" /\ t.r = r /\ t.read = read
  <2>1. h.pc = "insert" /\ h.r = r
    BY DEF Handler
  <2> HIDE DEF h, read
  <2> QED
    BY <1>1, <1>2, <2>1 DEF Task
<1>4. /\ task[w] = Idle /\ task' = [task EXCEPT ![w] = t] /\ raced' \in BOOLEAN
      /\ UNCHANGED <<order, stock, returns, refunds, events, ledger, released, faults>>
      /\ returns[r] = Absent
      /\ \A x \in Workers : task[x] # Idle => task[x].r # r
  BY DEF StartCreate, Start
<1>5. HandlerNext(t)
  BY <1>1, <1>3, <1>4 DEF HandlerNext, OnRequest
<1>6. \A x \in Workers : task[x].pc = "insert" => task[x].r # t.r
  BY <1>3, <1>4, IdleOK
<1> HIDE DEF t
<1>7. task' \in [Workers -> Task \cup {Idle}] /\ Handlers' /\ Fresh'
  BY <1>3, <1>4, <1>5, <1>6, QuietRows, HandlersFrame
<1>8. TypeOK'
  BY <1>4, <1>7 DEF TypeOK
<1>9. RefundedIsPaid'
  BY <1>4, QuietPaid
<1> QED
  BY <1>7, <1>8, <1>9

LEMMA InsertInv ==
    ASSUME Inv, NEW w \in Workers, Insert(w)
    PROVE  Inv'
<1> USE DEF Inv
<1>1. task[w] \in Task /\ HandlerOK(task[w]) /\ task[w].pc = "insert"
  BY Running DEF Insert, At
<1>2. /\ task[w].r \in Requests /\ task[w].read \in Request
      /\ task[w].read.status = "requested"
  BY <1>1 DEF HandlerOK
<1>3. /\ returns' \in [Requests -> Request \cup {Absent}]
      /\ \A q \in Requests \ {task[w].r} : returns'[q] = returns[q]
      /\ returns'[task[w].r] = task[w].read
  BY <1>2 DEF Insert, TypeOK
<1>4. \A q \in Requests : RowKept(w, q)
  BY <1>1, <1>3 DEF RowKept
<1>5. /\ Finish(w)
      /\ UNCHANGED <<order, stock, refunds, events, ledger, released, raced, faults>>
  BY DEF Insert, Finish
<1>6. task' \in [Workers -> Task \cup {Idle}] /\ Handlers' /\ Fresh'
  BY <1>4, <1>5, FinishFrame
<1>7. TypeOK'
  BY <1>3, <1>5, <1>6 DEF TypeOK
<1>8. RefundedIsPaid'
  BY <1>2, <1>3, <1>5, PaidFrame
<1> QED
  BY <1>6, <1>7, <1>8

LEMMA StartTransitionInv ==
    ASSUME Inv, NEW w \in Workers, NEW r \in Requests, NEW to \in ReturnStatuses,
           StartTransition(w, r, to)
    PROVE  Inv'
<1> USE DEF Inv
<1> DEFINE read == returns[r]
           pc == CASE to = "refunded" -> "order" [] to = "restocked" -> "restock"
                   [] OTHER -> "write"
           left == DOMAIN read.lines \ read.marked
           h == Handler(pc, r, to)
           t == [h EXCEPT !.read = read, !.left = left]
<1>1. read \in Request
  BY DEF StartTransition, TypeOK
<1>2. left \in SUBSET Nat
  BY <1>1 DEF Request
<1>3. pc \in {"order", "restock", "write"} /\ (pc = "write" => to \notin {"refunded", "restocked"})
      /\ (pc = "restock" => to = "restocked")
  OBVIOUS
<1>4. to \in ReturnTransitions[read.status]
  BY DEF StartTransition
<1>5. (pc = "write" => to \in {"approved", "rejected"})
      /\ (pc = "restock" => read.status = "refunded")
  BY <1>1, <1>3, <1>4 DEF ReturnTransitions, Request, ReturnStatuses
<1>6. h \in Task
  BY <1>3, HandlerType DEF Steps
<1>7. t \in Task /\ t.pc = pc /\ t.r = r /\ t.to = to /\ t.read = read /\ t.left = left
  <2>1. h.pc = pc /\ h.r = r /\ h.to = to
    BY DEF Handler
  <2> HIDE DEF h, read, left, pc
  <2> QED
    BY <1>1, <1>2, <1>6, <2>1 DEF Task
<1>8. /\ task' = [task EXCEPT ![w] = t] /\ raced' \in BOOLEAN
      /\ UNCHANGED <<order, stock, returns, refunds, events, ledger, released, faults>>
  BY DEF StartTransition, Start
<1>9. read.status = "refunded" => Amount(read.lines) \in refunds
  BY DEF RefundedIsPaid, In
<1>10. HandlerNext(t)
  <2> HIDE DEF t, pc
  <2> QED
    BY <1>1, <1>3, <1>5, <1>7, <1>8, <1>9 DEF HandlerNext, OnRequest
<1>11. t.pc # "insert"
  BY <1>3, <1>7
<1> HIDE DEF t
<1>12. task' \in [Workers -> Task \cup {Idle}] /\ Handlers' /\ Fresh'
  BY <1>7, <1>8, <1>10, <1>11, QuietRows, HandlersFrame
<1>13. TypeOK'
  BY <1>8, <1>12 DEF TypeOK
<1>14. RefundedIsPaid'
  BY <1>8, QuietPaid
<1> QED
  BY <1>12, <1>13, <1>14

LEMMA WriteInv ==
    ASSUME Inv, NEW w \in Workers, Write(w)
    PROVE  Inv'
<1> USE DEF Inv
<1>1. task[w] \in Task /\ HandlerOK(task[w]) /\ task[w].pc = "write"
  BY Running DEF Write, At
<1>2. /\ task[w].r \in Requests /\ returns[task[w].r] \in Request
      /\ task[w].to \in {"approved", "rejected"}
  BY <1>1 DEF HandlerOK, OnRequest
<1>3. /\ SetStatus(task[w].r, task[w].to) /\ Finish(w)
      /\ UNCHANGED <<order, stock, refunds, events, ledger, released, raced, faults>>
  BY DEF Write, Finish
<1>4. /\ returns' \in [Requests -> Request \cup {Absent}]
      /\ \A q \in Requests : RowKept(w, q)
      /\ returns'[task[w].r].status = task[w].to
      /\ \A q \in Requests \ {task[w].r} : returns'[q] = returns[q]
  BY <1>2, <1>3, StatusFrame DEF ReturnStatuses
<1>5. task' \in [Workers -> Task \cup {Idle}] /\ Handlers' /\ Fresh'
  BY <1>3, <1>4, FinishFrame
<1>6. TypeOK'
  BY <1>3, <1>4, <1>5 DEF TypeOK
<1>7. RefundedIsPaid'
  BY <1>2, <1>3, <1>4, PaidFrame
<1> QED
  BY <1>5, <1>6, <1>7

LEMMA ReadOrderInv ==
    ASSUME Inv, NEW w \in Workers, ReadOrder(w)
    PROVE  Inv'
<1> USE DEF Inv
<1>1. UNCHANGED <<order, stock, returns, refunds, events, ledger, released, raced, faults>>
  BY DEF ReadOrder, Goto, Finish
<1>2. task' \in [Workers -> Task \cup {Idle}] /\ Handlers' /\ Fresh'
  <2>1. CASE Goto(w, "stripe")
    BY <1>1, <2>1, QuietRows, GotoFrame DEF ReadOrder, At, OnRequest
  <2>2. CASE Finish(w)
    BY <1>1, <2>2, QuietRows, FinishFrame
  <2> QED
    BY <2>1, <2>2 DEF ReadOrder
<1>3. TypeOK'
  BY <1>1, <1>2 DEF TypeOK
<1>4. RefundedIsPaid'
  BY <1>1, QuietPaid
<1> QED
  BY <1>2, <1>3, <1>4

LEMMA RefundInv ==
    ASSUME Inv, NEW w \in Workers, Refund(w)
    PROVE  Inv'
<1> USE DEF Inv
<1> DEFINE amount == Amount(task[w].read.lines)
<1>1. /\ UNCHANGED <<order, stock, returns, ledger, released, raced, faults>>
      /\ refunds \subseteq refunds' /\ events' \subseteq refunds' /\ ledger' \subseteq refunds'
  BY DEF Refund, TypeOK, Goto, Finish
<1>2. task[w].pc \in OnRequest
  BY DEF Refund, At, OnRequest
<1>3. task' \in [Workers -> Task \cup {Idle}] /\ Handlers' /\ Fresh'
  <2>1. CASE Goto(w, "record") /\ amount \in refunds'
    BY <1>1, <1>2, <2>1, QuietRows, GotoFrame
  <2>2. CASE Finish(w)
    BY <1>1, <2>2, QuietRows, FinishFrame
  <2> QED
    BY <2>1, <2>2 DEF Refund
<1>4. TypeOK'
  BY <1>1, <1>3 DEF TypeOK
<1>5. RefundedIsPaid'
  BY <1>1, QuietPaid
<1> QED
  BY <1>3, <1>4, <1>5

LEMMA RecordInv ==
    ASSUME Inv, NEW w \in Workers, Record(w)
    PROVE  Inv'
<1> USE DEF Inv
<1>1. task[w] \in Task /\ HandlerOK(task[w]) /\ task[w].pc = "record"
  BY Running DEF Record, At
<1>2. /\ task[w].r \in Requests /\ returns[task[w].r] \in Request
      /\ Amount(returns[task[w].r].lines) \in refunds
  BY <1>1 DEF HandlerOK, OnRequest
<1>3. /\ SetStatus(task[w].r, "refunded") /\ Goto(w, "close")
      /\ UNCHANGED <<order, stock, refunds, events, ledger, released, raced, faults>>
  BY DEF Record, Goto
<1>4. /\ returns' \in [Requests -> Request \cup {Absent}]
      /\ \A q \in Requests : RowKept(w, q)
      /\ returns'[task[w].r].lines = returns[task[w].r].lines
      /\ \A q \in Requests \ {task[w].r} : returns'[q] = returns[q]
  BY <1>2, <1>3, StatusFrame DEF ReturnStatuses
<1>5. task' \in [Workers -> Task \cup {Idle}] /\ Handlers' /\ Fresh'
  BY <1>1, <1>3, <1>4, GotoFrame DEF OnRequest
<1>6. TypeOK'
  BY <1>3, <1>4, <1>5 DEF TypeOK
<1>7. RefundedIsPaid'
  BY <1>2, <1>3, <1>4, PaidFrame
<1> QED
  BY <1>5, <1>6, <1>7

(* A handler that goes on to refund the order. *)
LEMMA ToRefunded ==
    /\ Handler("check", "none", "refunded") \in Task
    /\ HandlerNext(Handler("check", "none", "refunded"))
    /\ Handler("check", "none", "refunded").pc # "insert"
<1>1. Handler("check", "none", "refunded") \in Task
  BY HandlerType DEF Steps, ReturnStatuses
<1> QED
  BY <1>1 DEF HandlerNext, Handler, OnRequest, AfterSale

LEMMA CloseInv ==
    ASSUME Inv, NEW w \in Workers, Close(w)
    PROVE  Inv'
<1> USE DEF Inv
<1> DEFINE t == Handler("check", "none", "refunded")
<1>1. UNCHANGED <<order, stock, returns, refunds, events, ledger, released, raced, faults>>
  BY DEF Close, Finish
<1>2. task' \in [Workers -> Task \cup {Idle}] /\ Handlers' /\ Fresh'
  <2>1. CASE task' = [task EXCEPT ![w] = t]
    <3>1. t \in Task /\ HandlerNext(t) /\ t.pc # "insert"
      BY ToRefunded
    <3> HIDE DEF t
    <3> QED
      BY <1>1, <2>1, <3>1, QuietRows, HandlersFrame
  <2>2. CASE Finish(w)
    BY <1>1, <2>2, QuietRows, FinishFrame
  <2> QED
    BY <2>1, <2>2 DEF Close
<1>3. TypeOK'
  BY <1>1, <1>2 DEF TypeOK
<1>4. RefundedIsPaid'
  BY <1>1, QuietPaid
<1> QED
  BY <1>2, <1>3, <1>4

LEMMA RestockInv ==
    ASSUME Inv, NEW w \in Workers, Restock(w)
    PROVE  Inv'
<1> USE DEF Inv
<1>1. task[w] \in Task /\ HandlerOK(task[w]) /\ task[w].pc = "restock"
  BY Running DEF Restock, At
<1>2. /\ task[w].r \in Requests /\ returns[task[w].r] \in Request
      /\ task[w].read \in Request /\ returns[task[w].r].lines = task[w].read.lines
      /\ Amount(task[w].read.lines) \in refunds
      /\ task[w].left \subseteq DOMAIN task[w].read.lines
  BY <1>1 DEF HandlerOK, OnRequest
<1>3. UNCHANGED <<order, refunds, events, ledger, released, raced, faults>>
  BY DEF Restock, Finish
<1>4. CASE /\ UNCHANGED returns
           /\ \E n \in task[w].left :
                 /\ stock' = [stock EXCEPT ![task[w].read.lines[n].item].available =
                                 @ + task[w].read.lines[n].quantity]
                 /\ task' = [task EXCEPT ![w].pc = "mark", ![w].item = n]
  <2>1. PICK n \in task[w].left :
           /\ stock' = [stock EXCEPT ![task[w].read.lines[n].item].available =
                           @ + task[w].read.lines[n].quantity]
           /\ task' = [task EXCEPT ![w].pc = "mark", ![w].item = n]
    BY <1>4
  <2> DEFINE t == [task[w] EXCEPT !.pc = "mark", !.item = n]
             line == task[w].read.lines[n]
  <2>2. line \in Line /\ n \in Nat
    BY <1>2 DEF Request
  <2>3. stock' \in StockLevels
    <3>1. line.item \in Variants /\ line.quantity \in Nat
      BY <2>2 DEF Line
    <3>2. stock' = [stock EXCEPT ![line.item].available = @ + line.quantity]
      BY <2>1
    <3> HIDE DEF line
    <3>3. stock[line.item] \in Row
      BY <3>1 DEF TypeOK, StockLevels
    <3>4. [stock[line.item] EXCEPT !.available = stock[line.item].available + line.quantity] \in Row
      BY <3>1, <3>3 DEF Row
    <3> DEFINE row == [stock[line.item] EXCEPT !.available = stock[line.item].available + line.quantity]
    <3>5. stock' = [stock EXCEPT ![line.item] = row]
      BY <3>2
    <3>6. row \in Row
      BY <3>4
    <3> HIDE DEF row
    <3> QED
      BY <3>1, <3>5, <3>6 DEF TypeOK, StockLevels
  <2>4. /\ t \in Task /\ t.pc = "mark" /\ t.r = task[w].r /\ t.read = task[w].read
        /\ t.left = task[w].left
    BY <1>1, <2>2 DEF Task, Steps
  <2>5. task' = [task EXCEPT ![w] = t]
    BY <2>1 DEF TypeOK
  <2> HIDE DEF t
  <2>6. HandlerNext(t)
    BY <1>2, <1>3, <1>4, <2>4 DEF HandlerNext, OnRequest
  <2>7. task' \in [Workers -> Task \cup {Idle}] /\ Handlers' /\ Fresh'
    BY <1>3, <1>4, <2>4, <2>5, <2>6, QuietRows, HandlersFrame
  <2>8. TypeOK'
    BY <1>3, <1>4, <2>3, <2>7 DEF TypeOK
  <2>9. RefundedIsPaid'
    BY <1>3, <1>4, QuietPaid
  <2> QED
    BY <2>7, <2>8, <2>9
<1>5. CASE SetStatus(task[w].r, "restocked") /\ Finish(w) /\ UNCHANGED stock
  <2>1. /\ returns' \in [Requests -> Request \cup {Absent}]
        /\ \A q \in Requests : RowKept(w, q)
        /\ returns'[task[w].r].lines = returns[task[w].r].lines
        /\ \A q \in Requests \ {task[w].r} : returns'[q] = returns[q]
    BY <1>2, <1>5, StatusFrame DEF ReturnStatuses
  <2>2. task' \in [Workers -> Task \cup {Idle}] /\ Handlers' /\ Fresh'
    BY <1>3, <1>5, <2>1, FinishFrame
  <2>3. TypeOK'
    BY <1>3, <1>5, <2>1, <2>2 DEF TypeOK
  <2>4. RefundedIsPaid'
    BY <1>2, <1>3, <2>1, PaidFrame
  <2> QED
    BY <2>2, <2>3, <2>4
<1> QED
  BY <1>4, <1>5 DEF Restock

LEMMA MarkInv ==
    ASSUME Inv, NEW w \in Workers, Mark(w)
    PROVE  Inv'
<1> USE DEF Inv
<1> DEFINE r == task[w].r
           row == [returns[r] EXCEPT !.marked = returns[r].marked \cup {task[w].item}]
           t == [task[w] EXCEPT !.pc = "restock", !.left = task[w].left \ {task[w].item}, !.item = 0]
<1>1. task[w] \in Task /\ HandlerOK(task[w]) /\ task[w].pc = "mark"
  BY Running DEF Mark, At
<1>2. /\ r \in Requests /\ returns[r] \in Request
      /\ task[w].read \in Request /\ returns[r].lines = task[w].read.lines
      /\ Amount(task[w].read.lines) \in refunds
      /\ task[w].left \subseteq DOMAIN task[w].read.lines
  BY <1>1 DEF HandlerOK, OnRequest
<1>3. /\ returns' = [returns EXCEPT ![r] = row] /\ task' = [task EXCEPT ![w] = t]
      /\ UNCHANGED <<order, stock, refunds, events, ledger, released, raced, faults>>
  <2>1. returns' = [returns EXCEPT ![r] = row]
    BY <1>2 DEF Mark, TypeOK
  <2>2. task' = [task EXCEPT ![w] = t]
    BY DEF Mark, TypeOK
  <2>3. UNCHANGED <<order, stock, refunds, events, ledger, released, raced, faults>>
    BY DEF Mark
  <2> QED
    BY <2>1, <2>2, <2>3
<1>4. row \in Request /\ row.status = returns[r].status /\ row.lines = returns[r].lines
  BY <1>1, <1>2 DEF Request, Task
<1>5. /\ t \in Task /\ t.pc = "restock" /\ t.r = r /\ t.read = task[w].read
      /\ t.left \subseteq task[w].left
  BY <1>1 DEF Task, Steps
<1> HIDE DEF t, row
<1>6. /\ returns' \in [Requests -> Request \cup {Absent}]
      /\ returns'[r] = row
      /\ \A q \in Requests \ {r} : returns'[q] = returns[q]
  BY <1>2, <1>3, <1>4 DEF TypeOK
<1>7. \A q \in Requests : RowKept(w, q)
  BY <1>2, <1>4, <1>6 DEF RowKept
<1>8. HandlerNext(t)
  BY <1>2, <1>3, <1>4, <1>5, <1>6 DEF HandlerNext, OnRequest
<1>9. task' \in [Workers -> Task \cup {Idle}] /\ Handlers' /\ Fresh'
  BY <1>3, <1>5, <1>7, <1>8, HandlersFrame
<1>10. TypeOK'
  BY <1>3, <1>6, <1>9 DEF TypeOK
<1>11. RefundedIsPaid'
  BY <1>2, <1>3, <1>4, <1>6, PaidFrame
<1> QED
  BY <1>9, <1>10, <1>11

LEMMA DeliverInv ==
    ASSUME Inv, NEW w \in Workers, NEW amount \in events, Deliver(w, amount)
    PROVE  Inv'
<1> USE DEF Inv
<1> DEFINE t == Handler("check", "none", "refunded")
<1>1. /\ UNCHANGED <<order, stock, returns, refunds, released, faults>>
      /\ events' \subseteq refunds' /\ ledger' \subseteq refunds' /\ raced' \in BOOLEAN
  BY DEF Deliver, Start, TypeOK
<1>2. task' \in [Workers -> Task \cup {Idle}] /\ Handlers' /\ Fresh'
  <2>1. CASE Start(w, t)
    <3>1. t \in Task /\ HandlerNext(t) /\ t.pc # "insert"
      BY ToRefunded
    <3>2. task' = [task EXCEPT ![w] = t]
      BY <2>1 DEF Start
    <3> HIDE DEF t
    <3> QED
      BY <1>1, <3>1, <3>2, QuietRows, HandlersFrame
  <2>2. CASE UNCHANGED task
    BY <1>1, <2>2 DEF TypeOK, Handlers, HandlerOK, Fresh
  <2> QED
    BY <2>1, <2>2 DEF Deliver
<1>3. TypeOK'
  BY <1>1, <1>2 DEF TypeOK
<1>4. RefundedIsPaid'
  BY <1>1, QuietPaid
<1> QED
  BY <1>2, <1>3, <1>4

(* What follows a sale in the transition table. *)
LEMMA AfterSaleClosed ==
    /\ \A s \in AfterSale : AllowedTransitions[s] \subseteq AfterSale
    /\ AfterSale \subseteq Statuses
BY DEF AfterSale, AllowedTransitions, Statuses, Refundable

LEMMA StartAdminInv ==
    ASSUME Inv, NEW w \in Workers, NEW to \in ByHand, StartAdmin(w, to)
    PROVE  Inv'
<1> USE DEF Inv
<1> DEFINE h == Handler("apply", "none", to)
           t == [h EXCEPT !.seen = order]
<1>1. /\ task' = [task EXCEPT ![w] = t] /\ raced' \in BOOLEAN
      /\ UNCHANGED <<order, stock, returns, refunds, events, ledger, released, faults>>
  BY DEF StartAdmin, Start
<1>2. order \in AfterSale /\ to \in AfterSale /\ order \in Statuses /\ to \in Statuses
  BY AfterSaleClosed DEF StartAdmin, TypeOK, AfterSale
<1>3. t \in Task /\ t.pc = "apply" /\ t.to = to
  <2>1. h \in Task
    BY <1>2, HandlerType DEF Steps
  <2>2. h.pc = "apply" /\ h.to = to
    BY DEF Handler
  <2> HIDE DEF h
  <2> QED
    BY <1>2, <2>1, <2>2 DEF Task
<1> HIDE DEF t
<1>4. HandlerNext(t)
  BY <1>2, <1>3 DEF HandlerNext, OnRequest
<1>5. task' \in [Workers -> Task \cup {Idle}] /\ Handlers' /\ Fresh'
  BY <1>1, <1>3, <1>4, QuietRows, HandlersFrame
<1>6. TypeOK'
  BY <1>1, <1>5 DEF TypeOK
<1>7. RefundedIsPaid'
  BY <1>1, QuietPaid
<1> QED
  BY <1>5, <1>6, <1>7

LEMMA CheckInv ==
    ASSUME Inv, NEW w \in Workers, Check(w)
    PROVE  Inv'
<1> USE DEF Inv
<1> DEFINE t == [task[w] EXCEPT !.pc = "apply", !.seen = order]
<1>1. task[w] \in Task /\ HandlerOK(task[w]) /\ task[w].pc = "check"
  BY Running DEF Check, At
<1>2. UNCHANGED <<order, stock, returns, refunds, events, ledger, released, raced, faults>>
  BY DEF Check, Finish
<1>3. task' \in [Workers -> Task \cup {Idle}] /\ Handlers' /\ Fresh'
  <2>1. CASE task' = [task EXCEPT ![w].pc = "apply", ![w].seen = order]
    <3>1. order \in Statuses
      BY AfterSaleClosed DEF TypeOK, AfterSale
    <3>2. t \in Task /\ t.pc = "apply" /\ t.to = task[w].to
      BY <1>1, <3>1 DEF Task, Steps
    <3>3. task' = [task EXCEPT ![w] = t]
      BY <2>1 DEF TypeOK
    <3> HIDE DEF t
    <3>4. HandlerNext(t)
      BY <1>1, <3>2 DEF HandlerOK, HandlerNext, OnRequest
    <3> QED
      BY <1>2, <3>2, <3>3, <3>4, QuietRows, HandlersFrame
  <2>2. CASE Finish(w)
    BY <1>2, <2>2, QuietRows, FinishFrame
  <2> QED
    BY <2>1, <2>2 DEF Check
<1>4. TypeOK'
  BY <1>2, <1>3 DEF TypeOK
<1>5. RefundedIsPaid'
  BY <1>2, QuietPaid
<1> QED
  BY <1>3, <1>4, <1>5

LEMMA ApplyInv ==
    ASSUME Inv, NEW w \in Workers, Apply(w)
    PROVE  Inv'
<1> USE DEF Inv
<1>1. task[w] \in Task /\ HandlerOK(task[w]) /\ task[w].pc = "apply"
  BY Running DEF Apply, At
<1>2. order' \in AfterSale
  BY <1>1 DEF Apply, HandlerOK
<1>3. stock' \in StockLevels
  BY OrderedAssumption, MovedType DEF Apply, TypeOK
<1>4. /\ UNCHANGED <<returns, refunds, events, ledger, raced, faults>> /\ Finish(w)
      /\ released' \in BOOLEAN
  BY DEF Apply, Finish
<1>5. task' \in [Workers -> Task \cup {Idle}] /\ Handlers' /\ Fresh'
  BY <1>4, QuietRows, FinishFrame
<1>6. TypeOK'
  BY <1>2, <1>3, <1>4, <1>5 DEF TypeOK, AfterSale
<1>7. RefundedIsPaid'
  BY <1>4, QuietPaid
<1> QED
  BY <1>5, <1>6, <1>7

LEMMA FaultInv ==
    ASSUME Inv, NEW w \in Workers, Fault(w)
    PROVE  Inv'
<1> USE DEF Inv
<1>1. /\ UNCHANGED <<order, stock, returns, refunds, events, ledger, released, raced>>
      /\ Finish(w)
  BY DEF Fault, Finish
<1>2. faults' \in 0 .. MaxFaults
  BY FaultsAssumption DEF Fault, TypeOK
<1>3. task' \in [Workers -> Task \cup {Idle}] /\ Handlers' /\ Fresh'
  BY <1>1, QuietRows, FinishFrame
<1>4. TypeOK'
  BY <1>1, <1>2, <1>3 DEF TypeOK
<1>5. RefundedIsPaid'
  BY <1>1, QuietPaid
<1> QED
  BY <1>3, <1>4, <1>5

LEMMA NextInv == Inv /\ [Next]_vars => Inv'
<1> SUFFICES ASSUME Inv, [Next]_vars PROVE Inv'
  OBVIOUS
<1>1. CASE \E w \in Workers, r \in Requests, lines \in Dtos, b \in BOOLEAN :
              StartCreate(w, r, lines, b)
  BY <1>1, StartCreateInv
<1>2. CASE \E w \in Workers, r \in Requests, to \in ReturnStatuses : StartTransition(w, r, to)
  BY <1>2, StartTransitionInv
<1>3. CASE \E w \in Workers, amount \in events : Deliver(w, amount)
  BY <1>3, DeliverInv
<1>4. CASE \E w \in Workers, to \in ByHand : StartAdmin(w, to)
  BY <1>4, StartAdminInv
<1>5. CASE \E w \in Workers : Step(w)
  BY <1>5, InsertInv, WriteInv, ReadOrderInv, RefundInv, RecordInv, CloseInv, RestockInv,
     MarkInv, CheckInv, ApplyInv, FaultInv DEF Step
<1>6. CASE UNCHANGED vars
  <2>1. UNCHANGED <<order, stock, returns, refunds, events, ledger, task, released, raced,
                    faults>>
    BY <1>6 DEF vars
  <2>2. TypeOK' /\ Handlers' /\ Fresh'
    BY <2>1 DEF Inv, TypeOK, Handlers, HandlerOK, Fresh
  <2>3. RefundedIsPaid'
    BY <2>1, QuietPaid DEF Inv
  <2> QED
    BY <2>2, <2>3 DEF Inv
<1> QED
  BY <1>1, <1>2, <1>3, <1>4, <1>5, <1>6 DEF Next

LEMMA AlwaysInv == Spec => []Inv
BY InitInv, NextInv, PTL DEF Spec

(* Every variable keeps its type; in particular returns, refunds and late   *)
(* transitions never take a stock bucket below zero.                        *)
THEOREM ReturnTypes == Spec => []TypeOK
<1>1. Inv => TypeOK
  BY DEF Inv
<1> QED
  BY <1>1, AlwaysInv, PTL

(* No return counts as refunded unless Stripe made a refund of its amount,  *)
(* whatever requests are created, approved, rejected, refunded and          *)
(* restocked at once, and wherever their handlers crash.                    *)
THEOREM RefundsPaid == Spec => []RefundedIsPaid
<1>1. Inv => RefundedIsPaid
  BY DEF Inv
<1> QED
  BY <1>1, AlwaysInv, PTL

-----------------------------------------------------------------------------
(* The units of a line, and of a set of items of a request. *)

LineUnits(r, n, q) == {r} \X {n} \X (1 .. q)

UnitsAt(rows, r, ns, v) ==
    UNION {LineUnits(r, n, rows[r].lines[n].quantity) :
              n \in {m \in ns \cap DOMAIN rows[r].lines : rows[r].lines[m].item = v}}

LEMMA UnitsOfAt == \A r, ns, v : UnitsOf(r, ns, v) = UnitsAt(returns, r, ns, v)
BY DEF UnitsOf, UnitsAt, LineUnits

(* A line is its quantity of units. *)
LEMMA LineCount ==
    ASSUME NEW r, NEW n, NEW q \in Nat
    PROVE  IsFiniteSet(LineUnits(r, n, q)) /\ Cardinality(LineUnits(r, n, q)) = q
<1> DEFINE f == [k \in 1 .. q |-> <<r, n, k>>]
<1>1. IsFiniteSet(1 .. q) /\ Cardinality(1 .. q) = q
  <2>1. IsFiniteSet(1 .. q) /\ Cardinality(1 .. q) = IF 1 > q THEN 0 ELSE q - 1 + 1
    BY FS_Interval
  <2> QED
    BY <2>1
<1>2. f \in [1 .. q -> LineUnits(r, n, q)]
  BY DEF LineUnits
<1>3. \A j, k \in 1 .. q : f[j] = f[k] => j = k
  OBVIOUS
<1>4. \A u \in LineUnits(r, n, q) : \E k \in 1 .. q : f[k] = u
  BY DEF LineUnits
<1> HIDE DEF f
<1>5. f \in Bijection(1 .. q, LineUnits(r, n, q))
  BY <1>2, <1>3, <1>4 DEF Bijection, Injection, Surjection, IsInjective
<1> QED
  BY <1>1, <1>5, FS_Bijection DEF ExistsBijection

LEMMA UnitsElement ==
    ASSUME NEW rows, NEW r, NEW ns, NEW v, NEW u
    PROVE  u \in UnitsAt(rows, r, ns, v)
              <=> \E n \in ns \cap DOMAIN rows[r].lines :
                     rows[r].lines[n].item = v /\ u \in LineUnits(r, n, rows[r].lines[n].quantity)
BY DEF UnitsAt

LEMMA UnitsFinite ==
    ASSUME NEW rows, NEW r, NEW ns, NEW v, rows[r].lines \in Seq(Line)
    PROVE  IsFiniteSet(UnitsAt(rows, r, ns, v))
<1> DEFINE lines == rows[r].lines
           D == {m \in ns \cap DOMAIN lines : lines[m].item = v}
           f == [n \in D |-> LineUnits(r, n, lines[n].quantity)]
           R == {f[n] : n \in D}
<1>1. Len(lines) \in Nat /\ DOMAIN lines = 1 .. Len(lines)
  OBVIOUS
<1>2. IsFiniteSet(1 .. Len(lines))
  BY <1>1, FS_Interval
<1>3. IsFiniteSet(D)
  BY <1>1, <1>2, FS_Subset
<1>4. \A n \in D : IsFiniteSet(LineUnits(r, n, lines[n].quantity))
  <2> SUFFICES ASSUME NEW n \in D PROVE IsFiniteSet(LineUnits(r, n, lines[n].quantity))
    OBVIOUS
  <2>1. n \in 1 .. Len(lines) /\ lines \in Seq(Line)
    BY <1>1
  <2>2. lines[n] \in Line
    BY <2>1
  <2>3. lines[n].quantity \in Nat
    BY <2>2 DEF Line
  <2> QED
    BY <2>3, LineCount
<1>5. UnitsAt(rows, r, ns, v) = UNION R
  BY DEF UnitsAt
<1>6. \A T \in R : IsFiniteSet(T)
  BY <1>4
<1>7. f \in Surjection(D, R)
  BY DEF Surjection
<1> HIDE DEF f, R, D
<1>8. IsFiniteSet(R)
  BY <1>3, <1>7, FS_Surjection
<1> QED
  BY <1>5, <1>6, <1>8, FS_UNION

-----------------------------------------------------------------------------
(* The units that are back in stock: those of the marked items, and of the  *)
(* items a handler has restocked and is about to mark.                      *)

BackItems(rows, tasks, r) ==
    rows[r].marked \cup {tasks[x].item : x \in {y \in Workers : tasks[y].pc = "mark" /\ tasks[y].r = r}}
BackAt(rows, tasks, v) == UNION {UnitsAt(rows, r, BackItems(rows, tasks, r), v) : r \in Requests}
Back(v) == BackAt(returns, task, v)

LEMMA BackItemsElement ==
    ASSUME NEW rows, NEW tasks, NEW r, NEW n
    PROVE  n \in BackItems(rows, tasks, r)
              <=> \/ n \in rows[r].marked
                  \/ \E x \in Workers : tasks[x].pc = "mark" /\ tasks[x].r = r /\ n = tasks[x].item
BY DEF BackItems

LEMMA BackElement ==
    ASSUME NEW rows, NEW tasks, NEW v, NEW u
    PROVE  u \in BackAt(rows, tasks, v)
              <=> \E r \in Requests : \E n \in DOMAIN rows[r].lines :
                     /\ n \in BackItems(rows, tasks, r) /\ rows[r].lines[n].item = v
                     /\ u \in LineUnits(r, n, rows[r].lines[n].quantity)
<1>1. u \in BackAt(rows, tasks, v)
         <=> \E r \in Requests : u \in UnitsAt(rows, r, BackItems(rows, tasks, r), v)
  BY DEF BackAt
<1> QED
  BY <1>1, UnitsElement

LEMMA MarkedAreBack == \A v : MarkedUnits(v) \subseteq Back(v)
<1> SUFFICES ASSUME NEW v, NEW u \in MarkedUnits(v) PROVE u \in Back(v)
  OBVIOUS
<1>1. PICK r \in Requests : u \in UnitsAt(returns, r, returns[r].marked, v)
  BY UnitsOfAt DEF MarkedUnits
<1>2. PICK n \in returns[r].marked \cap DOMAIN returns[r].lines :
         returns[r].lines[n].item = v /\ u \in LineUnits(r, n, returns[r].lines[n].quantity)
  BY <1>1, UnitsElement
<1>3. n \in BackItems(returns, task, r)
  BY DEF BackItems
<1> QED
  BY <1>2, <1>3, BackElement DEF Back

LEMMA NothingInHand ==
    ASSUME \A w \in Workers : task[w].pc # "mark" PROVE \A v : Back(v) = MarkedUnits(v)
<1> SUFFICES ASSUME NEW v PROVE Back(v) = MarkedUnits(v)
  OBVIOUS
<1>1. ASSUME NEW u \in Back(v) PROVE u \in MarkedUnits(v)
  <2>1. PICK r \in Requests : \E n \in DOMAIN returns[r].lines :
           /\ n \in BackItems(returns, task, r) /\ returns[r].lines[n].item = v
           /\ u \in LineUnits(r, n, returns[r].lines[n].quantity)
    BY BackElement DEF Back
  <2>2. BackItems(returns, task, r) = returns[r].marked
    BY DEF BackItems
  <2>3. u \in UnitsOf(r, returns[r].marked, v)
    BY <2>1, <2>2, UnitsElement, UnitsOfAt
  <2> QED
    BY <2>3 DEF MarkedUnits
<1>2. MarkedUnits(v) \subseteq Back(v)
  BY MarkedAreBack
<1> QED
  BY <1>1, <1>2

(* No item is put back: the units back in stock are not more than before.   *)
ItemsKept(rows, tasks, rows2, tasks2) ==
    \A r \in Requests : \A n \in BackItems(rows2, tasks2, r) :
        n \in BackItems(rows, tasks, r) /\ rows2[r].lines = rows[r].lines

LEMMA BackShrinks ==
    ASSUME NEW rows, NEW tasks, NEW rows2, NEW tasks2, ItemsKept(rows, tasks, rows2, tasks2), NEW v
    PROVE  BackAt(rows2, tasks2, v) \subseteq BackAt(rows, tasks, v)
<1> SUFFICES ASSUME NEW u \in BackAt(rows2, tasks2, v) PROVE u \in BackAt(rows, tasks, v)
  OBVIOUS
<1>1. PICK r \in Requests : \E n \in DOMAIN rows2[r].lines :
         /\ n \in BackItems(rows2, tasks2, r) /\ rows2[r].lines[n].item = v
         /\ u \in LineUnits(r, n, rows2[r].lines[n].quantity)
  BY BackElement
<1> QED
  BY <1>1, BackElement DEF ItemsKept

(* Item n of request r is put back: its units are added.                    *)
ItemAdded(rows, tasks, tasks2, r, n) ==
    /\ BackItems(rows, tasks2, r) = BackItems(rows, tasks, r) \cup {n}
    /\ \A q \in Requests \ {r} : BackItems(rows, tasks2, q) = BackItems(rows, tasks, q)

LEMMA BackGrows ==
    ASSUME NEW rows, NEW tasks, NEW tasks2, NEW r \in Requests, NEW n \in DOMAIN rows[r].lines,
           ItemAdded(rows, tasks, tasks2, r, n), NEW v
    PROVE  BackAt(rows, tasks2, v) =
              IF rows[r].lines[n].item = v
              THEN BackAt(rows, tasks, v) \cup LineUnits(r, n, rows[r].lines[n].quantity)
              ELSE BackAt(rows, tasks, v)
<1> DEFINE More == IF rows[r].lines[n].item = v
                   THEN LineUnits(r, n, rows[r].lines[n].quantity) ELSE {}
<1>1. ASSUME NEW u
      PROVE  u \in BackAt(rows, tasks2, v) <=> u \in BackAt(rows, tasks, v) \cup More
  <2>1. \A q \in Requests : \A m : m \in BackItems(rows, tasks2, q)
           <=> m \in BackItems(rows, tasks, q) \/ (q = r /\ m = n)
    BY DEF ItemAdded
  <2>2. u \in BackAt(rows, tasks2, v)
           <=> \/ \E q \in Requests : \E m \in DOMAIN rows[q].lines :
                     /\ m \in BackItems(rows, tasks, q) /\ rows[q].lines[m].item = v
                     /\ u \in LineUnits(q, m, rows[q].lines[m].quantity)
               \/ rows[r].lines[n].item = v /\ u \in LineUnits(r, n, rows[r].lines[n].quantity)
    BY <2>1, BackElement
  <2> QED
    BY <2>2, BackElement
<1> QED
  BY <1>1

(* The units of an item that was not back are new.                          *)
LEMMA NewUnits ==
    ASSUME NEW rows, NEW tasks, NEW r, NEW n, n \notin BackItems(rows, tasks, r), NEW q, NEW v
    PROVE  BackAt(rows, tasks, v) \cap LineUnits(r, n, q) = {}
<1> SUFFICES ASSUME NEW u, u \in BackAt(rows, tasks, v), u \in LineUnits(r, n, q) PROVE FALSE
  OBVIOUS
<1>1. PICK p \in Requests : \E m \in DOMAIN rows[p].lines :
         m \in BackItems(rows, tasks, p) /\ u \in LineUnits(p, m, rows[p].lines[m].quantity)
  BY BackElement
<1>2. PICK m \in BackItems(rows, tasks, p) : u \in LineUnits(p, m, rows[p].lines[m].quantity)
  BY <1>1
<1>3. u[1] = p /\ u[2] = m /\ u[1] = r /\ u[2] = n
  BY <1>2 DEF LineUnits
<1> QED
  BY <1>2, <1>3

-----------------------------------------------------------------------------
(* What a step does to the units that are back. *)

\* A request is inserted with no item marked.
Unmarked == \A w \in Workers : task[w].pc = "insert" => task[w].read.marked = {}

\* The stock of worker w's step that restocks item n.
Restocks(w, n) ==
    LET t == task[w]
    IN  /\ At(w, "restock") /\ n \in t.left
        /\ stock' = [stock EXCEPT ![t.read.lines[n].item].available =
                        @ + t.read.lines[n].quantity]
        /\ task' = [task EXCEPT ![w].pc = "mark", ![w].item = n]
        /\ UNCHANGED <<returns, raced, faults, released, order>>


(* The items that are back stay the same, with their lines; a crash between *)
(* the two writes of an item only loses it.                                 *)
Same ==
    \A r \in Requests :
        /\ BackItems(returns', task', r) = BackItems(returns, task, r)
        /\ BackItems(returns, task, r) # {} => returns'[r].lines = returns[r].lines
Keeps == ItemsKept(returns, task, returns', task')

LEMMA SameKeeps == Same => Keeps
BY DEF Same, Keeps, ItemsKept

LEMMA SameBack ==
    ASSUME Same, NEW v PROVE BackAt(returns', task', v) = BackAt(returns, task, v)
<1>1. ItemsKept(returns, task, returns', task') /\ ItemsKept(returns', task', returns, task)
  BY DEF Same, ItemsKept
<1>2. /\ BackAt(returns', task', v) \subseteq BackAt(returns, task, v)
      /\ BackAt(returns, task, v) \subseteq BackAt(returns', task', v)
  BY <1>1, BackShrinks
<1> QED
  BY <1>2

(* Worker w goes from one step that is no mark to another.                  *)
LEMMA SameFrame ==
    ASSUME TypeOK, NEW w \in Workers, NEW t, task' = [task EXCEPT ![w] = t],
           task[w].pc # "mark", t.pc # "mark",
           \A r \in Requests : \/ returns'[r].marked = {} /\ returns[r].marked = {}
                               \/ returns'[r].marked = returns[r].marked
                                  /\ returns'[r].lines = returns[r].lines,
           \A x \in Workers : task[x].pc = "mark" =>
              returns'[task[x].r].lines = returns[task[x].r].lines
    PROVE  Same
<1>1. task'[w] = t /\ \A x \in Workers \ {w} : task'[x] = task[x]
  BY DEF TypeOK
<1> SUFFICES ASSUME NEW r \in Requests
             PROVE  /\ BackItems(returns', task', r) = BackItems(returns, task, r)
                    /\ BackItems(returns, task, r) # {} => returns'[r].lines = returns[r].lines
  BY DEF Same
<1>2. returns'[r].marked = returns[r].marked
  OBVIOUS
<1>3. {y \in Workers : task'[y].pc = "mark" /\ task'[y].r = r}
         = {y \in Workers : task[y].pc = "mark" /\ task[y].r = r}
  BY <1>1
<1>4. \A y \in {y \in Workers : task[y].pc = "mark" /\ task[y].r = r} : task'[y] = task[y]
  BY <1>1
<1>5. BackItems(returns', task', r) = BackItems(returns, task, r)
  BY <1>2, <1>3, <1>4 DEF BackItems
<1>6. ASSUME BackItems(returns, task, r) # {} PROVE returns'[r].lines = returns[r].lines
  <2>1. CASE returns[r].marked # {}
    BY <2>1
  <2>2. CASE \E y \in Workers : task[y].pc = "mark" /\ task[y].r = r
    BY <2>2
  <2> QED
    BY <1>6, <2>1, <2>2 DEF BackItems
<1> QED
  BY <1>5, <1>6

LEMMA SameQuiet ==
    ASSUME TypeOK, NEW w \in Workers, NEW t, task' = [task EXCEPT ![w] = t],
           task[w].pc # "mark", t.pc # "mark", UNCHANGED returns
    PROVE  Same
BY SameFrame

LEMMA SameStill == UNCHANGED <<returns, task>> => Same
BY DEF Same

(* The status of a row is written: its items stay as they are.              *)
LEMMA SameStatus ==
    ASSUME TypeOK, Handlers, NEW w \in Workers, NEW t, task' = [task EXCEPT ![w] = t],
           task[w].pc # "mark", t.pc # "mark",
           NEW r \in Requests, returns[r] \in Request, NEW s, SetStatus(r, s)
    PROVE  Same
<1>1. /\ returns'[r].marked = returns[r].marked /\ returns'[r].lines = returns[r].lines
      /\ \A q \in Requests \ {r} : returns'[q] = returns[q]
  BY DEF SetStatus, TypeOK, Request
<1>2. \A x \in Workers : task[x].pc = "mark" => task[x].r \in Requests
  BY DEF Handlers, HandlerOK, OnRequest
<1> QED
  BY <1>1, <1>2, SameFrame

LEMMA UnmarkedFrame ==
    ASSUME TypeOK, Unmarked, NEW w \in Workers, NEW t, task' = [task EXCEPT ![w] = t],
           t.pc = "insert" => t.read.marked = {}
    PROVE  Unmarked'
BY DEF TypeOK, Unmarked

LEMMA UnmarkedStill == Unmarked /\ UNCHANGED task => Unmarked'
BY DEF Unmarked

-----------------------------------------------------------------------------
(* The steps. *)

\* What a step is for the units: the items stay, or an item is restocked, or a
\* handler crashes.
UnitStep ==
    /\ Unmarked'
    /\ \/ Same
       \/ \E w \in Workers : \E n \in task[w].left : Restocks(w, n)
       \/ Keeps /\ faults' = faults + 1 /\ UNCHANGED stock

LEMMA StartUnits ==
    ASSUME Inv, Unmarked, NEW w \in Workers, NEW t, Start(w, t), UNCHANGED returns,
           t.pc # "mark", t.pc = "insert" => t.read.marked = {}
    PROVE  UnitStep
<1>1. task' = [task EXCEPT ![w] = t] /\ task[w].pc # "mark"
  BY DEF Start, Idle
<1> QED
  BY <1>1, SameQuiet, UnmarkedFrame DEF UnitStep, Inv

LEMMA GotoUnits ==
    ASSUME Inv, Unmarked, NEW w \in Workers, task[w].pc \notin {"idle", "mark"},
           NEW pc \in Steps \ {"mark", "insert"},
           \/ Goto(w, pc) \/ Finish(w), UNCHANGED returns
    PROVE  UnitStep
<1> DEFINE t == IF Finish(w) THEN Idle ELSE [task[w] EXCEPT !.pc = pc]
<1>1. task[w] \in Task
  BY Running DEF Inv
<1>2. task' = [task EXCEPT ![w] = t] /\ t.pc \notin {"mark", "insert"}
  BY <1>1 DEF Goto, Finish, Idle, Task
<1> HIDE DEF t
<1> QED
  BY <1>2, SameQuiet, UnmarkedFrame DEF UnitStep, Inv

LEMMA StatusUnits ==
    ASSUME Inv, Unmarked, NEW w \in Workers, task[w].pc \notin {"idle", "mark"},
           NEW r \in Requests, returns[r] \in Request, NEW s, SetStatus(r, s),
           Finish(w) \/ Goto(w, "close")
    PROVE  UnitStep
<1> DEFINE t == IF Finish(w) THEN Idle ELSE [task[w] EXCEPT !.pc = "close"]
<1>1. task[w] \in Task
  BY Running DEF Inv
<1>2. task' = [task EXCEPT ![w] = t] /\ t.pc \notin {"mark", "insert"}
  BY <1>1 DEF Goto, Finish, Idle, Task
<1> HIDE DEF t
<1> QED
  BY <1>2, SameStatus, UnmarkedFrame DEF UnitStep, Inv

LEMMA StartCreateUnits ==
    ASSUME Inv, Unmarked, NEW w \in Workers, NEW r \in Requests, NEW lines \in Dtos,
           NEW b \in BOOLEAN, StartCreate(w, r, lines, b)
    PROVE  UnitStep
<1> DEFINE h == Handler("insert", r, "requested")
           read == [status |-> "requested", lines |-> lines, restock |-> b, marked |-> {}]
           t == [h EXCEPT !.read = read]
<1>1. Start(w, t) /\ UNCHANGED returns
  BY DEF StartCreate
<1>2. h \in Task /\ h.pc = "insert"
  BY HandlerType DEF Steps, ReturnStatuses, Handler
<1>3. t.pc = "insert" /\ t.read = read
  <2> HIDE DEF h, read
  <2> QED
    BY <1>2 DEF Task
<1>4. read.marked = {}
  OBVIOUS
<1> HIDE DEF t, read
<1> QED
  BY <1>1, <1>3, <1>4, StartUnits

LEMMA StartTransitionUnits ==
    ASSUME Inv, Unmarked, NEW w \in Workers, NEW r \in Requests, NEW to \in ReturnStatuses,
           StartTransition(w, r, to)
    PROVE  UnitStep
<1> DEFINE pc == CASE to = "refunded" -> "order" [] to = "restocked" -> "restock"
                   [] OTHER -> "write"
           left == DOMAIN returns[r].lines \ returns[r].marked
           h == Handler(pc, r, to)
           t == [h EXCEPT !.read = returns[r], !.left = left]
<1>1. Start(w, t) /\ UNCHANGED returns
  BY DEF StartTransition
<1>2. pc \in {"order", "restock", "write"}
  OBVIOUS
<1>3. h \in Task /\ h.pc = pc
  BY <1>2, HandlerType DEF Steps, Handler
<1>4. t.pc = pc
  <2> HIDE DEF h, left
  <2> QED
    BY <1>3 DEF Task
<1> HIDE DEF t, pc
<1> QED
  BY <1>1, <1>2, <1>4, StartUnits

LEMMA InsertUnits ==
    ASSUME Inv, Unmarked, NEW w \in Workers, Insert(w)
    PROVE  UnitStep
<1>1. task[w] \in Task /\ HandlerOK(task[w]) /\ task[w].pc = "insert"
  BY Running DEF Insert, At, Inv
<1>2. task[w].r \in Requests /\ returns[task[w].r] = Absent /\ task[w].read.marked = {}
  BY <1>1 DEF HandlerOK, Unmarked
<1>3. /\ \A q \in Requests \ {task[w].r} : returns'[q] = returns[q]
      /\ returns'[task[w].r] = task[w].read
      /\ task' = [task EXCEPT ![w] = Idle]
  BY <1>2 DEF Insert, Finish, Inv, TypeOK
<1>4. ASSUME NEW x \in Workers, task[x].pc = "mark"
      PROVE  returns'[task[x].r].lines = returns[task[x].r].lines
  <2>1. task[x].r \in Requests /\ returns[task[x].r] \in Request
    BY <1>4 DEF Inv, Handlers, HandlerOK, OnRequest
  <2>2. task[x].r # task[w].r
    BY <1>2, <2>1, AbsentIsNoRequest
  <2> QED
    BY <1>3, <2>1, <2>2
<1>5. \A q \in Requests : \/ returns'[q].marked = {} /\ returns[q].marked = {}
                          \/ returns'[q].marked = returns[q].marked
                             /\ returns'[q].lines = returns[q].lines
  BY <1>2, <1>3 DEF Absent
<1>6. task[w].pc # "mark" /\ Idle.pc # "mark" /\ Idle.pc # "insert"
  BY <1>1 DEF Idle
<1>7. Same
  BY <1>3, <1>4, <1>5, <1>6, SameFrame DEF Inv
<1>8. Unmarked'
  BY <1>3, <1>6, UnmarkedFrame DEF Inv
<1> QED
  BY <1>7, <1>8 DEF UnitStep

LEMMA RestockUnits ==
    ASSUME Inv, Unmarked, NEW w \in Workers, Restock(w)
    PROVE  UnitStep
<1>1. task[w] \in Task /\ HandlerOK(task[w]) /\ task[w].pc = "restock"
  BY Running DEF Restock, At, Inv
<1>2. task[w].r \in Requests /\ returns[task[w].r] \in Request
  BY <1>1 DEF HandlerOK, OnRequest
<1>3. CASE task[w].left = {}
  <2>1. SetStatus(task[w].r, "restocked") /\ Finish(w)
    BY <1>3 DEF Restock
  <2> QED
    BY <1>1, <1>2, <2>1, StatusUnits
<1>4. CASE task[w].left # {}
  <2>1. PICK n \in task[w].left :
           /\ stock' = [stock EXCEPT ![task[w].read.lines[n].item].available =
                           @ + task[w].read.lines[n].quantity]
           /\ task' = [task EXCEPT ![w].pc = "mark", ![w].item = n]
           /\ UNCHANGED <<returns, raced>>
    BY <1>4 DEF Restock
  <2>2. Restocks(w, n)
    BY <2>1 DEF Restock, Restocks
  <2> DEFINE t == [task[w] EXCEPT !.pc = "mark", !.item = n]
  <2>3. task' = [task EXCEPT ![w] = t] /\ t.pc # "insert"
    BY <1>1, <2>1 DEF Inv, TypeOK, Task
  <2> HIDE DEF t
  <2>4. Unmarked'
    BY <2>3, UnmarkedFrame DEF Inv
  <2> QED
    BY <2>2, <2>4 DEF UnitStep
<1> QED
  BY <1>3, <1>4

LEMMA MarkUnits ==
    ASSUME Inv, Unmarked, NEW w \in Workers, Mark(w)
    PROVE  UnitStep
<1> DEFINE r == task[w].r
           t == [task[w] EXCEPT !.pc = "restock", !.left = task[w].left \ {task[w].item}, !.item = 0]
<1>1. task[w] \in Task /\ HandlerOK(task[w]) /\ task[w].pc = "mark"
  BY Running DEF Mark, At, Inv
<1>2. r \in Requests /\ returns[r] \in Request
  BY <1>1 DEF HandlerOK, OnRequest
<1>3. task' = [task EXCEPT ![w] = t] /\ t.pc = "restock"
  BY <1>1 DEF Mark, Inv, TypeOK, Task
<1> HIDE DEF t
<1>4. task'[w] = t /\ \A x \in Workers \ {w} : task'[x] = task[x]
  BY <1>3 DEF Inv, TypeOK
<1>5. /\ returns'[r].marked = returns[r].marked \cup {task[w].item}
      /\ returns'[r].lines = returns[r].lines
      /\ \A q \in Requests \ {r} : returns'[q] = returns[q]
  BY <1>2 DEF Mark, Inv, TypeOK, Request
<1> HIDE DEF r
<1>6. ASSUME NEW q \in Requests PROVE BackItems(returns', task', q) = BackItems(returns, task, q)
  <2>1. ASSUME NEW n PROVE n \in BackItems(returns', task', q) <=> n \in BackItems(returns, task, q)
    <3>1. n \in BackItems(returns', task', q)
             <=> \/ n \in returns'[q].marked
                 \/ \E x \in Workers \ {w} : task[x].pc = "mark" /\ task[x].r = q /\ n = task[x].item
      <4>1. n \in BackItems(returns', task', q)
               <=> \/ n \in returns'[q].marked
                   \/ \E x \in Workers : task'[x].pc = "mark" /\ task'[x].r = q /\ n = task'[x].item
        BY BackItemsElement
      <4>2. ASSUME NEW x \in Workers, task'[x].pc = "mark" PROVE x # w /\ task'[x] = task[x]
        BY <1>3, <1>4, <4>2
      <4> QED
        BY <1>4, <4>1, <4>2
    <3>2. CASE q = r
      <4>1. n \in returns'[q].marked <=> n \in returns[q].marked \/ n = task[w].item
        BY <1>5, <3>2
      <4>2. task[w].pc = "mark" /\ task[w].r = q
        BY <1>1, <3>2 DEF r
      <4> QED
        BY <3>1, <4>1, <4>2, BackItemsElement
    <3>3. CASE q # r
      <4>1. task[w].r # q
        BY <3>3 DEF r
      <4> QED
        BY <1>5, <3>1, <3>3, <4>1, BackItemsElement
    <3> QED
      BY <3>2, <3>3
  <2> QED
    BY <2>1
<1>7. Same
  BY <1>5, <1>6 DEF Same
<1>8. Unmarked'
  BY <1>3, UnmarkedFrame DEF Inv
<1> QED
  BY <1>7, <1>8 DEF UnitStep

LEMMA FaultUnits ==
    ASSUME Inv, Unmarked, NEW w \in Workers, Fault(w)
    PROVE  UnitStep
<1>1. /\ task' = [task EXCEPT ![w] = Idle] /\ UNCHANGED <<returns, stock>>
      /\ faults' = faults + 1
  BY DEF Fault, Finish
<1>2. Idle.pc # "mark" /\ Idle.pc # "insert"
  BY DEF Idle
<1>3. task'[w] = Idle /\ \A x \in Workers \ {w} : task'[x] = task[x]
  BY <1>1 DEF Inv, TypeOK
<1>4. Keeps
  BY <1>1, <1>2, <1>3 DEF Keeps, ItemsKept, BackItems
<1>5. Unmarked'
  BY <1>1, <1>2, UnmarkedFrame DEF Inv
<1> QED
  BY <1>1, <1>4, <1>5 DEF UnitStep

(* The steps that move no item. *)
LEMMA QuietUnits ==
    ASSUME Inv, Unmarked, NEW w \in Workers,
           Write(w) \/ ReadOrder(w) \/ Refund(w) \/ Record(w) \/ Close(w) \/ Check(w) \/ Apply(w)
    PROVE  UnitStep
<1>1. CASE Write(w)
  <2>1. task[w].pc = "write" /\ HandlerOK(task[w])
    BY <1>1, Running DEF Write, At, Inv
  <2>2. task[w].r \in Requests /\ returns[task[w].r] \in Request
    BY <2>1 DEF HandlerOK, OnRequest
  <2> QED
    BY <1>1, <2>1, <2>2, StatusUnits DEF Write
<1>2. CASE Record(w)
  <2>1. task[w].pc = "record" /\ HandlerOK(task[w])
    BY <1>2, Running DEF Record, At, Inv
  <2>2. task[w].r \in Requests /\ returns[task[w].r] \in Request
    BY <2>1 DEF HandlerOK, OnRequest
  <2> QED
    BY <1>2, <2>1, <2>2, StatusUnits DEF Record
<1>3. CASE ReadOrder(w)
  BY <1>3, GotoUnits DEF ReadOrder, At, Steps
<1>4. CASE Refund(w)
  BY <1>4, GotoUnits DEF Refund, At, Steps
<1>5. CASE Close(w)
  <2> DEFINE t == Handler("check", "none", "refunded")
  <2>1. task[w].pc = "close" /\ UNCHANGED returns
    BY <1>5 DEF Close, At
  <2>2. CASE Finish(w)
    BY <2>1, <2>2, GotoUnits DEF Steps
  <2>3. CASE task' = [task EXCEPT ![w] = t]
    <3>1. t.pc = "check"
      BY DEF Handler
    <3> HIDE DEF t
    <3> QED
      BY <2>1, <2>3, <3>1, SameQuiet, UnmarkedFrame DEF UnitStep, Inv
  <2> QED
    BY <1>5, <2>2, <2>3 DEF Close
<1>6. CASE Check(w)
  <2> DEFINE t == [task[w] EXCEPT !.pc = "apply", !.seen = order]
  <2>1. task[w].pc = "check" /\ UNCHANGED returns /\ task[w] \in Task
    BY <1>6, Running DEF Check, At, Inv
  <2>2. CASE Finish(w)
    BY <2>1, <2>2, GotoUnits DEF Steps
  <2>3. CASE task' = [task EXCEPT ![w].pc = "apply", ![w].seen = order]
    <3>1. t.pc = "apply" /\ task' = [task EXCEPT ![w] = t]
      BY <2>1, <2>3 DEF Task, Inv, TypeOK
    <3> HIDE DEF t
    <3> QED
      BY <2>1, <3>1, SameQuiet, UnmarkedFrame DEF UnitStep, Inv
  <2> QED
    BY <1>6, <2>2, <2>3 DEF Check
<1>7. CASE Apply(w)
  BY <1>7, GotoUnits DEF Apply, At, Steps
<1> QED
  BY <1>1, <1>2, <1>3, <1>4, <1>5, <1>6, <1>7

LEMMA DeliverUnits ==
    ASSUME Inv, Unmarked, NEW w \in Workers, NEW amount, Deliver(w, amount)
    PROVE  UnitStep
<1>1. CASE Start(w, Handler("check", "none", "refunded"))
  BY <1>1, StartUnits DEF Deliver, Handler
<1>2. CASE UNCHANGED task
  BY <1>2, SameStill, UnmarkedStill DEF Deliver, UnitStep
<1> QED
  BY <1>1, <1>2 DEF Deliver

LEMMA StartAdminUnits ==
    ASSUME Inv, Unmarked, NEW w \in Workers, NEW to, StartAdmin(w, to)
    PROVE  UnitStep
<1> DEFINE t == [Handler("apply", "none", to) EXCEPT !.seen = order]
<1>1. Start(w, t) /\ UNCHANGED returns
  BY DEF StartAdmin
<1>2. t.pc = "apply"
  BY DEF Handler
<1> HIDE DEF t
<1> QED
  BY <1>1, <1>2, StartUnits

LEMMA NextUnits == Inv /\ Unmarked /\ [Next]_vars => UnitStep
<1> SUFFICES ASSUME Inv, Unmarked, [Next]_vars PROVE UnitStep
  OBVIOUS
<1>1. CASE \E w \in Workers, r \in Requests, lines \in Dtos, b \in BOOLEAN :
              StartCreate(w, r, lines, b)
  BY <1>1, StartCreateUnits
<1>2. CASE \E w \in Workers, r \in Requests, to \in ReturnStatuses : StartTransition(w, r, to)
  BY <1>2, StartTransitionUnits
<1>3. CASE \E w \in Workers, amount \in events : Deliver(w, amount)
  BY <1>3, DeliverUnits
<1>4. CASE \E w \in Workers, to \in ByHand : StartAdmin(w, to)
  BY <1>4, StartAdminUnits
<1>5. CASE \E w \in Workers : Step(w)
  BY <1>5, InsertUnits, RestockUnits, MarkUnits, FaultUnits, QuietUnits DEF Step
<1>6. CASE UNCHANGED vars
  BY <1>6, SameStill, UnmarkedStill DEF vars, UnitStep
<1> QED
  BY <1>1, <1>2, <1>3, <1>4, <1>5, <1>6 DEF Next

-----------------------------------------------------------------------------
(* Marked units are in stock. *)

(* A movement of the order's stock takes nothing from the available bucket. *)
LEMMA MovedAvailable ==
    ASSUME NEW levels \in StockLevels, NEW q \in Claim, NEW prev, NEW next, NEW v \in Variants
    PROVE  Moved(levels, q, prev, next)[v].available =
              IF /\ next \in {"cancelled", "refunded"} /\ prev \notin {"shipped", "delivered"}
              THEN levels[v].available + q[v] ELSE levels[v].available
<1>1. CASE next \in {"cancelled", "refunded"}
  <2>1. CASE prev \in InCommitted
    BY <1>1, <2>1 DEF Moved, ReleaseCommitted, InCommitted
  <2>2. CASE prev \notin InCommitted
    BY <1>1, <2>2 DEF Moved, Release, InCommitted
  <2> QED
    BY <2>1, <2>2
<1>2. CASE next \notin {"cancelled", "refunded"}
  BY <1>2 DEF Moved, Commit, ConfirmSale
<1> QED
  BY <1>1, <1>2

LEMMA StockGrows ==
    ASSUME Inv, [Next]_vars, NEW v \in Variants
    PROVE  stock'[v].available >= stock[v].available
<1>t. stock \in StockLevels /\ stock[v].available \in Nat
  BY DEF Inv, TypeOK, StockLevels, Row
<1>1. CASE \E w \in Workers : Apply(w)
  <2>1. PICK w \in Workers : stock' = Moved(stock, Ordered, task[w].seen, task[w].to)
    BY <1>1 DEF Apply
  <2>2. Ordered[v] \in Nat /\ Ordered \in Claim
    BY OrderedAssumption DEF Claim
  <2> QED
    BY <1>t, <2>1, <2>2, MovedAvailable
<1>2. CASE \E w \in Workers : Restock(w)
  <2>1. PICK w \in Workers : Restock(w)
    BY <1>2
  <2>2. HandlerOK(task[w]) /\ task[w].pc = "restock"
    BY <2>1, Running DEF Restock, At, Inv
  <2>3. CASE UNCHANGED stock
    BY <1>t, <2>3
  <2>4. CASE \E n \in task[w].left :
                stock' = [stock EXCEPT ![task[w].read.lines[n].item].available =
                             @ + task[w].read.lines[n].quantity]
    <3>1. PICK n \in task[w].left :
             stock' = [stock EXCEPT ![task[w].read.lines[n].item].available =
                          @ + task[w].read.lines[n].quantity]
      BY <2>4
    <3>2. task[w].read.lines \in Seq(Line) /\ n \in DOMAIN task[w].read.lines
      BY <2>2 DEF HandlerOK, OnRequest, Request
    <3>3. task[w].read.lines[n] \in Line
      BY <3>2
    <3>4. task[w].read.lines[n].item \in Variants /\ task[w].read.lines[n].quantity \in Nat
      BY <3>3 DEF Line
    <3>5. PICK u \in Variants, q \in Nat : stock' = [stock EXCEPT ![u].available = @ + q]
      BY <3>1, <3>4
    <3>6. CASE u = v
      <4>1. stock'[v].available = stock[v].available + q
        BY <1>t, <3>5, <3>6 DEF StockLevels, Row
      <4> QED
        BY <1>t, <4>1
    <3>7. CASE u # v
      BY <1>t, <3>5, <3>7 DEF StockLevels
    <3> QED
      BY <3>6, <3>7
  <2> QED
    BY <2>1, <2>3, <2>4 DEF Restock
<1>3. ASSUME ~(\E w \in Workers : Apply(w) \/ Restock(w)) PROVE UNCHANGED stock
  BY ZenonT(60), <1>3 DEF Next, Step, vars, StartCreate, StartTransition, Deliver, StartAdmin, Insert, Write,
     ReadOrder, Refund, Record, Close, Mark, Check, Fault
<1> QED
  BY <1>t, <1>1, <1>2, <1>3

(* What is back is in the available bucket.                                 *)
Stocked ==
    \A v \in Variants : IsFiniteSet(Back(v)) /\ stock[v].available >= Cardinality(Back(v))

(* An item whose units are put back: the line it restocks.                  *)
LEMMA RestockedLine ==
    ASSUME Inv, Inv', NEW w \in Workers, NEW n \in task[w].left, Restocks(w, n)
    PROVE  /\ task[w].r \in Requests /\ n \in DOMAIN returns[task[w].r].lines
           /\ returns[task[w].r].lines = task[w].read.lines
           /\ returns[task[w].r].lines[n].item \in Variants
           /\ returns[task[w].r].lines[n].quantity \in Nat
           /\ ItemAdded(returns, task, task', task[w].r, n)
           /\ \A v \in Variants :
                 stock'[v].available =
                    IF returns[task[w].r].lines[n].item = v
                    THEN stock[v].available + returns[task[w].r].lines[n].quantity
                    ELSE stock[v].available
<1> DEFINE r == task[w].r
           t == [task[w] EXCEPT !.pc = "mark", !.item = n]
<1>1. task[w] \in Task /\ HandlerOK(task[w]) /\ task[w].pc = "restock"
  BY Running DEF Restocks, At, Inv
<1>2. /\ r \in Requests /\ returns[r] \in Request /\ returns[r].lines = task[w].read.lines
      /\ n \in DOMAIN returns[r].lines
  BY <1>1 DEF HandlerOK, OnRequest
<1>3. returns[r].lines[n] \in Line
  <2>1. returns[r].lines \in Seq(Line)
    BY <1>2 DEF Request
  <2> QED
    BY <1>2, <2>1
<1>4. returns[r].lines[n].item \in Variants /\ returns[r].lines[n].quantity \in Nat
  BY <1>3 DEF Line
<1>5. task' = [task EXCEPT ![w] = t] /\ t.pc = "mark" /\ t.r = r /\ t.item = n
  BY <1>1 DEF Restocks, Inv, TypeOK, Task
<1> HIDE DEF t
<1>6. task'[w] = t /\ \A x \in Workers \ {w} : task'[x] = task[x]
  BY <1>5 DEF Inv, TypeOK
<1>7. ASSUME NEW q \in Requests, NEW m
      PROVE  m \in BackItems(returns, task', q)
                <=> m \in BackItems(returns, task, q) \/ (q = r /\ m = n)
  <2>1. m \in BackItems(returns, task', q)
           <=> \/ m \in returns[q].marked
               \/ \E x \in Workers : task'[x].pc = "mark" /\ task'[x].r = q /\ m = task'[x].item
    BY BackItemsElement
  <2>2. m \in BackItems(returns, task, q)
           <=> \/ m \in returns[q].marked
               \/ \E x \in Workers : task[x].pc = "mark" /\ task[x].r = q /\ m = task[x].item
    BY BackItemsElement
  <2>3. task[w].pc # "mark"
    BY <1>1
  <2>4. (\E x \in Workers : task'[x].pc = "mark" /\ task'[x].r = q /\ m = task'[x].item)
           <=> \/ \E x \in Workers : task[x].pc = "mark" /\ task[x].r = q /\ m = task[x].item
               \/ q = r /\ m = n
    BY <1>5, <1>6, <2>3
  <2> QED
    BY <2>1, <2>2, <2>4
<1>8. ItemAdded(returns, task, task', r, n)
  BY <1>2, <1>7 DEF ItemAdded
<1>9. ASSUME NEW v \in Variants
      PROVE  stock'[v].available = IF returns[r].lines[n].item = v
                                   THEN stock[v].available + returns[r].lines[n].quantity
                                   ELSE stock[v].available
  <2>1. stock' = [stock EXCEPT ![returns[r].lines[n].item].available =
                     @ + returns[r].lines[n].quantity]
    BY <1>2 DEF Restocks
  <2> HIDE DEF r
  <2> QED
    BY <1>4, <2>1 DEF Inv, TypeOK, StockLevels, Row
<1> QED
  BY <1>2, <1>4, <1>8, <1>9

LEMMA InitStocked == Init => Unmarked /\ Stocked
<1> SUFFICES ASSUME Init PROVE Unmarked /\ Stocked
  OBVIOUS
<1>1. \A w \in Workers : task[w].pc = "idle"
  BY DEF Init, Idle
<1>2. ASSUME NEW v \in Variants PROVE Back(v) = {}
  <2>1. \A r \in Requests : DOMAIN returns[r].lines = {}
    BY DEF Init, Absent
  <2>2. \A u : u \notin Back(v)
    BY <2>1, BackElement DEF Back
  <2> QED
    BY <2>2
<1>3. \A v \in Variants : stock[v].available = 0
  BY DEF Init
<1>4. Stocked
  <2> SUFFICES ASSUME NEW v \in Variants
               PROVE  IsFiniteSet(Back(v)) /\ stock[v].available >= Cardinality(Back(v))
    BY DEF Stocked
  <2>1. IsFiniteSet({}) /\ Cardinality({}) = 0
    BY FS_EmptySet
  <2>2. Back(v) = {} /\ stock[v].available = 0
    BY <1>2, <1>3
  <2> QED
    BY <2>1, <2>2
<1> QED
  BY <1>1, <1>4 DEF Unmarked

LEMMA NextStocked ==
    ASSUME Inv, Inv', Unmarked, Stocked, [Next]_vars
    PROVE  Unmarked' /\ Stocked'
<1>1. UnitStep
  BY NextUnits
<1>2. ASSUME Keeps PROVE Stocked'
  <2> SUFFICES ASSUME NEW v \in Variants
               PROVE  IsFiniteSet(Back(v))' /\ stock'[v].available >= Cardinality(Back(v))'
    BY DEF Stocked
  <2> DEFINE old == Back(v)
             new == BackAt(returns', task', v)
  <2>1. IsFiniteSet(old) /\ stock[v].available >= Cardinality(old)
    BY DEF Stocked
  <2>2. new \subseteq old
    BY <1>2, BackShrinks DEF Keeps, Back
  <2>3. stock'[v].available >= stock[v].available
    BY StockGrows
  <2>4. stock[v].available \in Nat /\ stock'[v].available \in Nat
    BY DEF Inv, TypeOK, StockLevels, Row
  <2> HIDE DEF old, new
  <2>5. IsFiniteSet(new) /\ Cardinality(new) <= Cardinality(old)
    BY <2>1, <2>2, FS_Subset
  <2>6. Cardinality(new) \in Nat /\ Cardinality(old) \in Nat
    BY <2>1, <2>5, FS_CardinalityType
  <2>7. stock'[v].available >= Cardinality(new)
    BY <2>1, <2>3, <2>4, <2>5, <2>6
  <2> QED
    BY <2>5, <2>7 DEF Back, new
<1>3. ASSUME NEW w \in Workers, NEW n \in task[w].left, Restocks(w, n) PROVE Stocked'
  <2> SUFFICES ASSUME NEW v \in Variants
               PROVE  IsFiniteSet(Back(v))' /\ stock'[v].available >= Cardinality(Back(v))'
    BY DEF Stocked
  <2> DEFINE line == returns[task[w].r].lines[n]
             old == BackAt(returns, task, v)
             new == BackAt(returns, task', v)
             more == LineUnits(task[w].r, n, line.quantity)
  <2>1. IsFiniteSet(old) /\ stock[v].available >= Cardinality(old)
    BY DEF Stocked, Back
  <2>2. /\ line.quantity \in Nat
        /\ new = IF line.item = v THEN old \cup more ELSE old
        /\ stock'[v].available = IF line.item = v THEN stock[v].available + line.quantity
                                                  ELSE stock[v].available
    BY <1>3, RestockedLine, BackGrows
  <2>3. stock[v].available \in Nat
    BY DEF Inv, TypeOK, StockLevels, Row
  <2>4. IsFiniteSet(more) /\ Cardinality(more) = line.quantity
    BY <2>2, LineCount
  <2>5. UNCHANGED returns
    BY <1>3 DEF Restocks
  <2> HIDE DEF old, new, more, line
  <2>6. /\ IsFiniteSet(old \cup more)
        /\ Cardinality(old \cup more) = Cardinality(old) + Cardinality(more)
                                        - Cardinality(old \cap more)
    BY <2>1, <2>4, FS_Union
  <2>7. Cardinality(old) \in Nat /\ Cardinality(old \cap more) \in Nat
    BY <2>1, FS_CardinalityType, FS_Intersection
  <2>8. IsFiniteSet(new) /\ stock'[v].available >= Cardinality(new)
    BY <2>1, <2>2, <2>3, <2>4, <2>6, <2>7
  <2> QED
    BY <2>5, <2>8 DEF Back, new
<1> QED
  BY <1>1, <1>2, <1>3, SameKeeps DEF UnitStep

LEMMA AlwaysStocked == Spec => [](Unmarked /\ Stocked)
<1>1. Inv /\ Inv' /\ (Unmarked /\ Stocked) /\ [Next]_vars => (Unmarked /\ Stocked)'
  BY NextStocked
<1> QED
  BY <1>1, InitStocked, AlwaysInv, PTL DEF Spec

(* An item marked as restocked has its units in stock: the two writes of a  *)
(* restock (the units, then the mark) may be cut by a crash, retried and    *)
(* interleaved with those of other handlers, refunds and cancellations, and *)
(* the available bucket still holds at least the units of the marked items. *)
THEOREM MarkedInStock == Spec => []MarkedIsInStock
<1>1. Inv /\ Unmarked /\ Stocked => MarkedIsInStock
  <2> SUFFICES ASSUME Inv, Stocked, NEW v \in Variants
               PROVE  stock[v].available >= Cardinality(MarkedUnits(v))
    BY DEF MarkedIsInStock
  <2>1. IsFiniteSet(Back(v)) /\ stock[v].available >= Cardinality(Back(v))
    BY DEF Stocked
  <2>2. IsFiniteSet(MarkedUnits(v)) /\ Cardinality(MarkedUnits(v)) <= Cardinality(Back(v))
    BY <2>1, MarkedAreBack, FS_Subset
  <2>3. Cardinality(MarkedUnits(v)) \in Nat /\ Cardinality(Back(v)) \in Nat
    BY <2>1, <2>2, FS_CardinalityType
  <2>4. stock[v].available \in Nat
    BY DEF Inv, TypeOK, StockLevels, Row
  <2> QED
    BY <2>1, <2>2, <2>3, <2>4
<1> QED
  BY <1>1, AlwaysInv, AlwaysStocked, PTL

-----------------------------------------------------------------------------
(* Handlers that do not overlap: what a handler read is still so when it     *)
(* writes.                                                                   *)

\* The units of v that stored returns claim, and lines that leave room for more.
HeldAt(rows, v) ==
    UNION {UnitsAt(rows, r, DOMAIN rows[r].lines, v) :
              r \in {q \in Requests : rows[q].status \in Active}}
FitAt(rows, lines) ==
    \A n \in DOMAIN lines :
        Cardinality(HeldAt(rows, lines[n].item)) + lines[n].quantity <= Ordered[lines[n].item]

LEMMA ClaimedAt == \A v : Claimed(v) = Cardinality(HeldAt(returns, v))
<1>1. \A v : Units(In(Active), v) = HeldAt(returns, v)
  BY UnitsOfAt DEF Units, HeldAt, In
<1> QED
  BY <1>1 DEF Claimed

Knows(t) ==
    /\ t.pc = "insert" => FitAt(returns, t.read.lines)
    /\ t.pc = "write" => t.to \in ReturnTransitions[returns[t.r].status]
    /\ t.pc \in {"order", "stripe", "record"} => returns[t.r].status = "approved"
    /\ t.pc \in {"restock", "mark"} =>
          returns[t.r].status = "refunded" /\ t.left \cap returns[t.r].marked = {}
    /\ t.pc = "mark" => t.item \in t.left
    /\ t.pc = "apply" => t.seen = order /\ t.to \in AllowedTransitions[order]
KnowsNext(t) ==
    /\ t.pc = "insert" => FitAt(returns', t.read.lines)
    /\ t.pc = "write" => t.to \in ReturnTransitions[returns'[t.r].status]
    /\ t.pc \in {"order", "stripe", "record"} => returns'[t.r].status = "approved"
    /\ t.pc \in {"restock", "mark"} =>
          returns'[t.r].status = "refunded" /\ t.left \cap returns'[t.r].marked = {}
    /\ t.pc = "mark" => t.item \in t.left
    /\ t.pc = "apply" => t.seen = order' /\ t.to \in AllowedTransitions[order']

Alone(w) == \A x \in Workers \ {w} : task[x] = Idle
Solo ==
    ~raced =>
        /\ \A w, x \in Workers : task[w] # Idle /\ task[x] # Idle => w = x
        /\ \A w \in Workers : Knows(task[w])
        /\ released => order \in {"cancelled", "refunded"}

LEMMA IdleKnows == KnowsNext(Idle) /\ Idle.pc = "idle"
BY DEF KnowsNext, Idle

(* A step of a worker that is alone. *)
LEMMA SoloFrame ==
    ASSUME TypeOK, NEW w \in Workers, NEW t, task' = [task EXCEPT ![w] = t],
           raced' \/ (Alone(w) /\ KnowsNext(t) /\ (released' => order' \in {"cancelled", "refunded"}))
    PROVE  Solo'
<1>1. CASE raced'
  BY <1>1 DEF Solo
<1>2. CASE Alone(w) /\ KnowsNext(t) /\ (released' => order' \in {"cancelled", "refunded"})
  <2>1. task'[w] = t /\ \A x \in Workers \ {w} : task'[x] = Idle
    BY <1>2 DEF TypeOK, Alone
  <2>2. \A x \in Workers : KnowsNext(task'[x])
    BY <1>2, <2>1, IdleKnows
  <2>3. \A x \in Workers : Knows(task[x])'
    <3> SUFFICES ASSUME NEW x \in Workers, KnowsNext(task'[x]) PROVE Knows(task[x])'
      BY <2>2
    <3> QED
      BY DEF KnowsNext, Knows
  <2> QED
    BY <1>2, <2>1, <2>3 DEF Solo
<1> QED
  BY <1>1, <1>2

LEMMA StartAlone ==
    ASSUME NEW w \in Workers, NEW t, Start(w, t)
    PROVE  task' = [task EXCEPT ![w] = t] /\ (raced' \/ (~raced /\ Alone(w)))
BY DEF Start, Alone

LEMMA RunningAlone ==
    ASSUME Solo, ~raced, NEW w \in Workers, task[w].pc # "idle"
    PROVE  Alone(w) /\ Knows(task[w]) /\ (released => order \in {"cancelled", "refunded"})
BY IdleKnows DEF Solo, Alone

(* A handler that ends, or goes on to a step that needs to know nothing new. *)
LEMMA SoloFinish ==
    ASSUME Inv, Solo, NEW w \in Workers, task[w].pc # "idle", Finish(w),
           UNCHANGED <<released, order>>
    PROVE  Solo'
BY SoloFrame, RunningAlone, IdleKnows DEF Inv, Finish

LEMMA InitSolo == Init => Solo
<1> SUFFICES ASSUME Init PROVE Solo
  OBVIOUS
<1>1. \A w \in Workers : task[w] = Idle /\ task[w].pc = "idle"
  BY IdleKnows DEF Init
<1> QED
  BY <1>1 DEF Init, Solo, Knows

LEMMA StartCreateSolo ==
    ASSUME Inv, Solo, NEW w \in Workers, NEW r \in Requests, NEW lines \in Dtos,
           NEW b \in BOOLEAN, StartCreate(w, r, lines, b)
    PROVE  Solo'
<1> DEFINE h == Handler("insert", r, "requested")
           read == [status |-> "requested", lines |-> lines, restock |-> b, marked |-> {}]
           t == [h EXCEPT !.read = read]
<1>1. Start(w, t) /\ UNCHANGED <<order, stock, returns, released>> /\ LinesFit(lines)
  BY DEF StartCreate
<1>2. h \in Task /\ h.pc = "insert"
  BY HandlerType DEF Steps, ReturnStatuses, Handler
<1>3. t.pc = "insert" /\ t.read = read
  <2> HIDE DEF h, read
  <2> QED
    BY <1>2 DEF Task
<1>4. read.lines = lines
  OBVIOUS
<1>5. FitAt(returns', lines)
  BY <1>1, ClaimedAt DEF LinesFit, FitAt
<1> HIDE DEF t, read
<1>7. KnowsNext(t)
  BY <1>3, <1>4, <1>5 DEF KnowsNext
<1>8. ~raced => (released => order \in {"cancelled", "refunded"})
  BY DEF Solo
<1> QED
  BY <1>1, <1>7, <1>8, StartAlone, SoloFrame DEF Inv

LEMMA InsertSolo ==
    ASSUME Inv, Solo, NEW w \in Workers, Insert(w)
    PROVE  Solo'
BY SoloFinish DEF Insert, At

LEMMA StartTransitionSolo ==
    ASSUME Inv, Solo, NEW w \in Workers, NEW r \in Requests, NEW to \in ReturnStatuses,
           StartTransition(w, r, to)
    PROVE  Solo'
<1> DEFINE pc == CASE to = "refunded" -> "order" [] to = "restocked" -> "restock"
                   [] OTHER -> "write"
           left == DOMAIN returns[r].lines \ returns[r].marked
           h == Handler(pc, r, to)
           t == [h EXCEPT !.read = returns[r], !.left = left]
<1>1. /\ Start(w, t) /\ UNCHANGED <<order, stock, returns, released>>
      /\ to \in ReturnTransitions[returns[r].status] /\ returns[r] \in Request
  BY DEF StartTransition, Inv, TypeOK
<1>2. /\ pc \in {"order", "restock", "write"} /\ (pc = "order" => to = "refunded")
      /\ (pc = "restock" => to = "restocked")
  OBVIOUS
<1>3. h \in Task /\ h.pc = pc /\ h.r = r /\ h.to = to
  BY <1>2, HandlerType DEF Steps, Handler
<1>4. t.pc = pc /\ t.r = r /\ t.left = left /\ t.to = to
  <2> HIDE DEF h, left
  <2> QED
    BY <1>3 DEF Task
<1>5. /\ pc = "order" => returns[r].status = "approved"
      /\ pc = "restock" => returns[r].status = "refunded"
  BY <1>1, <1>2 DEF ReturnTransitions, Request, ReturnStatuses
<1>6. left \cap returns[r].marked = {}
  OBVIOUS
<1> HIDE DEF t, pc, left
<1>7. KnowsNext(t)
  BY <1>1, <1>2, <1>4, <1>5, <1>6 DEF KnowsNext
<1>8. ~raced => (released => order \in {"cancelled", "refunded"})
  BY DEF Solo
<1> QED
  BY <1>1, <1>7, <1>8, StartAlone, SoloFrame DEF Inv

LEMMA GotoSolo ==
    ASSUME Inv, Solo, NEW w \in Workers, task[w].pc # "idle",
           NEW pc \in {"stripe", "record", "close"}, Goto(w, pc), UNCHANGED <<released, order>>,
           pc # "close" => task[w].pc \in {"order", "stripe"} /\ UNCHANGED returns
    PROVE  Solo'
<1> DEFINE t == [task[w] EXCEPT !.pc = pc]
<1>1. task[w] \in Task
  BY Running DEF Inv
<1>2. task' = [task EXCEPT ![w] = t] /\ t.pc = pc /\ t.r = task[w].r /\ raced' = raced
  BY <1>1 DEF Goto, Task
<1> HIDE DEF t
<1>3. ASSUME ~raced PROVE KnowsNext(t)
  <2>1. Knows(task[w])
    BY <1>3, RunningAlone
  <2> QED
    BY <1>2, <2>1 DEF Knows, KnowsNext
<1> QED
  BY <1>2, <1>3, RunningAlone, SoloFrame DEF Inv

LEMMA RestockSolo ==
    ASSUME Inv, Solo, NEW w \in Workers, Restock(w)
    PROVE  Solo'
<1>1. task[w] \in Task /\ task[w].pc = "restock"
  BY Running DEF Restock, At, Inv
<1>2. UNCHANGED <<order, released>> /\ raced' = raced
  BY DEF Restock, Finish
<1>3. CASE Finish(w)
  BY <1>1, <1>2, <1>3, SoloFinish
<1>4. CASE /\ UNCHANGED returns
           /\ \E n \in task[w].left : task' = [task EXCEPT ![w].pc = "mark", ![w].item = n]
  <2>1. PICK n \in task[w].left : task' = [task EXCEPT ![w].pc = "mark", ![w].item = n]
    BY <1>4
  <2> DEFINE t == [task[w] EXCEPT !.pc = "mark", !.item = n]
  <2>2. /\ task' = [task EXCEPT ![w] = t] /\ t.pc = "mark" /\ t.r = task[w].r
        /\ t.item = n /\ t.left = task[w].left
    BY <1>1, <2>1 DEF Inv, TypeOK, Task
  <2> HIDE DEF t
  <2>3. ASSUME ~raced PROVE KnowsNext(t)
    <3>1. Knows(task[w])
      BY <1>1, <2>3, RunningAlone
    <3> QED
      BY <1>1, <1>4, <2>2, <3>1 DEF Knows, KnowsNext
  <2> QED
    BY <1>1, <1>2, <2>2, <2>3, RunningAlone, SoloFrame DEF Inv
<1> QED
  BY <1>3, <1>4 DEF Restock

LEMMA MarkSolo ==
    ASSUME Inv, Solo, NEW w \in Workers, Mark(w)
    PROVE  Solo'
<1> DEFINE r == task[w].r
           t == [task[w] EXCEPT !.pc = "restock", !.left = task[w].left \ {task[w].item}, !.item = 0]
<1>1. task[w] \in Task /\ HandlerOK(task[w]) /\ task[w].pc = "mark"
  BY Running DEF Mark, At, Inv
<1>2. r \in Requests /\ returns[r] \in Request
  BY <1>1 DEF HandlerOK, OnRequest
<1>3. /\ task' = [task EXCEPT ![w] = t] /\ t.pc = "restock" /\ t.r = r
      /\ t.left = task[w].left \ {task[w].item}
      /\ UNCHANGED <<order, released>> /\ raced' = raced
  BY <1>1 DEF Mark, Inv, TypeOK, Task
<1> HIDE DEF t
<1>4. /\ returns'[r].marked = returns[r].marked \cup {task[w].item}
      /\ returns'[r].status = returns[r].status
  BY <1>2 DEF Mark, Inv, TypeOK, Request
<1>5. ASSUME ~raced PROVE KnowsNext(t)
  <2>1. Knows(task[w])
    BY <1>1, <1>5, RunningAlone
  <2>2. returns'[r].status = "refunded" /\ t.left \cap returns'[r].marked = {}
    BY <1>1, <1>3, <1>4, <2>1 DEF Knows
  <2> QED
    BY <1>3, <2>2 DEF KnowsNext
<1> QED
  BY <1>1, <1>3, <1>5, RunningAlone, SoloFrame DEF Inv

LEMMA QuietSolo ==
    ASSUME Inv, Solo, NEW w \in Workers,
           Write(w) \/ ReadOrder(w) \/ Refund(w) \/ Record(w) \/ Fault(w)
    PROVE  Solo'
<1>1. CASE Write(w)
  BY <1>1, SoloFinish DEF Write, At
<1>2. CASE ReadOrder(w)
  BY <1>2, SoloFinish, GotoSolo DEF ReadOrder, At
<1>3. CASE Refund(w)
  BY <1>3, SoloFinish, GotoSolo DEF Refund, At
<1>4. CASE Record(w)
  BY <1>4, GotoSolo DEF Record, At
<1>5. CASE Fault(w)
  <2>1. task[w].pc # "idle"
    <3>1. task[w] \in Task
      BY <1>5 DEF Fault, Inv, TypeOK
    <3> QED
      BY <3>1 DEF Task, Steps
  <2> QED
    BY <1>5, <2>1, SoloFinish DEF Fault
<1> QED
  BY <1>1, <1>2, <1>3, <1>4, <1>5

LEMMA CloseSolo ==
    ASSUME Inv, Solo, NEW w \in Workers, Close(w)
    PROVE  Solo'
<1> DEFINE t == Handler("check", "none", "refunded")
<1>1. task[w].pc = "close" /\ UNCHANGED <<order, released>>
  BY DEF Close, At
<1>2. CASE Finish(w)
  BY <1>1, <1>2, SoloFinish
<1>3. CASE task' = [task EXCEPT ![w] = t] /\ UNCHANGED raced
  <2>1. KnowsNext(t)
    BY DEF KnowsNext, Handler
  <2> HIDE DEF t
  <2> QED
    BY <1>1, <1>3, <2>1, RunningAlone, SoloFrame DEF Inv
<1> QED
  BY <1>2, <1>3 DEF Close

LEMMA DeliverSolo ==
    ASSUME Inv, Solo, NEW w \in Workers, NEW amount, Deliver(w, amount)
    PROVE  Solo'
<1> DEFINE t == Handler("check", "none", "refunded")
<1>1. UNCHANGED <<order, released, returns>>
  BY DEF Deliver
<1>2. CASE Start(w, t)
  <2>1. KnowsNext(t)
    BY DEF KnowsNext, Handler
  <2>2. ~raced => (released => order \in {"cancelled", "refunded"})
    BY DEF Solo
  <2> HIDE DEF t
  <2> QED
    BY <1>1, <1>2, <2>1, <2>2, StartAlone, SoloFrame DEF Inv
<1>3. CASE UNCHANGED <<task, raced>>
  BY <1>1, <1>3 DEF Solo, Knows
<1> QED
  BY <1>2, <1>3 DEF Deliver

LEMMA StartAdminSolo ==
    ASSUME Inv, Solo, NEW w \in Workers, NEW to \in ByHand, StartAdmin(w, to)
    PROVE  Solo'
<1> DEFINE h == Handler("apply", "none", to)
           t == [h EXCEPT !.seen = order]
<1>1. Start(w, t) /\ UNCHANGED <<order, released>> /\ to \in AllowedTransitions[order]
  BY DEF StartAdmin
<1>2. order \in Statuses /\ to \in Statuses
  BY ByHandAssumption, AfterSaleClosed DEF Inv, TypeOK, AfterSale
<1>3. h \in Task /\ h.pc = "apply" /\ h.to = to
  BY <1>2, HandlerType DEF Steps, Handler
<1>4. t.pc = "apply" /\ t.seen = order /\ t.to = to
  <2> HIDE DEF h
  <2> QED
    BY <1>3 DEF Task
<1> HIDE DEF t
<1>5. KnowsNext(t)
  BY <1>1, <1>4 DEF KnowsNext
<1>6. ~raced => (released => order \in {"cancelled", "refunded"})
  BY DEF Solo
<1> QED
  BY <1>1, <1>5, <1>6, StartAlone, SoloFrame DEF Inv

LEMMA CheckSolo ==
    ASSUME Inv, Solo, NEW w \in Workers, Check(w)
    PROVE  Solo'
<1> DEFINE t == [task[w] EXCEPT !.pc = "apply", !.seen = order]
<1>1. task[w] \in Task /\ task[w].pc = "check" /\ UNCHANGED <<order, released>>
  BY Running DEF Check, At, Inv
<1>2. CASE Finish(w)
  BY <1>1, <1>2, SoloFinish
<1>3. CASE /\ task[w].to \in AllowedTransitions[order] /\ UNCHANGED raced
           /\ task' = [task EXCEPT ![w].pc = "apply", ![w].seen = order]
  <2>1. /\ task' = [task EXCEPT ![w] = t] /\ t.pc = "apply" /\ t.seen = order
        /\ t.to = task[w].to
    BY <1>1, <1>3 DEF Inv, TypeOK, Task
  <2> HIDE DEF t
  <2>2. KnowsNext(t)
    BY <1>1, <1>3, <2>1 DEF KnowsNext
  <2> QED
    BY <1>1, <1>3, <2>1, <2>2, RunningAlone, SoloFrame DEF Inv
<1> QED
  BY <1>2, <1>3 DEF Check

LEMMA ApplySolo ==
    ASSUME Inv, Solo, NEW w \in Workers, Apply(w)
    PROVE  Solo'
<1>1. task[w].pc = "apply" /\ task' = [task EXCEPT ![w] = Idle] /\ raced' = raced
  BY DEF Apply, At, Finish
<1>2. ASSUME ~raced PROVE released' => order' \in {"cancelled", "refunded"}
  <2>1. /\ task[w].seen = order /\ task[w].to \in AllowedTransitions[order]
        /\ released => order \in {"cancelled", "refunded"}
    BY <1>1, <1>2, RunningAlone DEF Knows
  <2>2. ~released
    BY <2>1 DEF AllowedTransitions
  <2> QED
    BY <2>2 DEF Apply
<1> QED
  BY <1>1, <1>2, RunningAlone, IdleKnows, SoloFrame DEF Inv

LEMMA NextSolo ==
    ASSUME Inv, Solo, [Next]_vars
    PROVE  Solo'
<1>1. CASE \E w \in Workers, r \in Requests, lines \in Dtos, b \in BOOLEAN :
              StartCreate(w, r, lines, b)
  BY <1>1, StartCreateSolo
<1>2. CASE \E w \in Workers, r \in Requests, to \in ReturnStatuses : StartTransition(w, r, to)
  BY <1>2, StartTransitionSolo
<1>3. CASE \E w \in Workers, amount \in events : Deliver(w, amount)
  BY <1>3, DeliverSolo
<1>4. CASE \E w \in Workers, to \in ByHand : StartAdmin(w, to)
  BY <1>4, StartAdminSolo
<1>5. CASE \E w \in Workers : Step(w)
  BY <1>5, InsertSolo, QuietSolo, CloseSolo, RestockSolo, MarkSolo, CheckSolo, ApplySolo DEF Step
<1>6. CASE UNCHANGED vars
  BY <1>6 DEF vars, Solo, Knows
<1> QED
  BY <1>1, <1>2, <1>3, <1>4, <1>5, <1>6 DEF Next

LEMMA AlwaysSolo == Spec => []Solo
<1>1. Inv /\ Solo /\ [Next]_vars => Solo'
  BY NextSolo
<1> QED
  BY <1>1, InitSolo, AlwaysInv, PTL DEF Spec

-----------------------------------------------------------------------------
(* Every unit is put back once. *)

FromOrder(v) == IF released THEN Ordered[v] ELSE 0
Counted ==
    ~raced /\ faults = 0 =>
        \A v \in Variants : stock[v].available = Cardinality(Back(v)) + FromOrder(v)

\* Only a restock and the order's own transition move stock.
LEMMA StockSteps ==
    ASSUME Inv, Unmarked, [Next]_vars
    PROVE  /\ raced => raced'
           /\ \/ /\ UNCHANGED <<stock, released>>
                 /\ Same \/ faults' = faults + 1
              \/ \E w \in Workers : \E n \in task[w].left : Restocks(w, n)
              \/ \E w \in Workers : Apply(w) /\ Same
<1>1. raced => raced'
  BY ZenonT(60) DEF Next, Step, vars, StartCreate, StartTransition, Deliver, StartAdmin, Insert, Write,
     ReadOrder, Refund, Record, Close, Mark, Check, Fault, Restock, Apply, Start, Goto, Finish
<1>2. UnitStep
  BY NextUnits
<1>3. CASE \E w \in Workers : Apply(w)
  <2>1. PICK w \in Workers : Apply(w)
    BY <1>3
  <2>2. task[w].pc = "apply" /\ task' = [task EXCEPT ![w] = Idle] /\ UNCHANGED returns
    BY <2>1 DEF Apply, At, Finish
  <2>3. Same
    BY <2>2, IdleKnows, SameQuiet DEF Inv
  <2> QED
    BY <1>1, <2>1, <2>3
<1>4. CASE \E w \in Workers : Restock(w) /\ stock' # stock
  <2>1. PICK w \in Workers : Restock(w) /\ stock' # stock
    BY <1>4
  <2>2. \E n \in task[w].left : Restocks(w, n)
    BY <2>1 DEF Restock, Restocks
  <2> QED
    BY <1>1, <2>2
<1>5. ASSUME ~(\E w \in Workers : Apply(w) \/ (Restock(w) /\ stock' # stock))
      PROVE  UNCHANGED <<stock, released>>
  BY ZenonT(60), <1>5 DEF Next, Step, vars, StartCreate, StartTransition, Deliver, StartAdmin, Insert, Write,
     ReadOrder, Refund, Record, Close, Mark, Check, Fault, Restock
<1> QED
  BY <1>1, <1>2, <1>3, <1>4, <1>5 DEF UnitStep

LEMMA InitCounted == Init => Counted
<1> SUFFICES ASSUME Init, NEW v \in Variants
             PROVE  stock[v].available = Cardinality(Back(v)) + FromOrder(v)
  BY DEF Counted
<1>1. \A u : u \notin Back(v)
  <2>1. \A r \in Requests : DOMAIN returns[r].lines = {}
    BY DEF Init, Absent
  <2> QED
    BY <2>1, BackElement DEF Back
<1>2. Back(v) = {}
  BY <1>1
<1>3. stock[v].available = 0 /\ FromOrder(v) = 0
  BY DEF Init, FromOrder
<1>4. Cardinality({}) = 0
  BY FS_EmptySet
<1> QED
  BY <1>2, <1>3, <1>4

LEMMA NextCounted ==
    ASSUME Inv, Inv', Unmarked, Stocked, Solo, Counted, [Next]_vars
    PROVE  Counted'
<1> SUFFICES ASSUME ~raced', faults' = 0, NEW v \in Variants
             PROVE  stock'[v].available = (Cardinality(Back(v)) + FromOrder(v))'
  BY DEF Counted
<1>1. ~raced
  BY StockSteps
<1>2. faults \in Nat /\ faults' >= faults /\ faults' \in Nat
  <2>1. faults \in 0 .. MaxFaults /\ MaxFaults \in Nat
    BY FaultsAssumption DEF Inv, TypeOK
  <2>2. faults' = faults \/ faults' = faults + 1
    BY ZenonT(60) DEF Next, Step, vars, StartCreate, StartTransition, Deliver, StartAdmin, Insert, Write,
       ReadOrder, Refund, Record, Close, Mark, Check, Fault, Restock, Apply
  <2> QED
    BY <2>1, <2>2
<1>3. faults = 0 /\ faults' # faults + 1
  BY <1>2
<1> DEFINE old == BackAt(returns, task, v)
           new == BackAt(returns', task', v)
<1>4. stock[v].available = Cardinality(old) + FromOrder(v)
  BY <1>1, <1>3 DEF Counted, Back
<1>5. IsFiniteSet(old) /\ Cardinality(old) \in Nat
  BY FS_CardinalityType DEF Stocked, Back
<1>6. ASSUME Same PROVE new = old
  BY <1>6, SameBack
<1>7. CASE UNCHANGED <<stock, released>> /\ Same
  <2> HIDE DEF old, new
  <2>1. stock'[v].available = Cardinality(new) + FromOrder(v)'
    BY <1>4, <1>6, <1>7 DEF FromOrder
  <2> QED
    BY <2>1 DEF Back, new
<1>8. CASE \E w \in Workers : \E n \in task[w].left : Restocks(w, n)
  <2>1. PICK w \in Workers : \E n \in task[w].left : Restocks(w, n)
    BY <1>8
  <2>2. PICK n \in task[w].left : Restocks(w, n)
    BY <2>1
  <2> DEFINE r == task[w].r
             line == returns[r].lines[n]
             more == LineUnits(r, n, line.quantity)
  <2>3. task[w].pc = "restock" /\ UNCHANGED <<returns, released>>
    BY <2>2 DEF Restocks, At
  <2>4. Alone(w) /\ Knows(task[w])
    BY <1>1, <2>3, RunningAlone
  <2>5. n \notin BackItems(returns, task, r)
    <3>1. n \notin returns[r].marked
      BY <2>3, <2>4 DEF Knows
    <3>2. \A x \in Workers : task[x].pc # "mark"
      BY <2>3, <2>4, IdleKnows DEF Alone
    <3> QED
      BY <3>1, <3>2, BackItemsElement
  <2>6. /\ line.quantity \in Nat
        /\ new = IF line.item = v THEN old \cup more ELSE old
        /\ stock'[v].available = IF line.item = v THEN stock[v].available + line.quantity
                                                  ELSE stock[v].available
    <3>1. /\ line.quantity \in Nat
          /\ BackAt(returns, task', v) = IF line.item = v THEN old \cup more ELSE old
          /\ stock'[v].available = IF line.item = v THEN stock[v].available + line.quantity
                                                    ELSE stock[v].available
      BY <2>2, RestockedLine, BackGrows
    <3>2. new = BackAt(returns, task', v)
      BY <2>3
    <3> QED
      BY <3>1, <3>2
  <2>7. IsFiniteSet(more) /\ Cardinality(more) = line.quantity
    BY <2>6, LineCount
  <2>8. old \cap more = {}
    BY <2>5, NewUnits
  <2>9. Cardinality(old \cup more) = Cardinality(old) + Cardinality(more)
                                      - Cardinality(old \cap more)
    BY <1>5, <2>7, FS_Union
  <2>10. Cardinality(old \cap more) = 0
    BY <2>8, FS_EmptySet
  <2>11. FromOrder(v)' = FromOrder(v) /\ FromOrder(v) \in Nat
    BY <2>3, OrderedAssumption DEF FromOrder, Claim
  <2> HIDE DEF old, new, more, line
  <2>12. Cardinality(old \cup more) = Cardinality(old) + line.quantity
    BY <1>5, <2>6, <2>7, <2>9, <2>10
  <2>13. stock'[v].available = Cardinality(new) + FromOrder(v)'
    <3>1. CASE line.item = v
      BY <1>4, <1>5, <2>6, <2>11, <2>12, <3>1
    <3>2. CASE line.item # v
      BY <1>4, <2>6, <2>11, <3>2
    <3> QED
      BY <3>1, <3>2
  <2> QED
    BY <2>13 DEF Back, new
<1>9. CASE \E w \in Workers : Apply(w) /\ Same
  <2>1. PICK w \in Workers : Apply(w) /\ Same
    BY <1>9
  <2>2. task[w].pc = "apply"
    BY <2>1 DEF Apply, At
  <2>3. /\ task[w].seen = order /\ task[w].to \in AllowedTransitions[order]
        /\ released => order \in {"cancelled", "refunded"}
    BY <1>1, <2>2, RunningAlone DEF Knows
  <2>4. ~released
    BY <2>3 DEF AllowedTransitions
  <2>5. order \in AfterSale
    BY DEF Inv, TypeOK, AfterSale
  <2>6. order \notin {"cancelled", "refunded"}
    BY <2>3 DEF AllowedTransitions
  <2>7. order \in Refundable /\ (order \in InCommitted <=> order \notin {"shipped", "delivered"})
    BY <2>5, <2>6 DEF AfterSale, Refundable, InCommitted
  <2>8. released' <=> task[w].to \in {"cancelled", "refunded"} /\ order \notin {"shipped", "delivered"}
    BY <2>1, <2>3, <2>4, <2>7 DEF Apply
  <2>9. stock'[v].available =
           IF task[w].to \in {"cancelled", "refunded"} /\ order \notin {"shipped", "delivered"}
           THEN stock[v].available + Ordered[v] ELSE stock[v].available
    <3>1. stock' = Moved(stock, Ordered, order, task[w].to) /\ stock \in StockLevels
      BY <2>1, <2>3 DEF Apply, Inv, TypeOK
    <3> QED
      BY <3>1, OrderedAssumption, MovedAvailable
  <2>10. Ordered[v] \in Nat
    BY OrderedAssumption DEF Claim
  <2> HIDE DEF old, new
  <2>11. stock'[v].available = Cardinality(new) + FromOrder(v)'
    <3>1. new = old /\ FromOrder(v) = 0
      BY <1>6, <2>1, <2>4 DEF FromOrder
    <3>2. FromOrder(v)' = IF released' THEN Ordered[v] ELSE 0
      BY DEF FromOrder
    <3> QED
      BY <1>4, <1>5, <2>8, <2>9, <2>10, <3>1, <3>2
  <2> QED
    BY <2>11 DEF Back, new
<1> QED
  BY <1>3, <1>7, <1>8, <1>9, StockSteps

(* No unit is put back twice, and none is forgotten: while handlers neither *)
(* overlap nor crash, what is available again is exactly the units of the   *)
(* items marked and those the order released when it was cancelled or       *)
(* refunded.                                                                *)
THEOREM RestocksOnce == Spec => []RestockedOnce
<1>1. Inv /\ Inv' /\ (Unmarked /\ Stocked) /\ Solo /\ Counted /\ [Next]_vars => Counted'
  BY NextCounted
<1>2. Counted => RestockedOnce
  <2> SUFFICES ASSUME Counted, ~raced, faults = 0, \A w \in Workers : task[w] = Idle,
                      NEW v \in Variants
               PROVE  stock[v].available =
                         Cardinality(MarkedUnits(v)) + (IF released THEN Ordered[v] ELSE 0)
    BY DEF RestockedOnce
  <2>1. Back(v) = MarkedUnits(v)
    BY IdleKnows, NothingInHand
  <2> QED
    BY <2>1 DEF Counted, FromOrder
<1> QED
  BY <1>1, <1>2, InitCounted, AlwaysInv, AlwaysStocked, AlwaysSolo, PTL DEF Spec

-----------------------------------------------------------------------------
(* No more is requested back than was ordered. *)

OneLineEach == \A r \in Requests : OneLinePerItem(returns[r].lines)
Fit ==
    ~raced /\ OneLineEach =>
        \A v \in Variants : /\ IsFiniteSet(HeldAt(returns, v))
                            /\ Cardinality(HeldAt(returns, v)) <= Ordered[v]

LEMMA HeldElement ==
    ASSUME NEW rows, NEW v, NEW u
    PROVE  u \in HeldAt(rows, v) <=> \E r \in Requests : rows[r].status \in Active
                                        /\ u \in UnitsAt(rows, r, DOMAIN rows[r].lines, v)
BY DEF HeldAt

(* A step after which no other request is active, with the same lines.      *)
LEMMA HeldShrinks ==
    ASSUME NEW rows, NEW rows2, NEW v,
           \A r \in Requests : rows2[r].status \in Active =>
              rows[r].status \in Active /\ rows2[r].lines = rows[r].lines
    PROVE  HeldAt(rows2, v) \subseteq HeldAt(rows, v)
<1> SUFFICES ASSUME NEW u \in HeldAt(rows2, v) PROVE u \in HeldAt(rows, v)
  OBVIOUS
<1>1. PICK r \in Requests : rows2[r].status \in Active
                            /\ u \in UnitsAt(rows2, r, DOMAIN rows2[r].lines, v)
  BY HeldElement
<1>2. UnitsAt(rows2, r, DOMAIN rows2[r].lines, v) = UnitsAt(rows, r, DOMAIN rows[r].lines, v)
  BY <1>1 DEF UnitsAt
<1> QED
  BY <1>1, <1>2, HeldElement

\* Handlers that are alone only close active requests; only an insertion makes one.
Closes ==
    \A r \in Requests : returns'[r].status \in Active =>
        returns[r].status \in Active /\ returns'[r].lines = returns[r].lines

LEMMA StatusCloses ==
    ASSUME TypeOK, NEW r \in Requests, returns[r] \in Request, NEW s, SetStatus(r, s),
           s \in Active => returns[r].status \in Active
    PROVE  Closes
<1>1. /\ returns'[r].status = s /\ returns'[r].lines = returns[r].lines
      /\ \A q \in Requests \ {r} : returns'[q] = returns[q]
  BY DEF SetStatus, TypeOK, Request
<1> QED
  BY <1>1 DEF Closes

LEMMA StepCloses ==
    ASSUME Inv, Solo, ~raced, [Next]_vars
    PROVE  Closes \/ \E w \in Workers : Insert(w)
<1>1. CASE \E w \in Workers : Write(w)
  <2>1. PICK w \in Workers : Write(w)
    BY <1>1
  <2>2. HandlerOK(task[w]) /\ task[w].pc = "write" /\ Knows(task[w])
    BY <2>1, Running, RunningAlone DEF Write, At, Inv
  <2>3. /\ task[w].r \in Requests /\ returns[task[w].r] \in Request
        /\ task[w].to \in ReturnTransitions[returns[task[w].r].status]
    BY <2>2 DEF HandlerOK, OnRequest, Knows
  <2>4. returns[task[w].r].status \in Active
    BY <2>3 DEF ReturnTransitions, Request, ReturnStatuses, Active
  <2>5. SetStatus(task[w].r, task[w].to)
    BY <2>1 DEF Write
  <2> QED
    BY <2>3, <2>4, <2>5, StatusCloses DEF Inv
<1>2. CASE \E w \in Workers : Record(w)
  <2>1. PICK w \in Workers : Record(w)
    BY <1>2
  <2>2. HandlerOK(task[w]) /\ task[w].pc = "record" /\ Knows(task[w])
    BY <2>1, Running, RunningAlone DEF Record, At, Inv
  <2>3. /\ task[w].r \in Requests /\ returns[task[w].r] \in Request
        /\ returns[task[w].r].status \in Active
    BY <2>2 DEF HandlerOK, OnRequest, Knows, Active
  <2>4. SetStatus(task[w].r, "refunded")
    BY <2>1 DEF Record
  <2> QED
    BY <2>3, <2>4, StatusCloses DEF Inv
<1>3. CASE \E w \in Workers : Restock(w)
  <2>1. PICK w \in Workers : Restock(w)
    BY <1>3
  <2>2. HandlerOK(task[w]) /\ task[w].pc = "restock" /\ Knows(task[w])
    BY <2>1, Running, RunningAlone DEF Restock, At, Inv
  <2>3. /\ task[w].r \in Requests /\ returns[task[w].r] \in Request
        /\ returns[task[w].r].status \in Active
    BY <2>2 DEF HandlerOK, OnRequest, Knows, Active
  <2>4. UNCHANGED returns \/ SetStatus(task[w].r, "restocked")
    BY <2>1 DEF Restock
  <2> QED
    BY <2>3, <2>4, StatusCloses DEF Inv, Closes
<1>4. CASE \E w \in Workers : Mark(w)
  <2>1. PICK w \in Workers : Mark(w)
    BY <1>4
  <2>2. HandlerOK(task[w]) /\ task[w].pc = "mark"
    BY <2>1, Running DEF Mark, At, Inv
  <2>3. task[w].r \in Requests /\ returns[task[w].r] \in Request
    BY <2>2 DEF HandlerOK, OnRequest
  <2>4. /\ returns'[task[w].r].status = returns[task[w].r].status
        /\ returns'[task[w].r].lines = returns[task[w].r].lines
        /\ \A q \in Requests \ {task[w].r} : returns'[q] = returns[q]
    BY <2>1, <2>3 DEF Mark, Inv, TypeOK, Request
  <2> QED
    BY <2>4 DEF Closes
<1>5. ASSUME ~(\E w \in Workers : Insert(w) \/ Write(w) \/ Record(w) \/ Restock(w) \/ Mark(w))
      PROVE  UNCHANGED returns
  BY <1>5 DEF Next, Step, vars, StartCreate, StartTransition, Deliver, StartAdmin, ReadOrder,
     Refund, Close, Check, Fault, Apply
<1> QED
  BY <1>1, <1>2, <1>3, <1>4, <1>5 DEF Closes

(* The lines of a stored request never change. *)
LEMMA StepLines ==
    ASSUME Inv, [Next]_vars, NEW r \in Requests, returns[r] # Absent
    PROVE  returns'[r].lines = returns[r].lines
<1>1. CASE \E w \in Workers : Insert(w)
  <2>1. PICK w \in Workers : Insert(w)
    BY <1>1
  <2>2. HandlerOK(task[w]) /\ task[w].pc = "insert"
    BY <2>1, Running DEF Insert, At, Inv
  <2>3. task[w].r # r
    BY <2>2 DEF HandlerOK
  <2> QED
    BY <2>1, <2>3 DEF Insert, Inv, TypeOK
<1>2. CASE \E w \in Workers : Write(w) \/ Record(w) \/ (Restock(w) /\ returns' # returns) \/ Mark(w)
  <2>1. PICK w \in Workers : Write(w) \/ Record(w) \/ (Restock(w) /\ returns' # returns) \/ Mark(w)
    BY <1>2
  <2>2. HandlerOK(task[w]) /\ task[w].pc \in OnRequest
    BY <2>1, Running DEF Write, Record, Restock, Mark, At, Inv, OnRequest
  <2>3. task[w].r \in Requests /\ returns[task[w].r] \in Request
    BY <2>2 DEF HandlerOK
  <2>4. \/ \E s : SetStatus(task[w].r, s)
        \/ returns' = [returns EXCEPT ![task[w].r].marked = @ \cup {task[w].item}]
    BY <2>1 DEF Write, Record, Restock, Mark
  <2>5. ASSUME NEW s, SetStatus(task[w].r, s) PROVE returns'[r].lines = returns[r].lines
    <3>1. returns' = [returns EXCEPT ![task[w].r].status = s]
      BY <2>5 DEF SetStatus
    <3>2. returns \in [Requests -> Request \cup {Absent}]
      BY DEF Inv, TypeOK
    <3> QED
      BY <2>3, <3>1, <3>2 DEF Request
  <2>6. CASE returns' = [returns EXCEPT ![task[w].r].marked = @ \cup {task[w].item}]
    <3>1. returns \in [Requests -> Request \cup {Absent}]
      BY DEF Inv, TypeOK
    <3> QED
      BY <2>3, <2>6, <3>1 DEF Request
  <2> QED
    BY <2>4, <2>5, <2>6
<1>3. ASSUME ~(\E w \in Workers : \/ Insert(w) \/ Write(w) \/ Record(w)
                                   \/ (Restock(w) /\ returns' # returns) \/ Mark(w))
      PROVE  UNCHANGED returns
  BY <1>3 DEF Next, Step, vars, StartCreate, StartTransition, Deliver, StartAdmin, ReadOrder,
     Refund, Close, Check, Fault, Apply
<1> QED
  BY <1>1, <1>2, <1>3

LEMMA InitFit == Init => Fit
<1> SUFFICES ASSUME Init, NEW v \in Variants
             PROVE  IsFiniteSet(HeldAt(returns, v)) /\ Cardinality(HeldAt(returns, v)) <= Ordered[v]
  BY DEF Fit
<1>1. \A u : u \notin HeldAt(returns, v)
  BY HeldElement DEF Init, Absent, Active
<1>2. HeldAt(returns, v) = {}
  BY <1>1
<1>3. IsFiniteSet({}) /\ Cardinality({}) = 0
  BY FS_EmptySet
<1>4. Ordered[v] \in Nat
  BY OrderedAssumption DEF Claim
<1> QED
  BY <1>2, <1>3, <1>4

LEMMA InsertFit ==
    ASSUME Inv, Inv', Solo, ~raced, OneLineEach', NEW w \in Workers, Insert(w), NEW v \in Variants,
           IsFiniteSet(HeldAt(returns, v)), Cardinality(HeldAt(returns, v)) <= Ordered[v]
    PROVE  IsFiniteSet(HeldAt(returns', v)) /\ Cardinality(HeldAt(returns', v)) <= Ordered[v]
<1> DEFINE r == task[w].r
           lines == task[w].read.lines
           old == HeldAt(returns, v)
           new == HeldAt(returns', v)
           more == UnitsAt(returns', r, DOMAIN lines, v)
<1>1. HandlerOK(task[w]) /\ task[w].pc = "insert" /\ Knows(task[w])
  BY Running, RunningAlone DEF Insert, At, Inv
<1>2. r \in Requests /\ lines \in Seq(Line) /\ FitAt(returns, lines)
  BY <1>1 DEF HandlerOK, Request, Knows
<1>3. returns'[r].lines = lines /\ \A q \in Requests \ {r} : returns'[q] = returns[q]
  BY <1>2 DEF Insert, Inv, TypeOK
<1> HIDE DEF r, lines
<1>4. new \subseteq old \cup more
  <2> SUFFICES ASSUME NEW u \in new PROVE u \in old \cup more
    OBVIOUS
  <2>1. PICK q \in Requests : returns'[q].status \in Active
                              /\ u \in UnitsAt(returns', q, DOMAIN returns'[q].lines, v)
    BY HeldElement
  <2>2. CASE q = r
    BY <1>3, <2>1, <2>2
  <2>3. CASE q # r
    <3>1. returns'[q] = returns[q]
      BY <1>3, <2>3
    <3>2. u \in UnitsAt(returns, q, DOMAIN returns[q].lines, v)
      BY <2>1, <3>1 DEF UnitsAt
    <3> QED
      BY <2>1, <3>1, <3>2, HeldElement
  <2> QED
    BY <2>2, <2>3
<1>5. IsFiniteSet(more)
  BY <1>2, <1>3, UnitsFinite
<1>6. \A m, n \in DOMAIN lines : lines[m].item = lines[n].item => m = n
  BY <1>2, <1>3 DEF OneLineEach, OneLinePerItem
<1>7. Ordered[v] \in Nat /\ Cardinality(old) \in Nat
  BY OrderedAssumption, FS_CardinalityType DEF Claim
<1>8. CASE \E n \in DOMAIN lines : lines[n].item = v
  <2>1. PICK n \in DOMAIN lines : lines[n].item = v
    BY <1>8
  <2> DEFINE q == lines[n].quantity
             part == LineUnits(r, n, q)
  <2>2. lines[n] \in Line
    BY <1>2
  <2>3. q \in Nat
    BY <2>2 DEF Line
  <2>4. more \subseteq part
    <3> SUFFICES ASSUME NEW u \in more PROVE u \in part
      OBVIOUS
    <3>1. PICK m \in DOMAIN lines : lines[m].item = v /\ u \in LineUnits(r, m, lines[m].quantity)
      BY <1>3, UnitsElement
    <3> QED
      BY <1>6, <2>1, <3>1
  <2>5. IsFiniteSet(part) /\ Cardinality(part) = q
    BY <2>3, LineCount
  <2>6. Cardinality(old) + q <= Ordered[v]
    BY <1>2, <2>1 DEF FitAt
  <2> HIDE DEF old, new, more, part, q
  <2>7. new \subseteq old \cup part
    BY <1>4, <2>4
  <2>8. /\ IsFiniteSet(old \cup part)
        /\ Cardinality(old \cup part) = Cardinality(old) + Cardinality(part)
                                        - Cardinality(old \cap part)
    BY <2>5, FS_Union DEF old
  <2>9. Cardinality(old \cap part) \in Nat
    BY FS_Intersection, FS_CardinalityType DEF old
  <2>10. IsFiniteSet(new) /\ Cardinality(new) <= Cardinality(old \cup part)
    BY <2>7, <2>8, FS_Subset
  <2>11. Cardinality(new) \in Nat
    BY <2>10, FS_CardinalityType
  <2>12. Cardinality(new) <= Ordered[v]
    BY <1>7, <2>3, <2>5, <2>6, <2>8, <2>9, <2>10, <2>11
  <2> QED
    BY <2>10, <2>12 DEF new
<1>9. CASE \A n \in DOMAIN lines : lines[n].item # v
  <2>1. \A u : u \notin more
    BY <1>3, <1>9, UnitsElement
  <2>2. new \subseteq old
    BY <1>4, <2>1
  <2> HIDE DEF old, new, more
  <2>3. IsFiniteSet(new) /\ Cardinality(new) <= Cardinality(old)
    BY <2>2, FS_Subset DEF old
  <2>4. Cardinality(new) \in Nat
    BY <2>3, FS_CardinalityType
  <2>5. Cardinality(old) <= Ordered[v]
    BY DEF old
  <2>6. Cardinality(new) <= Ordered[v]
    BY <1>7, <2>3, <2>4, <2>5
  <2> QED
    BY <2>3, <2>6 DEF new
<1> QED
  BY <1>8, <1>9

LEMMA NextFit ==
    ASSUME Inv, Inv', Unmarked, Solo, Fit, [Next]_vars
    PROVE  Fit'
<1> SUFFICES ASSUME ~raced', OneLineEach', NEW v \in Variants
             PROVE  IsFiniteSet(HeldAt(returns', v)) /\ Cardinality(HeldAt(returns', v)) <= Ordered[v]
  BY DEF Fit
<1>1. ~raced
  BY StockSteps
<1>2. OneLineEach
  <2> SUFFICES ASSUME NEW r \in Requests PROVE OneLinePerItem(returns[r].lines)
    BY DEF OneLineEach
  <2>2. CASE returns[r] = Absent
    BY <2>2 DEF Absent, OneLinePerItem
  <2>3. CASE returns[r] # Absent
    <3>1. returns'[r].lines = returns[r].lines
      BY <2>3, StepLines
    <3> QED
      BY <3>1 DEF OneLineEach, OneLinePerItem
  <2> QED
    BY <2>2, <2>3
<1>3. IsFiniteSet(HeldAt(returns, v)) /\ Cardinality(HeldAt(returns, v)) <= Ordered[v]
  BY <1>1, <1>2 DEF Fit
<1>4. CASE Closes
  <2> DEFINE old == HeldAt(returns, v)
             new == HeldAt(returns', v)
  <2>1. new \subseteq old
    BY <1>4, HeldShrinks DEF Closes
  <2>2. IsFiniteSet(old) /\ Cardinality(old) <= Ordered[v] /\ Ordered[v] \in Nat
    BY <1>3, OrderedAssumption DEF Claim
  <2> HIDE DEF old, new
  <2>3. IsFiniteSet(new) /\ Cardinality(new) <= Cardinality(old)
    BY <2>1, <2>2, FS_Subset
  <2>4. Cardinality(new) \in Nat /\ Cardinality(old) \in Nat
    BY <2>2, <2>3, FS_CardinalityType
  <2>5. Cardinality(new) <= Ordered[v]
    BY <2>2, <2>3, <2>4
  <2> QED
    BY <2>3, <2>5 DEF new
<1>5. CASE \E w \in Workers : Insert(w)
  BY <1>1, <1>3, <1>5, InsertFit
<1> QED
  BY <1>1, <1>4, <1>5, StepCloses

(* Whatever is requested, approved, rejected, refunded and restocked in     *)
(* turn, the requests that are open or done never ask back more units of a  *)
(* variant than the order had, as long as handlers do not overlap and a     *)
(* request names an item once.                                              *)
THEOREM ReturnsFit == Spec => []ReturnsFitOrder
<1>1. Inv /\ Inv' /\ (Unmarked /\ Stocked) /\ Solo /\ Fit /\ [Next]_vars => Fit'
  BY NextFit
<1>2. Fit => ReturnsFitOrder
  BY ClaimedAt DEF Fit, ReturnsFitOrder, OneLineEach
<1> QED
  BY <1>1, <1>2, InitFit, AlwaysInv, AlwaysStocked, AlwaysSolo, PTL DEF Spec
=============================================================================
