------------------------------- MODULE Basket -------------------------------
(***************************************************************************)
(* One shopping cart (CartService) and the job that reminds its owner of   *)
(* it (CartAbandonmentProcessor).  Every handler reads the cart once and   *)
(* writes single rows later, so two requests of one customer (two tabs, a  *)
(* double click, the checkout page beside the drawer) interleave.          *)
(*                                                                         *)
(* A line is a variant with a design: the plain cap, the cap with each     *)
(* design, and a product of another brand.  The caps share quantity tiers: *)
(* from Threshold caps on, every cap line costs the tier price.            *)
(***************************************************************************)
EXTENDS Naturals, Sequences, FiniteSetsExt

CONSTANTS
    Designs,    \* designs a cap may carry (personalizationHash)
    Others,     \* lines of another brand's product, sold without tiers
    Threshold,  \* caps from which the tier price applies
    Stock,      \* units of each variant when the cart is opened
    Requests,   \* concurrent requests on the cart
    Kinds,      \* the requests that this instance runs
    MaxQty,     \* bound: units one request asks for
    MaxEdits,   \* bound: requests on the cart
    MaxStalls   \* bound: crashes of the worker that runs the reminder

Plain == "plain"
Caps  == {Plain} \cup Designs
Keys  == Caps \cup Others
Full == 3      \* the price of a unit, and its tier price
Tier == 2

VARIABLES
    cart,       \* status of the row, "none" before the first item
    lines,      \* CartItem rows by line; id 0: no row
    nextId,     \* ids handed out
    available,  \* InventoryItem.available of each variant sold
    req,        \* the request each slot runs
    job,        \* the reminder: none, delayed, active, failed
    reminder,   \* where the active reminder is
    reminded,   \* reminders sent
    stalls,
    edits,
    asked,      \* history: the units the customer asked for
    muddled     \* history: requests overlapped, or one failed half-way

cartVars == <<cart, lines, nextId, available, req, job, edits, asked, muddled>>
basketVars == <<cart, lines, nextId, available, req, job, reminder, reminded, stalls,
                edits, asked, muddled>>

NoLine == [id |-> 0, qty |-> 0, price |-> 0]
Here(ls, k) == ls[k].id # 0
Units(ls, S) == MapThenSumSet(LAMBDA k : ls[k].qty, S)
PriceAt(k, n) == IF k \in Caps /\ n >= Threshold THEN Tier ELSE Full

\* The product of a line: tiers count its units, and it has one brand.
Siblings(k) == IF k \in Caps THEN Caps ELSE {k}

\* Every design of the cap is embroidered on the same variant.
Variants == {Plain} \cup Others
Variant(k) == IF k \in Caps THEN Plain ELSE k
InStock(k, n) == available[Variant(k)] >= n

Idle == [pc |-> "idle"]
\* left: the units still to add, line by line; item: the line addressed, as
\* read; drop: how many of its units the move takes away.
Job(pc, left, key, item, drop) ==
    [pc |-> pc, left |-> left, key |-> key, item |-> item, drop |-> drop,
     seen |-> lines, moved |-> FALSE]
Goto(r, pc) == req' = [req EXCEPT ![r].pc = pc]
End(r) == req' = [req EXCEPT ![r] = Idle]
\* A refused or failed request stops where it is; what it wrote stays.
Abort(r) ==
    /\ End(r)
    /\ muddled' = (muddled \/ req[r].moved)

BasketInit ==
    /\ cart = "none"
    /\ lines = [k \in Keys |-> NoLine]
    /\ nextId = 0
    /\ available = [v \in Variants |-> Stock]
    /\ req = [r \in Requests |-> Idle]
    /\ job = "none"
    /\ reminder = "none"
    /\ reminded = 0
    /\ stalls = 0
    /\ edits = 0
    /\ asked = 0
    /\ muddled = FALSE

-----------------------------------------------------------------------------
(* Requests. *)

Start(kind, r, task) ==
    /\ kind \in Kinds
    /\ req[r] = Idle
    /\ edits < MaxEdits
    /\ edits' = edits + 1
    /\ req' = [req EXCEPT ![r] = task]
    /\ muddled' = (muddled \/ \E x \in Requests : req[x] # Idle)
    /\ UNCHANGED <<cart, lines, nextId, available, job, asked>>

AddItem(r) ==
    \E k \in Keys, n \in 1 .. MaxQty :
        /\ InStock(k, n)
        /\ Start("add", r, Job("find", <<<<k, n>>>>, k, NoLine, 0))

\* Embroider units of a plain line: one add per design, then take the units off.
PersonaliseItem(r) ==
    /\ cart = "active"
    /\ Here(lines, Plain)
    /\ \E groups \in UNION {[1 .. m -> Designs \X (1 .. MaxQty)] : m \in 1 .. Cardinality(Designs)} :
        LET moving == MapThenSumSet(LAMBDA i : groups[i][2], DOMAIN groups) IN
        /\ \A i, j \in DOMAIN groups : i # j => groups[i][1] # groups[j][1]
        /\ moving <= lines[Plain].qty
        /\ Start("personalise", r, Job("find", groups, Plain, lines[Plain], moving))

\* Another design for every unit of a line, or none.
MoveDesign(r) ==
    /\ cart = "active"
    /\ \E d \in Designs : \E to \in Caps \ {d} :
        /\ Here(lines, d)
        /\ Start("redesign", r, Job("find", <<<<to, lines[d].qty>>>>, d, lines[d], lines[d].qty))

UpdateItem(r) ==
    /\ cart = "active"
    /\ \E k \in Keys, n \in 1 .. MaxQty :
        /\ Here(lines, k)
        /\ InStock(k, n)
        /\ Start("update", r, Job("set", <<<<k, n>>>>, k, lines[k], 0))

RemoveItem(r) ==
    /\ cart = "active"
    /\ \E k \in Keys :
        /\ Here(lines, k)
        /\ Start("remove", r, Job("drop", <<>>, k, lines[k], lines[k].qty))

\* addItem: the stock check of each add, then the cart as it is now.
Known(ls) == {k \in Keys : Here(ls, k)}
\* What the customer is shown of the lines: how many units, and each line's total.
enrichCart(ls) ==
    [itemCount |-> Units(ls, Keys), lineTotalCents |-> [k \in Known(ls) |-> ls[k].qty * ls[k].price]]
SameBrand(ls, k) == \A x \in Known(ls) : (x \in Caps) = (k \in Caps)
Find(r) ==
    /\ req[r].pc = "find"
    /\ LET k == req[r].left[1][1]
           n == req[r].left[1][2]
           total == n + lines[k].qty
       IN \/ /\ ~ InStock(k, n) \/ cart \in {"abandoned", "completed"}
             /\ Abort(r)
          \/ /\ InStock(k, n)
             /\ cart = "none"
             /\ Goto(r, "create")
             /\ UNCHANGED muddled
          \/ /\ InStock(k, n)
             /\ cart = "active"
             /\ IF SameBrand(lines, k) /\ InStock(k, total)
                THEN req' = [req EXCEPT ![r].pc = "put", ![r].seen = lines] /\ UNCHANGED muddled
                ELSE Abort(r)
    /\ UNCHANGED <<cart, lines, nextId, available, job, edits, asked>>

\* The token is unique: of two first adds, one fails.
CreateCart(r) ==
    /\ req[r].pc = "create"
    /\ IF cart = "none"
       THEN /\ cart' = "active"
            /\ req' = [req EXCEPT ![r].pc = "put", ![r].seen = [k \in Keys |-> NoLine]]
            /\ UNCHANGED muddled
       ELSE Abort(r) /\ UNCHANGED cart
    /\ UNCHANGED <<lines, nextId, available, job, edits, asked>>

\* The line read is grown by its id; a new line must not exist by now.
Put(r) ==
    /\ req[r].pc = "put"
    /\ LET k == req[r].left[1][1]
           n == req[r].left[1][2]
           was == req[r].seen[k]
       IN IF was.id # lines[k].id
          THEN Abort(r) /\ UNCHANGED <<lines, nextId, asked>>
          ELSE /\ lines' = [lines EXCEPT ![k] =
                      [id |-> IF was.id = 0 THEN nextId + 1 ELSE was.id,
                       qty |-> was.qty + n, price |-> PriceAt(k, was.qty + n)]]
               /\ nextId' = IF was.id = 0 THEN nextId + 1 ELSE nextId
               /\ asked' = IF req[r].drop = 0 THEN asked + n ELSE asked
               /\ req' = [req EXCEPT ![r].pc = "read", ![r].left = Tail(req[r].left),
                                     ![r].moved = req[r].drop > 0]
               /\ UNCHANGED muddled
    /\ UNCHANGED <<cart, available, job, edits>>

\* updateItem writes the quantity asked for over whatever the line holds now.
SetLine(r) ==
    /\ req[r].pc = "set"
    /\ LET k == req[r].key
           n == req[r].left[1][2]
       IN IF lines[k].id # req[r].item.id
          THEN Abort(r) /\ UNCHANGED <<lines, asked>>
          ELSE /\ lines' = [lines EXCEPT ![k].qty = n, ![k].price = PriceAt(k, n)]
               /\ asked' = asked + n - req[r].item.qty
               /\ req' = [req EXCEPT ![r].pc = "read", ![r].left = <<>>]
               /\ UNCHANGED muddled
    /\ UNCHANGED <<cart, nextId, available, job, edits>>

\* A mutant: the units moved take the whole line with them.
RestLost(item, drop) == 0
\* The units taken off are counted from the line as it was read at the start.
Rest(item, drop) == IF item.qty > drop THEN item.qty - drop ELSE 0
Drop(r) ==
    /\ req[r].pc = "drop"
    /\ LET k == req[r].key
           rest == Rest(req[r].item, req[r].drop)
       IN IF lines[k].id # req[r].item.id
          THEN Abort(r) /\ UNCHANGED <<lines, asked>>
          ELSE /\ lines' = [lines EXCEPT ![k] = IF rest = 0 THEN NoLine ELSE [id |-> lines[k].id, qty |-> rest, price |-> lines[k].price]]
               /\ asked' = IF req[r].moved THEN asked ELSE asked - req[r].item.qty
               /\ req' = [req EXCEPT ![r].pc = "read", ![r].drop = 0]
               /\ UNCHANGED muddled
    /\ UNCHANGED <<cart, nextId, available, job, edits>>

\* repriceProductLines: the lines of the product are read ...
ReadLines(r) ==
    /\ req[r].pc = "read"
    /\ req' = [req EXCEPT ![r].pc = "price", ![r].seen = lines]
    /\ UNCHANGED <<cart, lines, nextId, available, job, edits, asked, muddled>>

\* ... and those whose price moves are written; a line gone by then fails.
Moves(ls) == {k \in Known(ls) \cap Caps : ls[k].price # PriceAt(k, Units(ls, Caps))}
Reprice(r) ==
    /\ req[r].pc = "price"
    /\ LET seen == req[r].seen
           write == IF req[r].key \in Caps THEN Moves(seen) ELSE {}
           there == {k \in write : lines[k].id = seen[k].id}
       IN /\ lines' = [k \in Keys |-> IF k \in there
                                      THEN [id |-> lines[k].id, qty |-> lines[k].qty,
                                            price |-> PriceAt(k, Units(seen, Caps))]
                                      ELSE lines[k]]
          /\ IF there # write THEN Abort(r)
             ELSE /\ UNCHANGED muddled
                  /\ IF req[r].left # <<>> \/ req[r].drop > 0 \/ req[r].item = NoLine
                     THEN Goto(r, "remind")
                     ELSE End(r)
    /\ UNCHANGED <<cart, nextId, available, job, edits, asked>>

\* A job of this cart already queued, or kept after failing, is not replaced.
Remind(r) ==
    /\ req[r].pc = "remind"
    /\ job' = IF job = "none" THEN "delayed" ELSE job
    /\ CASE req[r].left # <<>> -> Goto(r, "find")
         [] req[r].left = <<>> /\ req[r].drop > 0 -> Goto(r, "drop")
         [] OTHER -> End(r)
    /\ UNCHANGED <<cart, lines, nextId, available, edits, asked, muddled>>

\* Another customer reserves units: what a line was checked against is gone.
Sell ==
    /\ "sell" \in Kinds
    /\ \E v \in Variants : available[v] > 1 /\ available' = [available EXCEPT ![v] = 1]
    /\ UNCHANGED <<cart, lines, nextId, req, job, edits, asked, muddled>>

Edit(r) ==
    /\ \/ AddItem(r) \/ PersonaliseItem(r) \/ MoveDesign(r) \/ UpdateItem(r) \/ RemoveItem(r)
       \/ Find(r) \/ CreateCart(r) \/ Put(r) \/ SetLine(r) \/ Drop(r)
       \/ ReadLines(r) \/ Reprice(r) \/ Remind(r)
    /\ UNCHANGED <<reminder, reminded, stalls>>

-----------------------------------------------------------------------------
(* The reminder, one attempt; a stalled job is run once more. *)

Fire ==
    /\ "remind" \in Kinds
    /\ job = "delayed"
    /\ IF cart = "active" /\ Known(lines) # {}
       THEN job' = "active" /\ reminder' = "flip"
       ELSE job' = "none" /\ UNCHANGED reminder
    /\ UNCHANGED <<cart, lines, nextId, available, req, edits, asked, muddled, reminded, stalls>>

\* The flip is conditional on the cart still being active.
Abandon(status) == status = "active"
Flip ==
    /\ reminder = "flip"
    /\ IF Abandon(cart)
       THEN cart' = "abandoned" /\ reminder' = "mail" /\ UNCHANGED job
       ELSE UNCHANGED cart /\ reminder' = "none" /\ job' = "none"
    /\ UNCHANGED <<lines, nextId, available, req, edits, asked, muddled, reminded, stalls>>

Mail ==
    /\ reminder = "mail"
    /\ reminded' = reminded + 1
    /\ reminder' = "done"
    /\ UNCHANGED <<cartVars, stalls>>

Finish ==
    /\ reminder = "done"
    /\ job' = "none"
    /\ reminder' = "none"
    /\ UNCHANGED <<cart, lines, nextId, available, req, edits, asked, muddled, reminded, stalls>>

Stall ==
    /\ reminder # "none"
    /\ stalls < MaxStalls
    /\ stalls' = stalls + 1
    /\ job' = "delayed"
    /\ reminder' = "none"
    /\ UNCHANGED <<cart, lines, nextId, available, req, edits, asked, muddled, reminded>>

\* A query or the mailer throws: the only attempt is spent, the job kept.
Break ==
    /\ reminder # "none"
    /\ stalls < MaxStalls
    /\ stalls' = stalls + 1
    /\ job' = "failed"
    /\ reminder' = "none"
    /\ UNCHANGED <<cart, lines, nextId, available, req, edits, asked, muddled, reminded>>

BasketNext ==
    \/ \E r \in Requests : Edit(r)
    \/ Sell /\ UNCHANGED <<reminder, reminded, stalls>>
    \/ Fire \/ Flip \/ Mail \/ Finish \/ Stall \/ Break

-----------------------------------------------------------------------------
Line == [id : Nat, qty : Nat, price : {0, Tier, Full}]
BasketTypeOK ==
    /\ cart \in {"none", "active", "abandoned", "completed"}
    /\ lines \in [Keys -> Line]
    /\ \A k \in Keys : Here(lines, k) => lines[k].qty > 0 /\ lines[k].price > 0
    /\ job \in {"none", "delayed", "active", "failed"}
    /\ reminder \in {"none", "flip", "mail", "done"}

\* A basket at rest, of requests that neither overlapped nor stopped half-way,
\* shows the units the customer asked for, each at the price of the product's
\* total: moving units under a design loses none and duplicates none, and a
\* change of one line reprices its siblings (personaliseItem,
\* repriceProductLines, enrichCart).
BasketTrue ==
    ~ muddled /\ (\A r \in Requests : req[r] = Idle) =>
        /\ enrichCart(lines).itemCount = asked
        /\ \A k \in Known(lines) :
             enrichCart(lines).lineTotalCents[k] = lines[k].qty * PriceAt(k, Units(lines, Siblings(k)))
=============================================================================
