----------------------------- MODULE Customers -----------------------------
(***************************************************************************)
(* What the shop keeps of its customers: the row an order finds or makes   *)
(* and its payment credits (CustomerService, readyForPayment, transition), *)
(* a customer's addresses with one default, and a visitor's wishlist that  *)
(* an account takes over (WishlistService).                                *)
(***************************************************************************)
EXTENDS Integers, Sequences, FiniteSets

CONSTANTS
    Orders, Emails, Phones,  \* each order has one of these contacts
    Addresses, Saves,        \* ids of addresses, transactions that may run at once
    Products,
    MaxFaults, MaxEdits      \* bounds

VARIABLES
    order,     \* [contact, at]: draft, ready once readyForPayment wrote it, and so on
    rows,      \* shop_customers: [contact, credited]
    addr,      \* one customer's addresses: "none", "plain" or "default"
    tx,        \* what each transaction on them writes, and the rows its first statement saw
    guest, account,   \* the products a visitor wishes, and the account they sign in to
    merge,     \* mergeGuestToUser: where it is, what it read and what it will make
    edits, faults,
    \* history
    twice,     \* contacts two orders looked for at once, or whose order stopped
    overlap,   \* two addresses were saved at once
    wished,    \* what visitor and account asked for and did not take back
    late       \* products touched while they were being merged

vars == <<order, rows, addr, tx, guest, account, merge, edits, faults, twice, overlap, wished, late>>
customers == <<order, rows, twice>>
book == <<addr, tx, overlap>>
wishes == <<guest, account, merge, wished, late>>

Contacts == Emails \cup Phones
RowsOf(c) == {i \in DOMAIN rows : rows[i].contact = c}
Looking(c) == {o \in Orders : order[o].contact = c /\ order[o].at \in {"ready", "making"}}
GoOrder(o, at) == order' = [order EXCEPT ![o].at = at]

-----------------------------------------------------------------------------
(* readyForPayment writes the order, then upsertFromOrder finds its        *)
(* customer or makes one: an email is unique, a phone alone is not.        *)

readyForPayment(o, c) ==
    /\ order[o].at = "draft"
    /\ order' = [order EXCEPT ![o] = [contact |-> c, at |-> "ready"]]
    /\ twice' = IF Looking(c) # {} THEN twice \cup {c} ELSE twice
    /\ UNCHANGED <<rows, edits, faults, book, wishes>>
\* A mutant: a customer known by phone is never found.
FoundByEmail(c) == IF c \in Emails THEN RowsOf(c) ELSE {}
Found(c) == RowsOf(c)
findCustomer(o) ==
    /\ order[o].at = "ready"
    /\ GoOrder(o, IF Found(order[o].contact) = {} THEN "making" ELSE "waiting")
    /\ UNCHANGED <<rows, twice, edits, faults, book, wishes>>
createCustomer(o) ==
    LET c == order[o].contact IN
    /\ order[o].at = "making"
    /\ rows' = IF c \in Emails /\ RowsOf(c) # {} THEN rows ELSE Append(rows, [contact |-> c, credited |-> {}])
    /\ GoOrder(o, "waiting")
    /\ UNCHANGED <<twice, edits, faults, book, wishes>>
\* The call stops before its customer is there; the order is ready all the same.
Stop(o) ==
    /\ order[o].at \in {"ready", "making"} /\ faults < MaxFaults /\ faults' = faults + 1
    /\ GoOrder(o, "waiting") /\ twice' = twice \cup {order[o].contact}
    /\ UNCHANGED <<rows, edits, book, wishes>>
\* The payment may be confirmed while the call is still at its customer.
recordOrderCompletion(o) ==
    LET c == order[o].contact IN
    /\ order[o].at \in {"ready", "making", "waiting"}
    /\ rows' = [i \in DOMAIN rows |-> IF rows[i].contact = c THEN [rows[i] EXCEPT !.credited = @ \cup {o}] ELSE rows[i]]
    /\ twice' = IF order[o].at # "waiting" THEN twice \cup {c} ELSE twice
    /\ GoOrder(o, "paid")
    /\ UNCHANGED <<edits, faults, book, wishes>>

-----------------------------------------------------------------------------
(* addAddress, updateAddress: one transaction that first unsets the default*)
(* of the rows it sees, and holds them; one made meanwhile it cannot see.  *)

NoTx == [at |-> "idle", a |-> "", default |-> FALSE, seen |-> {}]
There == {a \in Addresses : addr[a] # "none"}
Begin(s, a, default) ==
    /\ tx[s].at = "idle" /\ edits < MaxEdits /\ edits' = edits + 1
    /\ tx' = [tx EXCEPT ![s] = [at |-> IF a \in There THEN "update" ELSE "add", a |-> a, default |-> default, seen |-> IF default THEN There ELSE {}]]
    /\ overlap' = (overlap \/ \E t \in Saves \ {s} : tx[t].at # "idle")
    /\ UNCHANGED <<addr, faults, customers, wishes>>
Unset(s) == tx[s].seen
Commit(s) ==
    LET a == tx[s].a IN
    /\ tx[s].at # "idle"
    /\ addr' = IF (tx[s].at = "update") # (a \in There) THEN addr
               ELSE [b \in Addresses |-> IF b = a THEN IF tx[s].default THEN "default" ELSE "plain"
                                         ELSE IF b \in Unset(s) /\ b \in There THEN "plain" ELSE addr[b]]
    /\ tx' = [tx EXCEPT ![s] = NoTx]
    /\ UNCHANGED <<overlap, edits, faults, customers, wishes>>
deleteAddress(a) ==
    /\ a \in There /\ addr' = [addr EXCEPT ![a] = "none"]
    /\ UNCHANGED <<tx, overlap, edits, faults, customers, wishes>>

-----------------------------------------------------------------------------
(* The wishlist: add makes no second row, merge moves the visitor's to the *)
(* account in one transaction, that sees what others commit meanwhile.     *)

Merging == merge.at # "idle"
Late(p) == late' = IF Merging THEN late \cup {p} ELSE late
add(who, p) ==
    /\ edits < MaxEdits /\ edits' = edits + 1
    /\ IF who = "guest" THEN guest' = guest \cup {p} /\ UNCHANGED account ELSE account' = account \cup {p} /\ UNCHANGED guest
    /\ wished' = [wished EXCEPT ![who] = @ \cup {p}] /\ Late(p)
    /\ UNCHANGED <<merge, faults, customers, book>>
remove(who, p) ==
    /\ edits < MaxEdits /\ edits' = edits + 1
    /\ IF who = "guest" THEN guest' = guest \ {p} /\ UNCHANGED account ELSE account' = account \ {p} /\ UNCHANGED guest
    /\ wished' = [wished EXCEPT ![who] = @ \ {p}] /\ Late(p)
    /\ UNCHANGED <<merge, faults, customers, book>>
mergeGuestToUser ==
    /\ ~ Merging /\ guest # {}
    /\ merge' = [at |-> "found", items |-> guest, make |-> {}]
    /\ UNCHANGED <<guest, account, wished, late, edits, faults, customers, book>>
findExisting ==
    /\ merge.at = "found"
    /\ merge' = [merge EXCEPT !.at = "make", !.make = merge.items \ account]
    /\ UNCHANGED <<guest, account, wished, late, edits, faults, customers, book>>
\* What the account took meanwhile cannot be made again: all is rolled back.
commitMerge ==
    /\ merge.at = "make"
    /\ merge' = [merge EXCEPT !.at = "idle"]
    /\ IF merge.make \cap account # {} THEN UNCHANGED <<guest, account, wished>>
       ELSE /\ account' = account \cup merge.make /\ guest' = {}
            /\ wished' = [guest |-> {}, account |-> wished.account \cup wished.guest]
    /\ UNCHANGED <<late, edits, faults, customers, book>>

Init ==
    /\ order = [o \in Orders |-> [contact |-> "", at |-> "draft"]] /\ rows = <<>>
    /\ addr = [a \in Addresses |-> "none"] /\ tx = [s \in Saves |-> NoTx]
    /\ guest = {} /\ account = {} /\ merge = [at |-> "idle", items |-> {}, make |-> {}]
    /\ edits = 0 /\ faults = 0 /\ twice = {} /\ overlap = FALSE /\ late = {}
    /\ wished = [guest |-> {}, account |-> {}]

Next ==
    \/ \E o \in Orders :
         \/ \E c \in Contacts : readyForPayment(o, c)
         \/ findCustomer(o) \/ createCustomer(o) \/ Stop(o) \/ recordOrderCompletion(o)
    \/ \E s \in Saves : Commit(s) \/ \E a \in Addresses, default \in BOOLEAN : Begin(s, a, default)
    \/ \E a \in Addresses : deleteAddress(a)
    \/ \E who \in {"guest", "account"}, p \in Products : add(who, p) \/ remove(who, p)
    \/ mergeGuestToUser \/ findExisting \/ commitMerge

Spec == Init /\ [][Next]_vars

-----------------------------------------------------------------------------
TypeOK ==
    /\ \A i \in DOMAIN rows : rows[i].contact \in Contacts /\ rows[i].credited \subseteq Orders
    /\ guest \cup account \cup late \subseteq Products /\ edits \in 0 .. MaxEdits

\* Whoever orders is one customer, credited with each order paid, unless two
\* orders looked for them at once or one stopped before; one address at most is
\* the default, unless two were saved at once; and what a visitor wished is
\* still wished, by them or the account that took it over, and nothing else is,
\* unless it was touched during the merge.
CustomersTrue ==
    /\ \A c \in Contacts \ twice :
         LET paid == {o \in Orders : order[o].contact = c /\ order[o].at = "paid"} IN
         /\ Cardinality(RowsOf(c)) <= 1
         /\ paid # {} => \E i \in RowsOf(c) : rows[i].credited = paid
    /\ \A c \in Emails : Cardinality(RowsOf(c)) <= 1
    /\ Cardinality({a \in Addresses : addr[a] = "default"}) <= 1 \/ overlap
    /\ wished.guest \ late = guest \ late /\ wished.account \ late = account \ late
=============================================================================
