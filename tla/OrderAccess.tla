---------------------------- MODULE OrderAccess ----------------------------
(***************************************************************************)
(* Who may follow an order and write in its thread (OrderAccessService,    *)
(* OrdersPublicController, SupportOrderController): a contact that is known*)
(* earns the status, the link sent to it earns the whole order, and what   *)
(* was earned is kept as a grant that outlives the credential.  Asking for *)
(* the link is cut at each of its calls.                                   *)
(***************************************************************************)
EXTENDS Integers, FiniteSets

CONSTANTS
    Orders, Emails, Phones,
    Visitors,           \* [knows, reads]: the contacts each can name, and read
    MaxPerHour,         \* ACCESS_LINK_MAX_PER_HOUR
    MaxEdits, MaxFaults \* bounds

VARIABLES
    order,    \* the contact on each order
    links,    \* the orders whose link each visitor holds
    grants,   \* the grants in each visitor's cookies, [order, level]
    sockets,  \* the orders each visitor has an open socket on
    ask,      \* what each visitor's request for a link is at, and the order as read
    quota,    \* order:accesslink: what was counted, and whether it ends
    edits, faults,
    \* history
    had,      \* every contact an order has had
    sent,     \* links sent in this hour
    wrote     \* <<visitor, order>> of each message

vars == <<order, links, grants, sockets, ask, quota, edits, faults, had, sent, wrote>>

None == "none"
NoGrant == [order |-> None, level |-> None]
Idle == [at |-> "idle", order |-> None, to |-> None]
NoContact == [email |-> None, phone |-> None]
Contacts(o) == {order[o].email, order[o].phone} \ {None}
Named(v) == v.knows \cup v.reads
Go(v, at) == ask' = [ask EXCEPT ![v] = IF at = "idle" THEN Idle ELSE [@ EXCEPT !.at = at]]

-----------------------------------------------------------------------------
(* phone.ts: a number as it is typed, [lead, cc, zero, n], and as it is    *)
(* kept.                                                                   *)
KeepsLeadingZero == {"39"}
Unplaced == [cc |-> None, zero |-> FALSE, n |-> 0]
National(zero, p) == zero /\ p \in KeepsLeadingZero
toE164(t, p) ==
    IF t.lead # "" THEN [cc |-> t.cc, zero |-> t.zero, n |-> t.n]
    ELSE IF p = None THEN Unplaced ELSE [cc |-> p, zero |-> National(t.zero, p), n |-> t.n]
samePhone(a, b, p) == toE164(a, p) # Unplaced /\ toE164(a, p) = toE164(b, p)

-----------------------------------------------------------------------------
(* Credentials                                                             *)

phoneMatches(o, c) == c \in Phones /\ c = order[o].phone
emailMatches(o, c) == c \in Emails /\ c = order[o].email
\* A mutant: a grant is trusted whatever order it is for.
GrantTaken(g, o) == TRUE
GrantFor(g, o) == g.order = o
\* levelFor: the grant sent along, or none; the link or the contact.
levelFor(o, g, token, c) ==
    IF g # NoGrant /\ GrantFor(g, o) THEN g.level
    ELSE IF token THEN "full" ELSE IF emailMatches(o, c) \/ phoneMatches(o, c) THEN "status" ELSE None
\* session -> issueGrant
session(v, o, g, token, c) ==
    LET level == levelFor(o, g, token, c) IN
    /\ token => o \in links[v]
    /\ token \/ c # None
    /\ level # None
    /\ grants' = [grants EXCEPT ![v] = @ \cup {[order |-> o, level |-> level]}]
    /\ UNCHANGED <<order, links, sockets, ask, quota, edits, faults, had, sent, wrote>>
\* trackOrder: the page of an order, and the level it says its reader has: that
\* of the grant sent along, if any, though another credential opened the page.
isAuthorized(v, o, g, token, c) == GrantFor(g, o) \/ (token /\ o \in links[v]) \/ emailMatches(o, c)
trackOrder(v, o, g, token, c) ==
    IF ~ isAuthorized(v, o, g, token, c) THEN None
    ELSE IF g # NoGrant THEN g.level ELSE IF token THEN "full" ELSE "status"
GrantEnds(v, g) ==
    /\ grants' = [grants EXCEPT ![v] = @ \ {g}]
    /\ UNCHANGED <<order, links, sockets, ask, quota, edits, faults, had, sent, wrote>>

(* sendAccessLink: proof by contact or by a grant of this order; one more  *)
(* on its count; the link to what the order held when it was read.         *)
accessLink(v, o, g, c) ==
    LET byPhone == phoneMatches(o, c) IN
    /\ ask[v] = Idle
    /\ byPhone \/ emailMatches(o, c) \/ g.order = o
    /\ ask' = [ask EXCEPT ![v] = [at |-> "count", order |-> o, to |-> IF byPhone \/ order[o].email = None THEN order[o].phone ELSE order[o].email]]
    /\ UNCHANGED <<order, links, grants, sockets, quota, edits, faults, had, sent, wrote>>
Within(n) == n <= MaxPerHour
countLink(v) ==
    LET o == ask[v].order
        n == quota[o].n + 1 IN
    /\ ask[v].at = "count"
    /\ \/ /\ quota[o].n <= MaxPerHour   \* counting further changes nothing
          /\ quota' = [quota EXCEPT ![o].n = n]
          /\ Go(v, IF n = 1 THEN "expire" ELSE IF Within(n) THEN "send" ELSE "idle")
          /\ UNCHANGED faults
       \/ quota[o].n > MaxPerHour /\ Go(v, "idle") /\ UNCHANGED <<quota, faults>>
       \/ faults < MaxFaults /\ faults' = faults + 1 /\ Go(v, "idle") /\ UNCHANGED quota
    /\ UNCHANGED <<order, links, grants, sockets, edits, had, sent, wrote>>
\* Redis failing here refuses the link, and leaves a count that never ends.
expireLink(v) ==
    LET o == ask[v].order IN
    /\ ask[v].at = "expire"
    /\ \/ quota' = [quota EXCEPT ![o].ends = TRUE] /\ Go(v, "send") /\ UNCHANGED faults
       \/ faults < MaxFaults /\ faults' = faults + 1 /\ Go(v, "idle") /\ UNCHANGED quota
    /\ UNCHANGED <<order, links, grants, sockets, edits, had, sent, wrote>>
Readers(c) == {v \in Visitors : c \in v.reads}
sendLink(v) ==
    LET o == ask[v].order IN
    /\ ask[v].at = "send"
    /\ links' = [w \in Visitors |-> IF w \in Readers(ask[v].to) THEN links[w] \cup {o} ELSE links[w]]
    /\ sent' = [sent EXCEPT ![o] = @ + 1]
    /\ Go(v, "idle")
    /\ UNCHANGED <<order, grants, sockets, quota, edits, faults, had, wrote>>
HourEnds(o) ==
    /\ quota[o].ends /\ \A v \in Visitors : ask[v].order # o \/ ask[v].at \notin {"expire", "send"}
    /\ quota' = [quota EXCEPT ![o] = [n |-> 0, ends |-> FALSE]] /\ sent' = [sent EXCEPT ![o] = 0]
    /\ UNCHANGED <<order, links, grants, sockets, ask, edits, faults, had, wrote>>

-----------------------------------------------------------------------------
(* The thread: a grant of either level opens it, by request or by socket;  *)
(* a socket that is open stays so.                                         *)

Opens(v, o) == \E g \in grants[v] : g.order = o
wsTicket(v, o) ==
    /\ Opens(v, o)
    /\ sockets' = [sockets EXCEPT ![v] = @ \cup {o}]
    /\ UNCHANGED <<order, links, grants, ask, quota, edits, faults, had, sent, wrote>>
disconnect(v, o) ==
    /\ o \in sockets[v]
    /\ sockets' = [sockets EXCEPT ![v] = @ \ {o}]
    /\ UNCHANGED <<order, links, grants, ask, quota, edits, faults, had, sent, wrote>>
sendMessage(v, o) ==
    /\ Opens(v, o) \/ o \in sockets[v]
    /\ wrote' = wrote \cup {<<v, o>>}
    /\ UNCHANGED <<order, links, grants, sockets, ask, quota, edits, faults, had, sent>>

\* initiate, resumed with another contact before it is paid: the link stays the same.
changeContact(o, email, phone) ==
    /\ edits < MaxEdits /\ edits' = edits + 1
    /\ {email, phone} # {None} /\ order[o] # [email |-> email, phone |-> phone]
    /\ order' = [order EXCEPT ![o] = [email |-> email, phone |-> phone]]
    /\ had' = [had EXCEPT ![o] = @ \cup ({email, phone} \ {None})]
    /\ UNCHANGED <<links, grants, sockets, ask, quota, faults, sent, wrote>>

Init ==
    /\ order \in [Orders -> [email : Emails \cup {None}, phone : Phones \cup {None}] \ {NoContact}]
    /\ links = [v \in Visitors |-> {}] /\ grants = [v \in Visitors |-> {}] /\ sockets = [v \in Visitors |-> {}]
    /\ ask = [v \in Visitors |-> Idle] /\ quota = [o \in Orders |-> [n |-> 0, ends |-> FALSE]]
    /\ edits = 0 /\ faults = 0 /\ wrote = {} /\ sent = [o \in Orders |-> 0]
    /\ had = [o \in Orders |-> Contacts(o)]

Next ==
    \/ \E v \in Visitors, o \in Orders :
         \/ \E g \in grants[v] \cup {NoGrant}, c \in Named(v) \cup {None} :
              (\E token \in BOOLEAN : session(v, o, g, token, c)) \/ accessLink(v, o, g, c)
         \/ wsTicket(v, o) \/ disconnect(v, o) \/ sendMessage(v, o)
    \/ \E v \in Visitors : countLink(v) \/ expireLink(v) \/ sendLink(v) \/ \E g \in grants[v] : GrantEnds(v, g)
    \/ \E o \in Orders :
         \/ HourEnds(o)
         \/ \E email \in Emails \cup {None}, phone \in Phones \cup {None} : changeContact(o, email, phone)

Spec == Init /\ [][Next]_vars

-----------------------------------------------------------------------------
Grants == [order : Orders, level : {"status", "full"}]
Asking == [at : {"count", "expire", "send"}, order : Orders, to : Emails \cup Phones]
Counts == [n : 0 .. MaxPerHour + 1, ends : BOOLEAN]
TypeOK ==
    /\ order \in [Orders -> [email : Emails \cup {None}, phone : Phones \cup {None}]]
    /\ links \in [Visitors -> SUBSET Orders] /\ sockets \in [Visitors -> SUBSET Orders]
    /\ grants \in [Visitors -> SUBSET Grants] /\ wrote \subseteq Visitors \X Orders
    /\ ask \in [Visitors -> {Idle} \cup Asking]
    /\ quota \in [Orders -> Counts] /\ sent \in [Orders -> Nat]
    /\ had \in [Orders -> SUBSET (Emails \cup Phones)]
    /\ edits \in 0 .. MaxEdits /\ faults \in 0 .. MaxFaults

\* Whoever holds the whole order, by a grant or by its link, reads a contact the
\* order has had; whoever wrote in its thread or is shown its page could name
\* one, whatever credentials are put together.  An order's contact receives no
\* more links in an hour than allowed, and the count ends unless Redis failed as
\* it was started.
AccessProven ==
    /\ \A v \in Visitors, o \in Orders :
         /\ o \in links[v] \/ [order |-> o, level |-> "full"] \in grants[v] => had[o] \cap v.reads # {}
         /\ (\E g \in grants[v] \cup {NoGrant}, token \in BOOLEAN, c \in Named(v) \cup {None} :
               trackOrder(v, o, g, token, c) # None) => had[o] \cap Named(v) # {}
         /\ Opens(v, o) \/ o \in sockets[v] \/ <<v, o>> \in wrote => had[o] \cap Named(v) # {}
    /\ \A o \in Orders :
         /\ sent[o] <= MaxPerHour
         /\ quota[o].n > 0 /\ ~ quota[o].ends => faults > 0 \/ \E v \in Visitors : ask[v].order = o /\ ask[v].at = "expire"

\* A number typed at checkout and again on the tracking page is the same phone,
\* whichever way each was typed.
PhonesMatch ==
    \A p \in {"33", "39"}, zero \in BOOLEAN, n \in {1, 2} :
        LET abroad(lead) == [lead |-> lead, cc |-> p, zero |-> zero /\ p \in KeepsLeadingZero, n |-> n]
            home == [lead |-> "", cc |-> None, zero |-> zero, n |-> n] IN
        \A a, b \in {abroad("+"), abroad("00"), home} :
            samePhone(a, b, p) /\ ~ samePhone(a, [b EXCEPT !.n = 3], p)
=============================================================================
