----------------------------- MODULE SmsOutbox -----------------------------
(***************************************************************************)
(* The texts waiting for the phone that sends them (SmsService), what that *)
(* phone posts back (SmsController), and the one text that asks for leave: *)
(* CustomerSmsService.sendAbandonedCart, never to a number that replied    *)
(* STOP.  Calls are cut where they wait for the database.                  *)
(***************************************************************************)
EXTENDS Integers, Sequences, FiniteSetsExt

CONSTANTS
    Numbers, Gateways, Carts,
    MaxTexts, MaxFaults   \* bounds

VARIABLES
    rows,       \* sms_messages, in the order they were made, kept here once deleted
    optedOut,   \* sms_opt_outs
    poll,       \* what each gateway's call is at, its row, and the rows it keeps
    reply,      \* a STOP whose handler has yet to record it, or none
    cart,       \* what the reminder of each cart is at
    faults,
    \* history
    handed,     \* row -> times it was given to a gateway
    lost,       \* rows whose call stopped before its answer
    met,        \* rows that two calls held at once
    answered    \* numbers whose STOP was answered

vars == <<rows, optedOut, poll, reply, cart, faults, handed, lost, met, answered>>
outbox == <<rows, poll, handed, lost, met>>
marketing == <<optedOut, reply, cart, answered>>

None == "none"
Idle == [at |-> "idle", row |-> 0, kept |-> {}]
Row(to, type, text) == [to |-> to, type |-> type, text |-> text, consumed |-> FALSE, there |-> TRUE]
There(i) == rows[i].there
Held(i) == \E g \in Gateways : poll[g].row = i
Go(g, at) == poll' = [poll EXCEPT ![g].at = at]

\* addMessage
Write(to, type, text) ==
    /\ Len(rows) < MaxTexts
    /\ rows' = Append(rows, Row(to, type, text)) /\ handed' = Append(handed, 0)
addMessage(n) ==
    /\ Write(n, "outbound", "news")
    /\ UNCHANGED <<poll, faults, lost, met, marketing>>

-----------------------------------------------------------------------------
(* pollNext: the first text not yet consumed is found, marked, and what    *)
(* was consumed of its number is deleted but the last of each direction.   *)

Waiting(type, n) == {i \in DOMAIN rows : There(i) /\ rows[i].type = type /\ rows[i].to = n /\ ~ rows[i].consumed}
pollNext(g, type, ns) ==
    LET found == UNION {Waiting(type, n) : n \in ns} IN
    /\ poll[g] = Idle /\ found # {}
    /\ poll' = [poll EXCEPT ![g] = [at |-> "mark", row |-> Min(found), kept |-> {}]]
    /\ met' = IF Held(Min(found)) THEN met \cup {Min(found)} ELSE met
    /\ UNCHANGED <<rows, faults, handed, lost, marketing>>
\* A row deleted meanwhile cannot be updated: the call fails.
markConsumed(g) ==
    LET i == poll[g].row IN
    /\ poll[g].at = "mark"
    /\ IF There(i) THEN rows' = [rows EXCEPT ![i].consumed = TRUE] /\ Go(g, "keep")
       ELSE poll' = [poll EXCEPT ![g] = Idle] /\ UNCHANGED rows
    /\ UNCHANGED <<faults, handed, lost, met, marketing>>
Consumed(n) == {i \in DOMAIN rows : There(i) /\ rows[i].to = n /\ rows[i].consumed}
LastOf(n) == {i \in Consumed(n) : \A j \in Consumed(n) : rows[j].type = rows[i].type => j <= i}
findKept(g) ==
    /\ poll[g].at = "keep"
    /\ poll' = [poll EXCEPT ![g].at = "prune", ![g].kept = LastOf(rows[poll[g].row].to)]
    /\ UNCHANGED <<rows, faults, handed, lost, met, marketing>>
pruneConsumedForNumber(g) ==
    LET i == poll[g].row IN
    /\ poll[g].at = "prune"
    /\ rows' = [j \in DOMAIN rows |-> IF j \in Consumed(rows[i].to) \ poll[g].kept THEN [rows[j] EXCEPT !.there = FALSE] ELSE rows[j]]
    /\ poll' = [poll EXCEPT ![g] = Idle]
    /\ handed' = [handed EXCEPT ![i] = @ + 1]
    /\ UNCHANGED <<faults, lost, met, marketing>>
\* The phone says a text it was given has left.
ack(i) ==
    /\ handed[i] > 0 /\ There(i) /\ ~ rows[i].consumed
    /\ rows' = [rows EXCEPT ![i].consumed = TRUE]
    /\ UNCHANGED <<poll, faults, handed, lost, met, marketing>>
\* getLastConsumed: the replies of a number are read, all at once; what is
\* deleted after is deleted as above.
getLastConsumed(n) ==
    LET new == Waiting("inbound", n)
        last == {i \in DOMAIN rows : There(i) /\ rows[i].to = n /\ (rows[i].consumed \/ i \in new)}
        kept == {i \in last : \A j \in last : rows[j].type = rows[i].type => j <= i} IN
    /\ new # {}
    /\ rows' = [j \in DOMAIN rows |-> IF j \in kept THEN [rows[j] EXCEPT !.consumed = TRUE]
                                      ELSE IF j \in last THEN [rows[j] EXCEPT !.consumed = TRUE, !.there = FALSE] ELSE rows[j]]
    /\ handed' = [j \in DOMAIN rows |-> IF j \in new THEN handed[j] + 1 ELSE handed[j]]
    /\ met' = met \cup {i \in new : Held(i)}
    /\ UNCHANGED <<poll, faults, lost, marketing>>

-----------------------------------------------------------------------------
(* The reply is kept, then obeyed; the reminder looks before it is queued. *)

receiveFromGateway(n, stop) ==
    /\ reply = None
    /\ Write(n, "inbound", IF stop THEN "stop" ELSE "words")
    /\ reply' = IF stop THEN n ELSE None
    /\ UNCHANGED <<poll, optedOut, cart, faults, lost, met, answered>>
recordOptOut ==
    /\ reply # None
    /\ optedOut' = optedOut \cup {reply} /\ answered' = answered \cup {reply} /\ reply' = None
    /\ UNCHANGED <<outbox, cart, faults>>

sendAbandonedCart(c, n) ==
    /\ cart[c].at = "idle"
    /\ cart' = [cart EXCEPT ![c] = [at |-> "ask", to |-> n, asked |-> n \in answered]]
    /\ UNCHANGED <<outbox, optedOut, reply, faults, answered>>
\* The switch over the customers' texts, at either value; then the list.
isOptedOut(c) ==
    /\ cart[c].at = "ask"
    /\ \E enabled \in BOOLEAN :
         cart' = [cart EXCEPT ![c].at = IF ~ enabled \/ cart[c].to \in optedOut THEN "skipped" ELSE "queue"]
    /\ UNCHANGED <<outbox, optedOut, reply, faults, answered>>
queueReminder(c) ==
    /\ cart[c].at = "queue"
    /\ Write(cart[c].to, "outbound", IF cart[c].asked THEN "unwanted" ELSE "reminder")
    /\ cart' = [cart EXCEPT ![c].at = "sent"]
    /\ UNCHANGED <<poll, optedOut, reply, faults, lost, met, answered>>

Crash(g) ==
    /\ faults < MaxFaults /\ faults' = faults + 1 /\ poll[g] # Idle
    /\ lost' = lost \cup {poll[g].row}
    /\ poll' = [poll EXCEPT ![g] = Idle]
    /\ UNCHANGED <<rows, handed, met, marketing>>

Init ==
    /\ rows = <<>> /\ optedOut = {} /\ poll = [g \in Gateways |-> Idle] /\ reply = None
    /\ cart = [c \in Carts |-> [at |-> "idle", to |-> None, asked |-> FALSE]]
    /\ faults = 0 /\ handed = <<>> /\ lost = {} /\ met = {} /\ answered = {}

Next ==
    \/ \E n \in Numbers :
         \/ addMessage(n) \/ getLastConsumed(n)
         \/ \E stop \in BOOLEAN : receiveFromGateway(n, stop)
         \/ \E c \in Carts : sendAbandonedCart(c, n)
    \/ \E g \in Gateways :
         \/ \E type \in {"outbound", "inbound"}, ns \in {Numbers} \cup {{n} : n \in Numbers} : pollNext(g, type, ns)
         \/ markConsumed(g) \/ findKept(g) \/ pruneConsumedForNumber(g) \/ Crash(g)
    \/ \E i \in DOMAIN rows : ack(i)
    \/ recordOptOut \/ \E c \in Carts : isOptedOut(c) \/ queueReminder(c)

Spec == Init /\ [][Next]_vars

-----------------------------------------------------------------------------
TypeOK ==
    /\ Len(rows) <= MaxTexts /\ DOMAIN handed = DOMAIN rows
    /\ \A g \in Gateways : poll[g].row \in 0 .. Len(rows)
    /\ optedOut \cup answered \subseteq Numbers

\* getConsumedStatuses takes a text that is gone for one that was delivered: it
\* is, and once, unless two calls found it together or a call stopped midway;
\* and a number whose STOP was answered is not reminded again.
TextsTrue ==
    \A i \in DOMAIN rows :
        /\ ~ There(i) \/ rows[i].consumed => handed[i] > 0 \/ Held(i) \/ i \in lost
        /\ handed[i] <= 1 \/ i \in met
        /\ rows[i].text # "unwanted"
=============================================================================
