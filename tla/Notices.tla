------------------------------ MODULE Notices ------------------------------
(***************************************************************************)
(* Who hears of what happens to an order: the customer by mail             *)
(* (OrderEmailListener, SendInEmailListener) and by text                   *)
(* (CustomerSmsListener, CustomerSmsService), the shop's desk by both      *)
(* (AdminOrderAlertListener, LowStockAlertListener,                        *)
(* CommerceNotificationService).                                           *)
(*                                                                         *)
(* An event is only in memory: each listener is called beside the others,  *)
(* cut here where it waits, and is gone if the process stops.  One order,  *)
(* one address and one number on either side.                              *)
(***************************************************************************)
EXTENDS Integers, Sequences

CONSTANTS
    Happenings,   \* what may happen, of those below
    Customers,    \* who the customer may be: an address or not; a number to dial, as typed, or none
    Rows,         \* the saved events the shop may start with
    Replicas,     \* processes that may boot
    MaxEvents, MaxFaults, MaxSaves   \* bounds

VARIABLES
    to,        \* the customer
    smtp,      \* whether a mail server is configured
    custom,    \* the switch over the customers' texts
    channels,  \* the desk's channels
    row,       \* the events the admin saved, or NoRow
    marker,    \* the backfill's marker
    boots,     \* replica -> how far its backfill is, and the row it read
    job,       \* the send-in job's status
    news,      \* what happened, in order
    hands,     \* listeners under way
    told,      \* event -> what was sent of it, and written in the log
    recent,    \* the log has a text of a failed payment in the last hour
    faults, saves,
    \* history
    lost,      \* <<event, listener>> cut by a crash, or whose send failed
    hourly,    \* texts of failed payments in this hour
    crowd,     \* in this hour two such listeners were under way at once, or one stopped before its log
    moved,     \* events of the job that had moved on when they were told
    unticked,  \* the admin unticked the event after it was backfilled
    together   \* two replicas ran the backfill at once

fixed == <<to, smtp>>
config == <<custom, channels, row, marker, boots, unticked, together>>
texting == <<recent, hourly, crowd>>
counts == <<faults, saves>>
vars == <<fixed, config, texting, counts, job, news, hands, told, lost, moved>>

-----------------------------------------------------------------------------
(* What is worth telling, and to whom.                                     *)

Steps == {"received", "production", "returned", "problem"}
Statuses == {"processing", "shipped", "delivered", "cancelled"}
Mailed == {"paid", "unpaid"} \cup Statuses \cup Steps
Texted == {"paid", "unpaid", "shipped", "cancelled", "received", "returned", "problem"}
Alerted == {"paid", "unpaid", "cancelled", "low"}

Hears(who, e) ==
    CASE who = "mail" -> e.what \in Mailed /\ ~ e.silent
      [] who = "text" -> e.what \in Texted /\ ~ e.silent
      [] who = "desk" -> e.what \in Alerted /\ (e.what = "cancelled" => ~ e.silent /\ ~ e.admin)

NoRow == {"none"}
Events == Alerted \cup {"support"}
Wanted == IF row = NoRow THEN Events \ {"low"} ELSE row

Untold == [mails |-> 0, says |-> "none", reviews |-> 0, texts |-> 0, alerts |-> 0, pages |-> 0, log |-> {}]
Ids == 1 .. Len(news)
What(h) == news[h.i].what

-----------------------------------------------------------------------------
(* Something happens.  A step of the job that repeats its status is a note. *)

Happen(w) ==
    /\ Len(news) < MaxEvents
    /\ \E admin, silent \in BOOLEAN :
         /\ w \notin Statuses => ~ admin /\ ~ silent
         /\ LET e == [what |-> w, admin |-> admin, silent |-> silent]  i == Len(news) + 1 IN
            /\ news' = Append(news, e) /\ told' = Append(told, Untold)
            /\ job' = IF w \in Steps THEN w ELSE job
            /\ w \in Steps => job # w
            /\ hands' = hands \cup {h \in [i : {i}, who : {"mail", "text", "desk"}, st : {"start"}, by : {{}}] : Hears(h.who, e)}
            /\ moved' = IF w \in Steps THEN moved \cup {h.i : h \in {g \in hands : What(g) \in Steps}} ELSE moved
            /\ crowd' = (crowd \/ (w = "unpaid" /\ \E h \in hands : h.who = "text" /\ What(h) = "unpaid"))
    /\ UNCHANGED <<fixed, config, recent, hourly, counts, lost>>

Step(h, st) == hands' = (hands \ {h}) \cup {[h EXCEPT !.st = st]}
End(h) == hands' = hands \ {h}
Tell(h, field) == [told EXCEPT ![h.i][field] = @ + 1]
Log(h, channel, status) == [told EXCEPT ![h.i].log = @ \cup {<<channel, status>>}]
Fault == faults < MaxFaults /\ faults' = faults + 1

-----------------------------------------------------------------------------
(* The mail.  What a step's mail says is the job's status when it is read;  *)
(* a delivered order is also asked for a review.  A failure is only logged. *)

SayStep(h) == IF What(h) \in Steps THEN job ELSE What(h)
Mail(h) ==
    /\ h.who = "mail" /\ h.st = "start"
    /\ IF ~ to.email THEN End(h) /\ UNCHANGED <<told, lost, faults>>
       ELSE /\ IF What(h) = "delivered" THEN Step(h, "review") ELSE End(h)
            /\ \/ /\ told' = IF smtp THEN [told EXCEPT ![h.i].mails = @ + 1, ![h.i].says = SayStep(h)] ELSE told
                  /\ UNCHANGED <<lost, faults>>
               \/ smtp /\ Fault /\ lost' = lost \cup {<<h.i, "mail">>} /\ UNCHANGED told
    /\ UNCHANGED <<fixed, config, texting, saves, job, news, moved>>
sendReviewRequest(h) ==
    /\ h.who = "mail" /\ h.st = "review"
    /\ told' = IF smtp THEN Tell(h, "reviews") ELSE told
    /\ End(h)
    /\ UNCHANGED <<fixed, config, texting, counts, job, news, lost, moved>>

-----------------------------------------------------------------------------
(* The text: one per hour of a payment that failed; never to a number that *)
(* cannot be dialled, or while the switch is off.                           *)

\* A mutant: the hour is not looked at.
NeverRecent(h) == FALSE
Recent(h) == What(h) = "unpaid" /\ recent
onTextEvent(h) ==
    /\ h.who = "text" /\ h.st = "start"
    /\ IF to.phone = "none" \/ Recent(h) THEN End(h) /\ UNCHANGED told
       ELSE IF to.phone = "typed" THEN End(h) /\ told' = Log(h, "text", "skipped")
       ELSE Step(h, "gate") /\ UNCHANGED told
    /\ UNCHANGED <<fixed, config, texting, counts, job, news, lost, moved>>
isEnabled(h) ==
    /\ h.who = "text" /\ h.st = "gate"
    /\ IF custom THEN Step(h, "queue") /\ UNCHANGED told ELSE End(h) /\ told' = Log(h, "text", "skipped")
    /\ UNCHANGED <<fixed, config, texting, counts, job, news, lost, moved>>
addText(h) ==
    /\ h.who = "text" /\ h.st = "queue"
    /\ \/ /\ told' = Tell(h, "texts") /\ Step(h, "log")
          /\ hourly' = IF What(h) = "unpaid" THEN hourly + 1 ELSE hourly
          /\ UNCHANGED faults
       \/ Fault /\ told' = Log(h, "text", "failed") /\ End(h) /\ UNCHANGED hourly
    /\ UNCHANGED <<fixed, config, recent, crowd, saves, job, news, lost, moved>>
logText(h) ==
    /\ h.who = "text" /\ h.st = "log"
    /\ told' = Log(h, "text", "sent") /\ End(h)
    /\ recent' = (recent \/ What(h) = "unpaid")
    /\ UNCHANGED <<fixed, config, hourly, crowd, counts, job, news, lost, moved>>
\* An hour has gone by since the last of them.
HourEnds ==
    /\ recent
    /\ recent' = FALSE /\ hourly' = 0
    /\ crowd' = (\E g, h \in hands : g # h /\ {g.who, h.who} = {"text"} /\ {What(g), What(h)} = {"unpaid"})
    /\ UNCHANGED <<fixed, config, counts, job, news, hands, told, lost, moved>>

-----------------------------------------------------------------------------
(* The desk's alerts: the gate, then the mail, then the text, each with its *)
(* row in the log.  Only the alert of a low stock does not look whether     *)
(* there is a mail server.                                                  *)

resolveRecipients(h) ==
    /\ h.who = "desk" /\ h.st = "start"
    /\ IF What(h) \in Wanted /\ channels # {}
       THEN hands' = (hands \ {h}) \cup {[h EXCEPT !.st = IF "email" \in channels THEN "mail" ELSE "page", !.by = channels]}
       ELSE End(h)
    /\ UNCHANGED <<fixed, config, texting, counts, job, news, told, lost, moved>>
notifyByMail(h) ==
    /\ h.who = "desk" /\ h.st = "mail"
    /\ IF "sms" \in h.by THEN Step(h, "page") ELSE End(h)
    /\ IF smtp THEN \/ told' = [Log(h, "email", "sent") EXCEPT ![h.i].alerts = @ + 1] /\ UNCHANGED faults
                    \/ Fault /\ told' = Log(h, "email", "failed")
       ELSE told' = Log(h, "email", IF What(h) = "low" THEN "sent" ELSE "skipped") /\ UNCHANGED faults
    /\ UNCHANGED <<fixed, config, texting, saves, job, news, lost, moved>>
\* The recipients are those the gate found, whatever was saved since.
notifyByText(h) ==
    /\ h.who = "desk" /\ h.st = "page"
    /\ End(h)
    /\ \/ told' = [Log(h, "sms", "sent") EXCEPT ![h.i].pages = @ + 1] /\ UNCHANGED faults
       \/ Fault /\ told' = Log(h, "sms", "failed")
    /\ UNCHANGED <<fixed, config, texting, saves, job, news, lost, moved>>

-----------------------------------------------------------------------------
(* Settings, and the backfill of an event that came after the page.         *)

\* The admin saves the page; what of it was saved, each key by itself, is one
\* call of one admin here.
updateSettings ==
    /\ saves < MaxSaves /\ saves' = saves + 1
    /\ \/ \E es \in {{}, Alerted, Events} :
            /\ row' = es
            /\ unticked' = (marker /\ "support" \notin es)
            /\ UNCHANGED <<custom, channels>>
       \/ custom' = ~ custom /\ UNCHANGED <<channels, row, unticked>>
       \/ channels' \in (SUBSET {"email", "sms"}) \ {channels} /\ UNCHANGED <<custom, row, unticked>>
    /\ UNCHANGED <<fixed, marker, boots, together, texting, faults, job, news, hands, told, lost, moved>>

Boot(r, st, seen) == boots' = [boots EXCEPT ![r] = [st |-> st, row |-> seen]]
settingsOnly == UNCHANGED <<fixed, custom, channels, unticked, texting, counts, job, news, hands, told, lost, moved>>
Unmarked(m) == ~ m
backfillEvents(r) ==
    /\ boots[r].st = "idle"
    /\ Boot(r, IF ~ Unmarked(marker) THEN "done"
               ELSE IF row \notin {NoRow, {}} /\ "support" \notin row THEN "add" ELSE "mark", row)
    /\ together' = (together \/ \E q \in Replicas \ {r} : boots[q].st \in {"add", "mark"})
    /\ UNCHANGED <<row, marker>> /\ settingsOnly
AddEvent(r) ==
    /\ boots[r].st = "add"
    /\ row' = boots[r].row \cup {"support"}
    /\ Boot(r, "mark", boots[r].row)
    /\ UNCHANGED <<marker, together>> /\ settingsOnly
Mark(r) ==
    /\ boots[r].st = "mark"
    /\ marker' = TRUE /\ Boot(r, "done", {})
    /\ UNCHANGED <<row, together>> /\ settingsOnly

\* A process stops: its listeners and its backfill with it; it boots again.
Crash ==
    /\ Fault
    /\ hands' = {} /\ lost' = lost \cup {<<h.i, h.who>> : h \in hands}
    /\ boots' = [r \in Replicas |-> [st |-> "idle", row |-> {}]]
    /\ crowd' = (crowd \/ \E h \in hands : What(h) = "unpaid" /\ h.st = "log")
    /\ UNCHANGED <<fixed, custom, channels, row, marker, unticked, together, recent, hourly, saves, job, news, told, moved>>

Init ==
    /\ to \in Customers
    /\ smtp \in BOOLEAN /\ custom = TRUE /\ channels = {"email", "sms"}
    /\ row \in Rows /\ marker = FALSE
    /\ boots = [r \in Replicas |-> [st |-> "idle", row |-> {}]]
    /\ job = "waiting" /\ news = <<>> /\ hands = {} /\ told = <<>> /\ recent = FALSE
    /\ faults = 0 /\ saves = 0
    /\ lost = {} /\ hourly = 0 /\ crowd = FALSE /\ moved = {} /\ unticked = FALSE /\ together = FALSE

Next ==
    \/ \E w \in Happenings : Happen(w)
    \/ \E h \in hands :
         \/ Mail(h) \/ sendReviewRequest(h)
         \/ onTextEvent(h) \/ isEnabled(h) \/ addText(h) \/ logText(h)
         \/ resolveRecipients(h) \/ notifyByMail(h) \/ notifyByText(h)
    \/ \E r \in Replicas : backfillEvents(r) \/ AddEvent(r) \/ Mark(r)
    \/ HourEnds \/ updateSettings \/ Crash

Spec == Init /\ [][Next]_vars

-----------------------------------------------------------------------------
TypeOK ==
    /\ DOMAIN told = Ids /\ row \in {NoRow} \cup SUBSET Events /\ channels \subseteq {"email", "sms"}
    /\ \A h \in hands : h.i \in Ids /\ h.who \in {"mail", "text", "desk"}
    /\ job \in Steps \cup {"waiting"} /\ faults \in 0 .. MaxFaults /\ saves \in 0 .. MaxSaves

Reached(i, who) == <<i, who>> \notin lost /\ \A h \in hands : <<h.i, h.who>> # <<i, who>>

\* Once its listeners are done, everyone who should hear of an event has, once,
\* and each attempt to text is in the log as it ended: the customer with an
\* address by mail, the one with a number by text where it matters (failed
\* payments once an hour); nobody hears of what was marked silent.
NewsTold ==
    \A i \in Ids :
        LET e == news[i]  t == told[i] IN
        /\ Reached(i, "mail") => t.mails = (IF Hears("mail", e) /\ to.email /\ smtp THEN 1 ELSE 0)
        /\ Reached(i, "mail") => t.reviews = (IF e.what = "delivered" THEN t.mails ELSE 0)
        /\ Reached(i, "text") =>
             /\ t.texts = (IF <<"text", "sent">> \in t.log THEN 1 ELSE 0)
             /\ Hears("text", e) /\ to.phone # "none" /\ e.what # "unpaid" => t.log # {}
        /\ Reached(i, "desk") =>
             /\ t.alerts = 1 <=> <<"email", "sent">> \in t.log /\ (e.what = "low" => smtp)
             /\ t.pages = 1 <=> <<"sms", "sent">> \in t.log
        /\ e.silent => t.mails + t.texts = 0
\* A card declined three times in an hour is one text, unless two attempts
\* crossed or the process stopped before the log was written.
OneTextAnHour == crowd \/ hourly <= 1
\* A mail about the job says the step it was sent for, unless the job moved on.
SaysItsStep == \A i \in Ids \ moved : told[i].says \in {"none", news[i].what}
\* An event the admin unticks after the backfill stays unticked, unless two
\* replicas booted at once.
UntickKept == unticked /\ ~ together => "support" \notin Wanted
=============================================================================
