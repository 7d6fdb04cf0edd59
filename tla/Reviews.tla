------------------------------ MODULE Reviews ------------------------------
(***************************************************************************)
(* The reviews of a product (ReviewsService): what buyers submit and edit, *)
(* what an admin moderates, enters by hand, changes and deletes, and the   *)
(* rating the product carries, counted again after each.  Calls are cut    *)
(* where they wait for the database or the storage.                        *)
(***************************************************************************)
EXTENDS Integers, FiniteSets

CONSTANTS
    Bought, Imported,    \* reviews: of an order and the product, copied from elsewhere
    Calls,               \* requests that may run at once
    Senders,             \* what the forms show of who sends them (AntiSpamInput)
    MaxEdits, MaxFaults  \* bounds

VARIABLES
    review,   \* shop_product_reviews
    stats,    \* the product's rating: the <<review, content>> it was counted from
    files,    \* what the storage holds
    call, edits, faults,
    \* history
    drifted,  \* the last count was of what another call was changing, or was never taken
    crossed,  \* reviews two calls changed at once, or one that stopped midway
    unseen,   \* reviews changed between the page of an admin and its click
    vetted,   \* the content of each review an admin last let through
    shared    \* an admin put a picture of the library on a buyer's review

vars == <<review, stats, files, call, edits, faults, drifted, crossed, unseen, vetted, shared>>

Reviews == Bought \cup Imported
Library == {<<"library", 0>>}
Absent == [there |-> FALSE, v |-> 0, status |-> "pending", media |-> {}]
Idle == [op |-> "idle", at |-> "idle", id |-> "", saw |-> 0, keep |-> {}, drop |-> {}, up |-> {}, rows |-> {}]
Approved == {<<r, review[r].v>> : r \in {q \in Reviews : review[q].there /\ review[q].status = "approved"}}
Go(c, at) == call' = [call EXCEPT ![c].at = at]
Others(c, r) == \E d \in Calls \ {c} : call[d].id = r /\ call[d].at # "idle"
Cross(c, r) == crossed' = IF Others(c, r) THEN crossed \cup {r} ELSE crossed

(* AntiSpamService.evaluate: a form filled by a machine is blocked at once, *)
(* and the other signs add up.                                             *)
Points(b, n) == IF b THEN n ELSE 0
LeastOf(a, b) == IF a < b THEN a ELSE b
score(s) ==
    LET bot == Points(s.honeypot, 100) + Points(s.fast, 80) IN
    IF bot >= 80 THEN bot
    ELSE bot + Points(~ s.turnstile, 60) + Points(s.links > 2, LeastOf(s.links * 10, 40))
         + LeastOf(s.words * 25, 75) + Points(s.disposable, 50) + Points(s.caps, 20)
         + Points(s.repeated, 15) + Points(~ s.agent, 25)
evaluate(s) == IF score(s) >= 80 THEN "block" ELSE IF score(s) >= 40 THEN "suspicious" ELSE "accept"

-----------------------------------------------------------------------------
(* submit: who bought it may write, and edit, its review.  What was kept of *)
(* the pictures is worked out from the row read first.                     *)

Free(c) == call[c].at = "idle" /\ edits < MaxEdits /\ edits' = edits + 1
NewFile == <<"up", edits + 1>>
submit(c, r, s, keep, adds) ==
    /\ Free(c) /\ r \in Bought
    /\ evaluate(s) # "block"
    /\ keep \subseteq review[r].media
    /\ call' = [call EXCEPT ![c] = [Idle EXCEPT !.op = "submit", !.at = "upload", !.id = r,
                                    !.keep = keep, !.drop = review[r].media \ keep, !.up = IF adds THEN {NewFile} ELSE {}]]
    /\ Cross(c, r)
    /\ UNCHANGED <<review, stats, files, faults, drifted, unseen, vetted, shared>>
uploadMedia(c) ==
    /\ call[c].at = "upload"
    /\ files' = files \cup call[c].up
    /\ Go(c, "write")
    /\ UNCHANGED <<review, stats, edits, faults, drifted, crossed, unseen, vetted, shared>>
PendingAgain(r) == "pending"
Upsert(c) ==
    LET r == call[c].id IN
    /\ call[c].op = "submit" /\ call[c].at = "write"
    /\ review' = [review EXCEPT ![r] = [there |-> TRUE, v |-> review[r].v + 1, status |-> PendingAgain(r), media |-> call[c].keep \cup call[c].up]]
    /\ Go(c, "drop")
    /\ UNCHANGED <<stats, files, edits, faults, drifted, crossed, unseen, vetted, shared>>
\* The files are deleted beside the answer: each may fail, and stays.
deleteRemoved(c) ==
    /\ call[c].op = "submit" /\ call[c].at = "drop"
    /\ files' = files \ call[c].drop
    /\ Go(c, "count")
    /\ UNCHANGED <<review, stats, edits, faults, drifted, crossed, unseen, vetted, shared>>

-----------------------------------------------------------------------------
(* The admin: a page shows a review, a click later changes it.             *)

findOne(c, op, r) ==
    /\ Free(c) /\ review[r].there
    /\ call' = [call EXCEPT ![c] = [Idle EXCEPT !.op = op, !.at = "click", !.id = r, !.saw = review[r].v]]
    /\ Cross(c, r)
    /\ UNCHANGED <<review, stats, files, faults, drifted, unseen, vetted, shared>>
\* A status cut off by a deletion fails: the row is not there.
Gone(c) == ~ review[call[c].id].there /\ Go(c, "idle") /\ UNCHANGED <<review, stats, files, edits, faults, drifted, crossed, unseen, vetted, shared>>
moderate(c, status) ==
    LET r == call[c].id IN
    /\ call[c].op = "moderate" /\ call[c].at = "click" /\ review[r].there
    /\ review' = [review EXCEPT ![r].status = status]
    /\ vetted' = [vetted EXCEPT ![r] = call[c].saw]
    /\ unseen' = IF review[r].v = call[c].saw THEN unseen ELSE unseen \cup {r}
    /\ Go(c, "count")
    /\ UNCHANGED <<stats, files, edits, faults, drifted, crossed, shared>>
adminUpdate(c, media) ==
    LET r == call[c].id IN
    /\ call[c].op = "change" /\ call[c].at = "click" /\ review[r].there
    /\ review' = [review EXCEPT ![r].v = @ + 1, ![r].media = media]
    /\ vetted' = [vetted EXCEPT ![r] = review[r].v + 1]
    /\ shared' = (shared \/ (r \in Bought /\ media \cap Library # {}))
    /\ Go(c, IF review[r].status = "approved" THEN "count" ELSE "idle")
    /\ UNCHANGED <<stats, files, edits, faults, drifted, crossed, unseen>>
adminCreate(c, r, status, media) ==
    /\ Free(c) /\ r \in Imported /\ ~ review[r].there
    /\ review' = [review EXCEPT ![r] = [there |-> TRUE, v |-> review[r].v + 1, status |-> status, media |-> media]]
    /\ vetted' = [vetted EXCEPT ![r] = review[r].v + 1]
    /\ call' = [call EXCEPT ![c] = [Idle EXCEPT !.at = IF status = "approved" THEN "count" ELSE "idle", !.id = r]]
    /\ UNCHANGED <<stats, files, faults, drifted, crossed, unseen, shared>>
\* A buyer's own pictures go first, then the review.
OwnMedia(r) == IF r \in Bought THEN review[r].media ELSE {}
adminDelete(c) ==
    LET r == call[c].id IN
    /\ call[c].op = "delete" /\ call[c].at = "click"
    /\ files' = files \ OwnMedia(r)
    /\ Go(c, "remove")
    /\ UNCHANGED <<review, stats, edits, faults, drifted, crossed, unseen, vetted, shared>>
removeRow(c) ==
    LET r == call[c].id IN
    /\ call[c].op = "delete" /\ call[c].at = "remove" /\ review[r].there
    /\ review' = [review EXCEPT ![r] = [Absent EXCEPT !.v = review[r].v]]
    /\ Go(c, "count")
    /\ UNCHANGED <<stats, files, edits, faults, drifted, crossed, unseen, vetted, shared>>

-----------------------------------------------------------------------------
(* recomputeProductStats: a query, then an update with what it answered.   *)

CountRows(c) ==
    /\ call[c].at = "count"
    /\ call' = [call EXCEPT ![c].at = "save", ![c].rows = Approved]
    /\ UNCHANGED <<review, stats, files, edits, faults, drifted, crossed, unseen, vetted, shared>>
SaveStats(c) ==
    /\ call[c].at = "save"
    /\ stats' = call[c].rows /\ drifted' = (call[c].rows # Approved)
    /\ call' = [call EXCEPT ![c] = Idle]
    /\ UNCHANGED <<review, files, edits, faults, crossed, unseen, vetted, shared>>
\* A crash, or a call of the database that fails.
Fail(c) ==
    /\ call[c].at # "idle" /\ faults < MaxFaults /\ faults' = faults + 1
    /\ drifted' = (drifted \/ call[c].at \in {"drop", "count", "save"})
    /\ crossed' = IF call[c].at \in {"remove", "drop"} THEN crossed \cup {call[c].id} ELSE crossed
    /\ call' = [call EXCEPT ![c] = Idle]
    /\ UNCHANGED <<review, stats, files, edits, unseen, vetted, shared>>

Init ==
    /\ review = [r \in Reviews |-> Absent] /\ stats = {} /\ files = Library
    /\ call = [c \in Calls |-> Idle] /\ edits = 0 /\ faults = 0
    /\ drifted = FALSE /\ crossed = {} /\ unseen = {} /\ vetted = [r \in Reviews |-> 0] /\ shared = FALSE

Next ==
    \E c \in Calls :
      \/ \E r \in Reviews :
           \/ \E s \in Senders, keep \in SUBSET review[r].media, adds \in BOOLEAN : submit(c, r, s, keep, adds)
           \/ \E op \in {"moderate", "change", "delete"} : findOne(c, op, r)
           \/ \E status \in {"approved", "pending", "hidden"}, media \in SUBSET Library : adminCreate(c, r, status, media)
      \/ uploadMedia(c) \/ Upsert(c) \/ deleteRemoved(c)
      \/ \E status \in {"approved", "rejected"} : moderate(c, status)
      \/ call[c].op = "change" /\ \E media \in {review[call[c].id].media, Library, {}} : adminUpdate(c, media)
      \/ adminDelete(c) \/ removeRow(c) \/ CountRows(c) \/ SaveStats(c) \/ Fail(c)
      \/ call[c].at \in {"click", "remove"} /\ Gone(c)

Spec == Init /\ [][Next]_vars

-----------------------------------------------------------------------------
TypeOK ==
    /\ \A r \in Reviews : review[r].v \in 0 .. MaxEdits /\ review[r].status \in {"pending", "approved", "rejected", "hidden"}
    /\ stats \subseteq Reviews \X (1 .. MaxEdits) /\ crossed \cup unseen \subseteq Reviews

\* A product at rest carries the rating of its approved reviews, unless a count
\* was crossed or never taken; what is approved was read by an admin, unless it
\* was changed between the page and the click; and no picture a review lists is
\* gone, unless two calls changed the review at once or one stopped, or an admin
\* had put the library's picture on a buyer's review.
ReviewsTrue ==
    /\ (\A c \in Calls : call[c].at \in {"idle", "click", "upload", "write", "remove"}) => stats = Approved \/ drifted
    /\ \A r \in Reviews :
         /\ review[r].there /\ review[r].status = "approved" => vetted[r] = review[r].v \/ r \in unseen \cup crossed
         /\ r \in Bought \/ review[r].media \cap Library = {} \/ Library \subseteq files \/ shared
         /\ review[r].media \subseteq files \/ r \in crossed \/ shared \/ \E c \in Calls : call[c].id = r /\ call[c].at = "remove"
=============================================================================
