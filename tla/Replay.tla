------------------------------- MODULE Replay -------------------------------
(***************************************************************************)
(* A visit of a product page as the recorder sends it: batches of events,  *)
(* several in flight, each a file in the storage and a row that names it   *)
(* (ReplayTrackingService); the admin who opens it (ReplayAdminService);   *)
(* and the purge of what is old (ReplayRetentionService).  Every call is   *)
(* cut where it waits.                                                     *)
(***************************************************************************)
EXTENDS Integers, FiniteSets, Bitwise

CONSTANTS
    Calls,               \* requests that may run at once
    Ops,                 \* what they ask: "batch", "end", "view" or "purge"
    MaxSessionEvents,    \* MAX_SESSION_EVENTS, in batches
    Bits, Rules,         \* width of an address, and the rules the admin saved
    MaxBatches, MaxClicks, MaxFaults   \* bounds

VARIABLES
    session,  \* shop_replay_sessions, one row
    chunks,   \* its shop_replay_session_chunks, [seq, batch]
    files,    \* what the storage holds of it, [seq, batch]
    marks,    \* the batches whose markers are kept, 0 the closing one
    call,     \* what each request is doing, and the row as it read it
    purge,    \* the nightly purge and the rows it found
    sent, clicks, faults,
    \* history
    stored,   \* [batch, scroll] of the batches whose call went through
    first,    \* the click that first opened the session
    met,      \* of "batches", "clicks", "end", "purge": met another call where it was cut
    failed    \* the batches a call of the database or the storage failed for

vars == <<session, chunks, files, marks, call, purge, sent, clicks, faults, stored, first, met, failed>>

NoSession == [there |-> FALSE, status |-> "active", old |-> FALSE,
              events |-> 0, chunks |-> 0, scroll |-> 0, viewed |-> 0]
Idle == [op |-> "idle", at |-> "idle", b |-> 0, scroll |-> 0, held |-> NoSession, seq |-> 0]
Go(c, at) == call' = [call EXCEPT ![c].at = at]
InFlight(op) == {c \in Calls : call[c].op = op}
MaxOf(a, b) == IF a > b THEN a ELSE b

-----------------------------------------------------------------------------
(* Who is left out: an address a rule names, [base, prefix], prefix None   *)
(* for the address alone (ipMatchesRule).  A shift counts modulo the width.*)

None == -1
Shifted(n) == (((2 ^ Bits) - 1) * (2 ^ (n % Bits))) % (2 ^ Bits)
\* JavaScript shifts by the prefix modulo 32, so a prefix of 0 is left out before.
Masked(ip, rule) == IF rule.prefix = None THEN ip = rule.base
                              ELSE (ip & Shifted(Bits - rule.prefix)) = (rule.base & Shifted(Bits - rule.prefix))
ipMatchesRule(ip, rule) == rule.prefix = 0 \/ Masked(ip, rule)

\* startSession: nobody left out, of a product that is on sale; all is kept, or nothing.
\* One session is followed: another visit has a row of its own.
isAnalyticsExcluded(ip) == \E rule \in Rules : ipMatchesRule(ip, rule)
startSession(ip) ==
    /\ ~ session.there /\ sent = 0 /\ clicks = 0 /\ ~ isAnalyticsExcluded(ip)
    /\ session' = [NoSession EXCEPT !.there = TRUE]
    /\ UNCHANGED <<chunks, files, marks, call, purge, sent, clicks, faults, stored, first, met, failed>>

-----------------------------------------------------------------------------
(* ingestBatch                                                             *)

ingestBatch(c, scroll) ==
    /\ call[c].at = "idle" /\ "batch" \in Ops /\ session.there
    /\ sent < MaxBatches /\ sent' = sent + 1
    /\ call' = [call EXCEPT ![c] =
         IF session.status = "active" /\ session.events + 1 <= MaxSessionEvents
         THEN [Idle EXCEPT !.op = "batch", !.at = "claim", !.b = sent + 1, !.scroll = scroll, !.held = session]
         ELSE Idle]
    /\ met' = IF InFlight("batch") # {} THEN met \cup {"batches"} ELSE met
    /\ UNCHANGED <<session, chunks, files, marks, purge, clicks, faults, stored, first, failed>>
Number(c) == session.chunks
claim(c) ==
    /\ call[c].at = "claim" /\ session.there
    /\ session' = [session EXCEPT !.chunks = @ + 1]
    /\ call' = [call EXCEPT ![c].at = "upload", ![c].seq = Number(c)]
    /\ UNCHANGED <<chunks, files, marks, purge, sent, clicks, faults, stored, first, met, failed>>
upload(c) ==
    /\ call[c].at = "upload"
    /\ files' = {f \in files : f.seq # call[c].seq} \cup {[seq |-> call[c].seq, batch |-> call[c].b]}
    /\ Go(c, "row")
    /\ UNCHANGED <<session, chunks, marks, purge, sent, clicks, faults, stored, first, met, failed>>
createChunk(c) ==
    /\ call[c].at = "row" /\ session.there
    /\ \A k \in chunks : k.seq # call[c].seq
    /\ chunks' = chunks \cup {[seq |-> call[c].seq, batch |-> call[c].b]}
    /\ Go(c, "marks")
    /\ UNCHANGED <<session, files, marks, purge, sent, clicks, faults, stored, first, met, failed>>
saveMarkers(c) ==
    /\ call[c].at = "marks" /\ session.there
    /\ marks' = marks \cup {call[c].b}
    /\ Go(c, IF call[c].op = "end" THEN "close" ELSE "count")
    /\ UNCHANGED <<session, chunks, files, purge, sent, clicks, faults, stored, first, met, failed>>
\* The counts are added to, the scroll is the maximum with the one read first.
count(c) ==
    /\ call[c].at = "count" /\ session.there
    /\ session' = [session EXCEPT !.events = @ + 1, !.scroll = MaxOf(call[c].held.scroll, call[c].scroll)]
    /\ stored' = stored \cup {[batch |-> call[c].b, scroll |-> call[c].scroll]}
    /\ call' = [call EXCEPT ![c] = Idle]
    /\ UNCHANGED <<chunks, files, marks, purge, sent, clicks, faults, first, met, failed>>
\* Whatever fails is caught: the rest of the batch is not done.
GivesUp(c) ==
    /\ call[c].op = "batch" /\ call[c].at # "idle"
    /\ failed' = failed \cup {call[c].b}
    /\ call' = [call EXCEPT ![c] = Idle]
    /\ UNCHANGED <<session, chunks, files, marks, purge, sent, clicks, stored, first, met>>
Refused(c) ==
    /\ \/ call[c].at \in {"claim", "row", "marks", "count"} /\ ~ session.there
       \/ call[c].at = "row" /\ \E k \in chunks : k.seq = call[c].seq
    /\ GivesUp(c) /\ UNCHANGED faults
Fails(c) == faults < MaxFaults /\ faults' = faults + 1 /\ GivesUp(c)

-----------------------------------------------------------------------------
(* endSession: the closing marker, kept or not, then the status.           *)

endSession(c) ==
    /\ call[c].at = "idle" /\ "end" \in Ops /\ session.there /\ session.status = "active"
    /\ call' = [call EXCEPT ![c] = [Idle EXCEPT !.op = "end", !.at = "marks"]]
    /\ UNCHANGED <<session, chunks, files, marks, purge, sent, clicks, faults, stored, first, met, failed>>
LosesMarker(c) ==
    /\ call[c].op = "end" /\ call[c].at = "marks"
    /\ \/ ~ session.there /\ UNCHANGED faults
       \/ faults < MaxFaults /\ faults' = faults + 1
    /\ Go(c, "close")
    /\ UNCHANGED <<session, chunks, files, marks, purge, sent, clicks, stored, first, met, failed>>
close(c) ==
    /\ call[c].at = "close"
    /\ session' = IF session.there THEN [session EXCEPT !.status = "ended"] ELSE session
    /\ met' = IF InFlight("batch") # {} THEN met \cup {"end"} ELSE met
    /\ call' = [call EXCEPT ![c] = Idle]
    /\ UNCHANGED <<chunks, files, marks, purge, sent, clicks, faults, stored, first, failed>>

-----------------------------------------------------------------------------
(* The admin: a click opens the session or marks it viewed, and what plays *)
(* is each file a row names, in the order of the events' times.            *)

markViewed(c) ==
    /\ call[c].at = "idle" /\ "view" \in Ops /\ session.there /\ clicks < MaxClicks /\ clicks' = clicks + 1
    /\ call' = [call EXCEPT ![c] = IF session.viewed = 0 THEN [Idle EXCEPT !.op = "view", !.at = "view", !.b = clicks + 1] ELSE Idle]
    /\ met' = IF InFlight("view") # {} THEN met \cup {"clicks"} ELSE met
    /\ UNCHANGED <<session, chunks, files, marks, purge, sent, faults, stored, first, failed>>
writeViewed(c) ==
    /\ call[c].at = "view"
    /\ IF session.there
       THEN session' = [session EXCEPT !.viewed = call[c].b] /\ first' = (IF first = 0 THEN call[c].b ELSE first)
       ELSE UNCHANGED <<session, first>>
    /\ call' = [call EXCEPT ![c] = Idle]
    /\ UNCHANGED <<chunks, files, marks, purge, sent, clicks, faults, stored, met, failed>>
getSessionEvents == {k.batch : k \in chunks \cap files}

-----------------------------------------------------------------------------
(* The purge: the sessions that are old and their rows, the files of these *)
(* rows, the session with its rows.                                        *)

Age ==
    /\ "purge" \in Ops /\ session.there /\ ~ session.old
    /\ session' = [session EXCEPT !.old = TRUE]
    /\ UNCHANGED <<chunks, files, marks, call, purge, sent, clicks, faults, stored, first, met, failed>>
findExpired ==
    /\ purge.at = "idle" /\ session.there /\ session.old
    /\ purge' = [at |-> "delete", rows |-> chunks]
    /\ met' = IF InFlight("batch") # {} THEN met \cup {"purge"} ELSE met
    /\ UNCHANGED <<session, chunks, files, marks, call, sent, clicks, faults, stored, first, failed>>
\* A file that cannot be deleted stays, and its row goes all the same.
deleteFiles ==
    /\ purge.at = "delete"
    /\ \/ files' = {f \in files : \A k \in purge.rows : k.seq # f.seq} /\ UNCHANGED <<faults, failed>>
       \/ /\ faults < MaxFaults /\ faults' = faults + 1
          /\ \E k \in purge.rows :
               /\ failed' = failed \cup {k.batch}
               /\ files' = {f \in files : f.seq = k.seq \/ \A l \in purge.rows : l.seq # f.seq}
    /\ purge' = [purge EXCEPT !.at = "row"]
    /\ UNCHANGED <<session, chunks, marks, call, sent, clicks, stored, first, met>>
deleteSession ==
    /\ purge.at = "row"
    /\ met' = IF chunks # purge.rows \/ InFlight("batch") # {} THEN met \cup {"purge"} ELSE met
    /\ session' = NoSession /\ chunks' = {} /\ marks' = {}
    /\ purge' = [at |-> "idle", rows |-> {}]
    /\ UNCHANGED <<files, call, sent, clicks, faults, stored, first, failed>>
\* The process stops before the rows, or between the files and their rows.
StopPurge ==
    /\ purge.at # "idle" /\ faults < MaxFaults /\ faults' = faults + 1
    /\ purge' = [at |-> "idle", rows |-> {}]
    /\ failed' = failed \cup {k.batch : k \in purge.rows}
    /\ UNCHANGED <<session, chunks, files, marks, call, sent, clicks, stored, first, met>>

Init ==
    /\ session = NoSession /\ chunks = {} /\ files = {} /\ marks = {}
    /\ call = [c \in Calls |-> Idle] /\ purge = [at |-> "idle", rows |-> {}]
    /\ sent = 0 /\ clicks = 0 /\ faults = 0
    /\ stored = {} /\ first = 0 /\ met = {} /\ failed = {}

Next ==
    \/ \E c \in Calls :
         \/ \E scroll \in 1 .. 2 : ingestBatch(c, scroll)
         \/ claim(c) \/ upload(c) \/ createChunk(c) \/ saveMarkers(c) \/ count(c) \/ Refused(c) \/ Fails(c)
         \/ endSession(c) \/ LosesMarker(c) \/ close(c)
         \/ markViewed(c) \/ writeViewed(c)
    \/ \E ip \in 0 .. 2 ^ Bits - 1 : startSession(ip)
    \/ Age \/ findExpired \/ deleteFiles \/ deleteSession \/ StopPurge

Spec == Init /\ [][Next]_vars

-----------------------------------------------------------------------------
TypeOK ==
    /\ sent \in 0 .. MaxBatches /\ clicks \in 0 .. MaxClicks /\ faults \in 0 .. MaxFaults
    /\ \A k \in chunks \cup files : k.batch \in 1 .. sent /\ k.seq \in 0 .. MaxBatches
    /\ session.events \in 0 .. sent /\ session.viewed \in 0 .. clicks /\ failed \subseteq 1 .. sent

\* What a visitor did is played whole: every batch that went through is there under
\* its own number and counted, unless the purge reached it; the cap and the furthest
\* scroll are exact but for batches sent at once; an ended session takes no more but
\* what was in flight; the first click is the one kept, but for two at once; and a
\* purged session leaves no file, but for what failed or was sent beside the purge.
ReplayWhole ==
    LET Batches == {s.batch : s \in stored}
        Quiet == InFlight("batch") = {} IN
    /\ \A k, l \in chunks : k.seq = l.seq => k = l
    /\ session.there /\ purge.at = "idle" => Batches \subseteq getSessionEvents \cup failed
    /\ session.there => session.events = Cardinality(Batches)
    /\ session.events <= MaxSessionEvents \/ "batches" \in met
    /\ session.there /\ Quiet => "batches" \in met \/ \A s \in stored : s.scroll <= session.scroll
    /\ session.status = "ended" => "end" \in met \/ Quiet
    /\ session.there => session.viewed = first \/ "clicks" \in met
    /\ ~ session.there /\ Quiet => "purge" \in met \/ \A f \in files : f.batch \in failed

\* A rule of a prefix leaves out the addresses that begin as its base does.
RulesMatch ==
    \A ip, base \in 0 .. 2 ^ Bits - 1, prefix \in 0 .. Bits :
        ipMatchesRule(ip, [base |-> base, prefix |-> prefix]) <=> ip \div (2 ^ (Bits - prefix)) = base \div (2 ^ (Bits - prefix))
=============================================================================
