------------------------------ MODULE Settings ------------------------------
(***************************************************************************)
(* The platform's settings (PlatformSettingsService): rows any replica's   *)
(* admin saves, and a copy on each replica that is read instead and is     *)
(* refreshed behind the reader once a minute old.  A setting of several    *)
(* rows, here a pixel's id and its switch, is saved row by row.            *)
(***************************************************************************)
EXTENDS Integers, FiniteSets

CONSTANTS
    Replicas, Slots,     \* and the refreshes one may run at once
    Saves,               \* requests of admins that may run at once
    Ids, Ips,            \* pixel ids, addresses kept out of the analytics
    MaxSaves, MaxFaults  \* bounds

VARIABLES
    row,      \* platform_settings: id, on, ips
    cache,    \* the same as each replica has it, and whether the minute is not over
    warm,     \* what each refresh has read, or nothing yet
    save,     \* what each request is writing
    done, faults,
    \* history
    mixed,    \* two pixel saves met, or one stopped between its rows
    torn,     \* replicas that read the rows of a save half done
    behind,   \* replicas whose copy is older than a save made elsewhere, or than a refresh read
    asked,    \* the addresses the admins asked to keep out
    lost      \* an address was added to a list that was not the latest

vars == <<row, cache, warm, save, done, faults, mixed, torn, behind, asked, lost>>

None == 0
Rows == [id |-> None, on |-> FALSE, ips |-> {}]
NoSave == [at |-> "idle", r |-> None, kind |-> "", id |-> None, on |-> FALSE, ips |-> {}, left |-> {}, adds |-> {}]
Writing(kind) == {s \in Saves : save[s].at = "write" /\ save[s].kind = kind}
HalfDone == \E s \in Writing("pixel") : Cardinality(save[s].left) = 1
\* What the replica serves of the rows.
Served(r) == [id |-> cache[r].id, on |-> cache[r].on, ips |-> cache[r].ips]

-----------------------------------------------------------------------------
(* Reading never waits: a copy whose minute is over is served, and         *)
(* refreshed behind.                                                       *)

\* getTimezone, getMetaPixelConfig and the rest -> refreshIfStale
refreshIfStale(r, w) ==
    /\ ~ cache[r].fresh /\ warm[r][w].at = "idle"
    /\ warm' = [warm EXCEPT ![r][w] = [at |-> "read", rows |-> Rows]]
    /\ UNCHANGED <<row, cache, save, done, faults, mixed, torn, behind, asked, lost>>
FindRows(r, w) ==
    /\ warm[r][w].at = "read"
    /\ warm' = [warm EXCEPT ![r][w] = [at |-> "keep", rows |-> row]]
    /\ torn' = IF HalfDone THEN torn \cup {r} ELSE torn
    /\ UNCHANGED <<row, cache, save, done, faults, mixed, behind, asked, lost>>
\* A mutant: the list of addresses is left as it was.
KeptIps(r, w) == cache[r].ips
FoundIps(r, w) == warm[r][w].rows.ips
warmCache(r, w) ==
    LET found == warm[r][w].rows IN
    /\ warm[r][w].at = "keep"
    /\ cache' = [cache EXCEPT ![r] = [id |-> found.id, on |-> found.on, ips |-> FoundIps(r, w), fresh |-> TRUE]]
    /\ warm' = [warm EXCEPT ![r][w] = [at |-> "idle", rows |-> Rows]]
    /\ behind' = IF found # row THEN behind \cup {r} ELSE IF \E s \in Saves : save[s].at # "idle" THEN behind ELSE behind \ {r}
    /\ UNCHANGED <<row, save, done, faults, mixed, torn, asked, lost>>
warmFails(r, w) ==
    /\ warm[r][w].at = "read" /\ faults < MaxFaults /\ faults' = faults + 1
    /\ warm' = [warm EXCEPT ![r][w] = [at |-> "idle", rows |-> Rows]]
    /\ UNCHANGED <<row, cache, save, done, mixed, torn, behind, asked, lost>>
MinuteEnds(r) ==
    /\ cache[r].fresh
    /\ cache' = [cache EXCEPT ![r].fresh = FALSE]
    /\ UNCHANGED <<row, warm, save, done, faults, mixed, torn, behind, asked, lost>>

-----------------------------------------------------------------------------
(* Saving: the rows, in any order, then this replica's copy, whose minute  *)
(* starts again for every setting.                                         *)

Begin(s, new) ==
    /\ save[s].at = "idle" /\ done < MaxSaves /\ done' = done + 1
    /\ save' = [save EXCEPT ![s] = new]
    /\ UNCHANGED <<row, cache, warm, faults, torn, behind, asked, lost>>
\* setMetaPixelConfig, setTikTokPixelConfig: on takes an id.
setPixel(s, r, id, on) ==
    /\ Ids # {} /\ (on => id # None)
    /\ mixed' = (mixed \/ Writing("pixel") # {})
    /\ Begin(s, [NoSave EXCEPT !.at = "write", !.r = r, !.kind = "pixel", !.id = id, !.on = on, !.left = {"id", "on"}])
setAnalyticsExcludedIps(s, r, ips) ==
    /\ Ips # {}
    /\ UNCHANGED mixed
    /\ Begin(s, [NoSave EXCEPT !.at = "write", !.r = r, !.kind = "ips", !.ips = ips, !.left = {"ips"}])
\* The list this replica has, and one more.
addAnalyticsExcludedIp(s, r, ip) ==
    /\ UNCHANGED mixed
    /\ Begin(s, [NoSave EXCEPT !.at = "write", !.r = r, !.kind = "ips", !.ips = cache[r].ips \cup {ip}, !.left = {"ips"}, !.adds = {ip}])

upsert(s, k) ==
    /\ save[s].at = "write" /\ k \in save[s].left
    /\ row' = CASE k = "id" -> [row EXCEPT !.id = save[s].id]
                [] k = "on" -> [row EXCEPT !.on = save[s].on]
                [] k = "ips" -> [row EXCEPT !.ips = save[s].ips]
    /\ IF k # "ips" THEN UNCHANGED <<asked, lost>>
       ELSE IF save[s].adds = {} THEN asked' = save[s].ips /\ lost' = FALSE
       ELSE /\ asked' = asked \cup save[s].adds
            /\ lost' = (lost \/ save[s].ips # row.ips \cup save[s].adds)
    /\ behind' = behind \cup {q \in Replicas : q # save[s].r} \cup (IF \E t \in Saves \ {s} : save[t].at # "idle" THEN Replicas ELSE {})
    /\ save' = [save EXCEPT ![s].left = @ \ {k}, ![s].at = IF save[s].left = {k} THEN "keep" ELSE "write"]
    /\ UNCHANGED <<cache, warm, done, faults, mixed, torn>>
\* A row that cannot be written fails the save, the other may still be.
upsertFails(s) ==
    /\ save[s].at = "write" /\ faults < MaxFaults /\ faults' = faults + 1
    /\ \E written \in SUBSET save[s].left :
         /\ written # save[s].left
         /\ row' = IF "id" \in written THEN [row EXCEPT !.id = save[s].id] ELSE IF "on" \in written THEN [row EXCEPT !.on = save[s].on] ELSE row
    /\ mixed' = (mixed \/ save[s].kind = "pixel") /\ behind' = Replicas
    /\ save' = [save EXCEPT ![s] = NoSave]
    /\ UNCHANGED <<cache, warm, done, torn, asked, lost>>
KeepOwn(s) ==
    LET r == save[s].r IN
    /\ save[s].at = "keep"
    /\ cache' = [cache EXCEPT ![r] = IF save[s].kind = "pixel" THEN [@ EXCEPT !.id = save[s].id, !.on = save[s].on, !.fresh = TRUE]
                                     ELSE [@ EXCEPT !.ips = save[s].ips, !.fresh = TRUE]]
    /\ save' = [save EXCEPT ![s] = NoSave]
    /\ UNCHANGED <<row, warm, done, faults, mixed, torn, behind, asked, lost>>

Init ==
    /\ row = Rows /\ cache = [r \in Replicas |-> [id |-> None, on |-> FALSE, ips |-> {}, fresh |-> TRUE]]
    /\ warm = [r \in Replicas |-> [w \in Slots |-> [at |-> "idle", rows |-> Rows]]]
    /\ save = [s \in Saves |-> NoSave] /\ done = 0 /\ faults = 0
    /\ mixed = FALSE /\ torn = {} /\ behind = {} /\ asked = {} /\ lost = FALSE

Next ==
    \/ \E r \in Replicas :
         \/ MinuteEnds(r)
         \/ \E w \in Slots : refreshIfStale(r, w) \/ FindRows(r, w) \/ warmCache(r, w) \/ warmFails(r, w)
         \/ \E s \in Saves :
              \/ \E id \in Ids \cup {None}, on \in BOOLEAN : setPixel(s, r, id, on)
              \/ \E ips \in SUBSET Ips : setAnalyticsExcludedIps(s, r, ips)
              \/ \E ip \in Ips : addAnalyticsExcludedIp(s, r, ip)
    \/ \E s \in Saves : upsertFails(s) \/ KeepOwn(s) \/ \E k \in {"id", "on", "ips"} : upsert(s, k)

Spec == Init /\ [][Next]_vars

-----------------------------------------------------------------------------
TypeOK ==
    /\ row.id \in Ids \cup {None} /\ row.ips \cup asked \subseteq Ips
    /\ \A r \in Replicas : cache[r].fresh \in BOOLEAN /\ cache[r].ips \subseteq Ips
    /\ done \in 0 .. MaxSaves /\ faults \in 0 .. MaxFaults

\* No pixel is on without its id, unless two saves met, one stopped between its
\* rows or a replica read them there; an address an admin asked to keep out is
\* kept out, unless the list it was added to was not the latest; and a replica
\* that nothing was saved beside serves what was saved.
SettingsTrue ==
    /\ row.on /\ ~ HalfDone => row.id # None \/ mixed
    /\ \A r \in Replicas : cache[r].on => cache[r].id # None \/ mixed \/ r \in torn
    /\ row.ips = asked \/ lost
    /\ (\A s \in Saves : save[s].at = "idle") => \A r \in Replicas \ behind : Served(r) = row
=============================================================================
