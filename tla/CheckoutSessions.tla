-------------------------- MODULE CheckoutSessions --------------------------
(***************************************************************************)
(* The form of a checkout as the customer left it: CheckoutSessionService, *)
(* a row per cart and a copy of it in Redis for five minutes, that any of  *)
(* its calls may write after another has changed the row.                  *)
(***************************************************************************)
EXTENDS Integers, FiniteSetsExt

CONSTANTS
    Calls,        \* requests that may run at once
    Ops,          \* what they ask: "visit", "save", "complete" or "remind"
    MaxWrites, MaxFaults   \* bounds

VARIABLES
    row,      \* checkout_sessions of the cart, or None
    cache,    \* its copy in Redis, or None
    call,     \* what each request is doing, and the session it holds
    writes, faults,
    \* history
    told,     \* the latest write whose call was answered
    closed,   \* the write that completed the session, once markComplete returned
    mixed     \* a call held a session while another wrote the row, or Redis failed

vars == <<row, cache, call, writes, faults, told, closed, mixed>>

None == [v |-> 0, form |-> 0, done |-> FALSE, old |-> FALSE]
Open(s) == s # None /\ ~ s.done /\ ~ s.old
Idle == [op |-> "idle", at |-> "idle", held |-> None, form |-> 0, since |-> 0, shut |-> 0]
Go(c, at) == call' = [call EXCEPT ![c].at = at]
Hold(c, at, s) == call' = [call EXCEPT ![c].at = at, ![c].held = s]
Holding(c) == \E d \in Calls \ {c} : call[d].at \in {"drop", "cache"}
MaxOf(a, b) == IF a > b THEN a ELSE b

Start(c, op) ==
    /\ call[c].at \in {"idle", "shown", "refused"}
    /\ call' = [call EXCEPT ![c] = [op |-> op, at |-> IF op \in {"visit", "remind"} THEN "cached" ELSE "find", held |-> None,
                                    form |-> IF op = "save" THEN writes + 1 ELSE 0, since |-> told, shut |-> closed]]
    /\ UNCHANGED <<row, cache, writes, faults, told, closed, mixed>>

\* fromCache: a copy that ended or was completed is a miss.  findByCartToken
\* reads the same way.
fromCache(c) ==
    /\ call[c].at = "cached"
    /\ IF Open(cache) THEN Hold(c, "shown", cache) ELSE Go(c, "find")
    /\ UNCHANGED <<row, cache, writes, faults, told, closed, mixed>>
find(c) ==
    /\ call[c].at = "find" /\ call[c].op # "complete"
    /\ CASE call[c].op = "save" -> Go(c, IF row = None THEN "cached" ELSE "update")
         [] call[c].op = "remind" -> Hold(c, IF row = None THEN "shown" ELSE "cache", row)
         [] OTHER -> IF Open(row) THEN Hold(c, "cache", row) ELSE Go(c, "create")
    /\ UNCHANGED <<row, cache, writes, faults, told, closed, mixed>>

\* A write of the row by a call, that then holds what it wrote.
Write(c, s, at) ==
    /\ writes < MaxWrites /\ writes' = writes + 1
    /\ row' = [s EXCEPT !.v = writes + 1]
    /\ mixed' = (mixed \/ Holding(c))
    /\ call' = [call EXCEPT ![c].at = at, ![c].held = [s EXCEPT !.v = writes + 1]]
    /\ UNCHANGED <<cache, faults, told, closed>>
\* The cart's token is unique: a row that is there, open or not, refuses another.
create(c) ==
    /\ call[c].at = "create"
    /\ IF row = None THEN Write(c, [None EXCEPT !.v = 1], "cache")
       ELSE Go(c, "refused") /\ UNCHANGED <<row, cache, writes, faults, told, closed, mixed>>
update(c) ==
    /\ call[c].at = "update"
    /\ IF row # None THEN Write(c, [row EXCEPT !.form = call[c].form, !.old = FALSE], "drop")
       ELSE Go(c, "refused") /\ UNCHANGED <<row, cache, writes, faults, told, closed, mixed>>
\* markComplete: updateMany.
complete(c) ==
    /\ call[c].at = "find" /\ call[c].op = "complete"
    /\ IF row # None THEN Write(c, [row EXCEPT !.done = TRUE], "drop")
       ELSE Go(c, "drop") /\ UNCHANGED <<row, cache, writes, faults, told, closed, mixed>>

\* A mutant: the copy outlives the row's change.
NotDropped(c) == cache' = cache
Dropped(c) == cache' = None
invalidate(c) ==
    /\ call[c].at = "drop"
    /\ \/ Dropped(c) /\ UNCHANGED <<faults, mixed>>
       \/ faults < MaxFaults /\ faults' = faults + 1 /\ mixed' = TRUE /\ UNCHANGED cache
    /\ IF call[c].op = "complete"
       THEN call' = [call EXCEPT ![c] = Idle] /\ closed' = MaxOf(closed, call[c].held.v)
       ELSE Go(c, "cache") /\ UNCHANGED closed
    /\ UNCHANGED <<row, writes, told>>
\* cacheAndReturn: the session this call read or wrote, whatever the row is now.
cacheAndReturn(c) ==
    /\ call[c].at = "cache"
    /\ \/ cache' = call[c].held /\ UNCHANGED <<faults, mixed>>
       \/ faults < MaxFaults /\ faults' = faults + 1 /\ mixed' = TRUE /\ UNCHANGED cache
    /\ told' = IF call[c].op = "save" /\ call[c].held.form = call[c].form THEN MaxOf(told, call[c].held.v) ELSE told
    /\ Go(c, "shown")
    /\ UNCHANGED <<row, writes, closed>>
\* Seven days pass, also for the copy; at three the rows that ended are deleted.
Expire ==
    /\ row # None /\ ~ row.old
    /\ row' = [row EXCEPT !.old = TRUE] /\ cache' = [cache EXCEPT !.old = cache # None]
    /\ UNCHANGED <<call, writes, faults, told, closed, mixed>>
deleteExpired ==
    /\ row.old
    /\ row' = None /\ mixed' = (mixed \/ \E c \in Calls : call[c].at \in {"drop", "cache"})
    /\ UNCHANGED <<cache, call, writes, faults, told, closed>>
\* Redis forgets the copy five minutes after it was written.
CacheEnds ==
    /\ cache # None /\ cache' = None
    /\ UNCHANGED <<row, call, writes, faults, told, closed, mixed>>

Init ==
    /\ row = None /\ cache = None /\ call = [c \in Calls |-> Idle]
    /\ writes = 0 /\ faults = 0 /\ told = 0 /\ closed = 0 /\ mixed = FALSE

Next ==
    \/ \E c \in Calls :
         \/ \E op \in Ops : Start(c, op)
         \/ fromCache(c) \/ find(c) \/ create(c) \/ update(c) \/ complete(c)
         \/ invalidate(c) \/ cacheAndReturn(c)
    \/ Expire \/ deleteExpired \/ CacheEnds

Spec == Init /\ [][Next]_vars

-----------------------------------------------------------------------------
TypeOK ==
    /\ writes \in 0 .. MaxWrites /\ {row.v, cache.v, told, closed} \subseteq 0 .. writes
    /\ \A c \in Calls : call[c].held.v \in 0 .. writes

\* A customer who reloads or resumes is given the form last saved, and a checkout
\* that was paid is not opened again, unless a call was cut between its read and
\* its copy by another's write, or Redis did not answer.
FormKept ==
    \A c \in Calls : call[c].at = "shown" =>
        \/ mixed
        \/ call[c].op = "remind" /\ call[c].held = None
        \/ call[c].held.v >= call[c].since /\ (call[c].op # "save" => call[c].held.v >= call[c].shut)
=============================================================================
