------------------------------ MODULE Sessions ------------------------------
(***************************************************************************)
(* How an admin stays signed in: AuthService rotates the refresh token on  *)
(* every use.  A browser keeps one token, which every tab and every front  *)
(* pod presents, several at once when the access token has ended.  A       *)
(* request is cut where it waits for the database.                         *)
(***************************************************************************)
EXTENDS Integers, Sequences

CONSTANTS
    Browsers, Requests,
    MaxTokens, MaxTicks, MaxFaults   \* bounds

VARIABLES
    account,    \* the admin's row is there
    tokens,     \* the ids drawn, each with its row in admin_refresh_tokens
    cookie,     \* the token each browser keeps, or 0
    req,        \* what each request is at
    ticks, faults,
    \* history
    signedIn,   \* browsers that signed in and did not sign out
    disturbed   \* an answer was late or lost, a sign-out crossed a request,
                \* a token ended, or the admin was removed

data == <<account, tokens>>
counts == <<ticks, faults>>
vars == <<data, cookie, req, counts, signedIn, disturbed>>

Idle == [at |-> "idle", browser |-> 0, token |-> 0, new |-> 0]
Busy(b) == \E r \in Requests : req[r].at # "idle" /\ req[r].browser = b
Live(t) == tokens[t].row /\ tokens[t].revoked = "no" /\ ~ tokens[t].ended
Go(r, at) == req' = [req EXCEPT ![r].at = at]
Answer(r, t) == req' = [req EXCEPT ![r] = Idle] /\ cookie' = [cookie EXCEPT ![req[r].browser] = t]

-----------------------------------------------------------------------------
(* issueTokens: the row of an id chosen before, or of a new one.           *)

Row(there) == [row |-> there, revoked |-> "no", by |-> 0, ended |-> FALSE]
Drawn == Append(tokens, Row(FALSE))
NewId == Len(tokens) + 1
Room == Len(tokens) < MaxTokens

\* login, verifyMfa: the credentials were right.
login(b) ==
    /\ account /\ Room /\ ~ Busy(b) /\ cookie[b] = 0
    /\ tokens' = Append(tokens, Row(TRUE))
    /\ cookie' = [cookie EXCEPT ![b] = NewId]
    /\ signedIn' = signedIn \cup {b}
    /\ UNCHANGED <<account, req, counts, disturbed>>

\* refresh: the row is read; one that is not there or has ended is refused, and
\* the browser drops its token.
refresh(r, b) ==
    /\ req[r].at = "idle" /\ cookie[b] # 0
    /\ LET t == cookie[b] IN
       IF tokens[t].row /\ ~ tokens[t].ended
       THEN req' = [req EXCEPT ![r] = [at |-> "claim", browser |-> b, token |-> t, new |-> 0]] /\ UNCHANGED cookie
       ELSE cookie' = [cookie EXCEPT ![b] = 0] /\ UNCHANGED req
    /\ UNCHANGED <<data, counts, signedIn, disturbed>>

\* A mutant: the replacement is not written by the claim.
ClaimedAlone(old, new) == [old EXCEPT !.revoked = "now"]
Claimed(old, new) == [old EXCEPT !.revoked = "now", !.by = new]
claim(r) ==
    LET t == req[r].token IN
    /\ req[r].at = "claim"
    /\ IF tokens[t].row /\ tokens[t].revoked = "no"
       THEN /\ Room
            /\ tokens' = [Drawn EXCEPT ![t] = Claimed(@, NewId)]
            /\ req' = [req EXCEPT ![r].at = "issue", ![r].new = NewId]
       ELSE Go(r, "reread") /\ UNCHANGED tokens
    /\ UNCHANGED <<account, cookie, counts, signedIn, disturbed>>

\* A claim that was lost: by a moment, it is given a session of its own; else
\* the token was used again, and every session of the admin ends.
reread(r) ==
    LET t == tokens[req[r].token] IN
    /\ req[r].at = "reread"
    /\ Go(r, IF t.row /\ t.by # 0 /\ t.revoked = "now" THEN "issue" ELSE "revokeAll")
    /\ UNCHANGED <<data, cookie, counts, signedIn, disturbed>>
revokeAll(r) ==
    /\ req[r].at = "revokeAll"
    /\ tokens' = [t \in DOMAIN tokens |->
                    IF tokens[t].row /\ tokens[t].revoked = "no" THEN [tokens[t] EXCEPT !.revoked = "now"] ELSE tokens[t]]
    /\ Answer(r, 0)
    /\ UNCHANGED <<account, counts, signedIn, disturbed>>

\* The row cannot be written for an admin who was removed.
issueTokens(r) ==
    LET q == req[r] IN
    /\ req[r].at = "issue"
    /\ IF ~ account THEN req' = [req EXCEPT ![r] = Idle] /\ UNCHANGED <<tokens, cookie>>
       ELSE IF q.new # 0 THEN tokens' = [tokens EXCEPT ![q.new].row = TRUE] /\ Answer(r, q.new)
       ELSE Room /\ tokens' = Append(tokens, Row(TRUE)) /\ Answer(r, NewId)
    /\ UNCHANGED <<account, counts, signedIn, disturbed>>

\* logout: the row is revoked now, whether it was or not.
logout(b) ==
    /\ cookie[b] # 0
    /\ LET t == cookie[b] IN tokens' = IF tokens[t].row THEN [tokens EXCEPT ![t].revoked = "now"] ELSE tokens
    /\ cookie' = [cookie EXCEPT ![b] = 0]
    /\ signedIn' = signedIn \ {b}
    /\ disturbed' = (disturbed \/ Busy(b))
    /\ UNCHANGED <<account, req, counts>>

remove ==
    /\ account
    /\ account' = FALSE /\ disturbed' = TRUE
    /\ tokens' = [t \in DOMAIN tokens |-> [tokens[t] EXCEPT !.row = FALSE]]
    /\ UNCHANGED <<cookie, req, counts, signedIn>>

-----------------------------------------------------------------------------
\* RACE_GRACE_MS is over for whatever was revoked before.
GraceEnds ==
    /\ ticks < MaxTicks /\ ticks' = ticks + 1
    /\ \E t \in DOMAIN tokens : tokens[t].revoked = "now"
    /\ tokens' = [t \in DOMAIN tokens |-> IF tokens[t].revoked = "now" THEN [tokens[t] EXCEPT !.revoked = "long"] ELSE tokens[t]]
    /\ disturbed' = (disturbed \/ \E b \in Browsers : Busy(b))
    /\ UNCHANGED <<account, cookie, req, faults, signedIn>>
Fault == faults < MaxFaults /\ faults' = faults + 1 /\ disturbed' = TRUE
\* REFRESH_TOKEN_TTL is over.
Ends(t) ==
    /\ Fault /\ tokens[t].row /\ ~ tokens[t].ended
    /\ tokens' = [tokens EXCEPT ![t].ended = TRUE]
    /\ UNCHANGED <<account, cookie, req, ticks, signedIn>>
\* The process stops, or its answer does not arrive.
Lose(r) ==
    /\ Fault /\ req[r].at # "idle"
    /\ req' = [req EXCEPT ![r] = Idle]
    /\ UNCHANGED <<data, cookie, ticks, signedIn>>

Init ==
    /\ account = TRUE /\ tokens = <<>> /\ cookie = [b \in Browsers |-> 0] /\ req = [r \in Requests |-> Idle]
    /\ ticks = 0 /\ faults = 0 /\ signedIn = {} /\ disturbed = FALSE

Next ==
    \/ \E b \in Browsers : login(b) \/ logout(b) \/ \E r \in Requests : refresh(r, b)
    \/ \E r \in Requests : claim(r) \/ reread(r) \/ revokeAll(r) \/ issueTokens(r) \/ Lose(r)
    \/ remove \/ GraceEnds \/ \E t \in DOMAIN tokens : Ends(t)

Spec == Init /\ [][Next]_vars

-----------------------------------------------------------------------------
TypeOK ==
    /\ \A b \in Browsers : cookie[b] \in 0 .. Len(tokens)
    /\ \A t \in DOMAIN tokens : tokens[t].by \in 0 .. Len(tokens) /\ tokens[t].revoked \in {"no", "now", "long"}
    /\ \A r \in Requests : req[r].at \in {"idle", "claim", "reread", "revokeAll", "issue"}

\* An admin is not signed out out of nowhere: however many tabs refresh at once,
\* and in however many browsers, each browser that has its answers keeps a token
\* that can be refreshed, until it signs out.
StaysSignedIn == ~ disturbed => \A b \in signedIn : Busy(b) \/ (cookie[b] # 0 /\ Live(cookie[b]))
=============================================================================
