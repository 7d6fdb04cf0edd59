--------------------------- MODULE Sessions_proofs ---------------------------
(* What holds of an admin's sessions for any number of browsers, requests and  *)
(* tokens. A browser stays signed in because no two browsers ever hold one     *)
(* token (Apart), a token that a browser or a request holds is live or was     *)
(* claimed a moment ago (Fit), and an id drawn by a claim is nobody's until    *)
(* its row is written (Fresh).                                                 *)
EXTENDS Sessions, TLAPS

Token == [row : BOOLEAN, revoked : {"no", "now", "long"}, by : Nat, ended : BOOLEAN]
Busys == {"claim", "reread", "revokeAll", "issue"}
Ids == 1 .. Len(tokens)
Call(q, n) ==
  /\ q \in [at : Busys, browser : Browsers, token : 1 .. n, new : 0 .. n]
  /\ q.new # 0 => q.at = "issue"

TokensOK == tokens \in Seq(Token) /\ \A t \in Ids : tokens[t].by \in 0 .. Len(tokens)
CookieOK == DOMAIN cookie = Browsers /\ \A b \in Browsers : cookie[b] \in 0 .. Len(tokens)
ReqOK == DOMAIN req = Requests /\ \A r \in Requests : req[r] = Idle \/ Call(req[r], Len(tokens))
Flags == account \in BOOLEAN /\ disturbed \in BOOLEAN
Types == TokensOK /\ CookieOK /\ ReqOK /\ Flags

-----------------------------------------------------------------------------
\* A token that can be refreshed, or was claimed a moment ago.
Good(t) == /\ tokens[t].row /\ ~ tokens[t].ended
           /\ tokens[t].revoked = "no" \/ (tokens[t].revoked = "now" /\ tokens[t].by # 0)

(* The rows of the table. *)

LEMMA Appends ==
  ASSUME TokensOK, NEW e \in Token, e.by = 0, tokens' = Append(tokens, e)
  PROVE  /\ TokensOK' /\ Len(tokens) \in Nat /\ Len(tokens') = Len(tokens) + 1
         /\ tokens'[Len(tokens) + 1] = e /\ \A t \in Ids : tokens'[t] = tokens[t]
<1>1. /\ tokens' \in Seq(Token) /\ Len(tokens) \in Nat /\ Len(tokens') = Len(tokens) + 1
      /\ tokens'[Len(tokens) + 1] = e /\ \A t \in Ids : tokens'[t] = tokens[t]
  BY DEF TokensOK, Ids
<1>2. ASSUME NEW t \in 1 .. Len(tokens') PROVE tokens'[t].by \in 0 .. Len(tokens')
  <2>1. CASE t = Len(tokens) + 1
    BY <1>1, <2>1
  <2>2. CASE t # Len(tokens) + 1
    <3>1. t \in 1 .. Len(tokens)
      BY <1>1, <2>2
    <3>2. tokens[t].by \in 0 .. Len(tokens)
      BY <3>1 DEF TokensOK, Ids
    <3> QED
      BY <1>1, <3>1, <3>2 DEF Ids
  <2> QED
    BY <2>1, <2>2
<1> QED
  BY <1>1, <1>2 DEF TokensOK, Ids

(* The rows change, and none is added. *)
LEMMA Changes ==
  ASSUME TokensOK, tokens' \in [Ids -> Token], \A t \in Ids : tokens'[t].by \in 0 .. Len(tokens)
  PROVE  TokensOK' /\ Len(tokens') = Len(tokens) /\ Len(tokens) \in Nat
<1>1. Ids = 1 .. Len(tokens) /\ Len(tokens) \in Nat
  BY DEF TokensOK, Ids
<1>2. tokens' \in Seq(Token) /\ Len(tokens') = Len(tokens)
  BY <1>1
<1> QED
  BY <1>1, <1>2 DEF TokensOK, Ids

(* One row changes. *)
LEMMA ChangesOne ==
  ASSUME TokensOK, NEW t \in Ids, NEW e \in Token, e.by \in 0 .. Len(tokens), tokens' = [tokens EXCEPT ![t] = e]
  PROVE  /\ TokensOK' /\ Len(tokens') = Len(tokens) /\ Len(tokens) \in Nat
         /\ tokens'[t] = e /\ \A u \in Ids \ {t} : tokens'[u] = tokens[u]
<1>1. /\ tokens' \in [Ids -> Token] /\ tokens'[t] = e
      /\ \A u \in Ids \ {t} : tokens'[u] = tokens[u]
  BY DEF TokensOK, Ids
<1>2. \A u \in Ids : tokens'[u].by \in 0 .. Len(tokens)
  BY <1>1 DEF TokensOK
<1> QED
  BY <1>1, <1>2, Changes

LEMMA RowOf == \A x \in BOOLEAN : Row(x) \in Token /\ Row(x).by = 0 /\ Row(x).revoked = "no" /\ Row(x).row = x /\ Row(x).ended = FALSE
BY DEF Row, Token

LEMMA TokenTyped ==
  ASSUME TokensOK, NEW t \in Ids
  PROVE  /\ tokens[t] \in Token /\ tokens[t].by \in 0 .. Len(tokens) /\ t \in DOMAIN tokens
         /\ Len(tokens) \in Nat
BY DEF TokensOK, Ids

(* What the browsers and the requests hold, when ids are only added. *)
LEMMA CookieStep ==
  ASSUME CookieOK, Len(tokens) \in Nat, Len(tokens') \in Nat, Len(tokens) <= Len(tokens'),
         \/ cookie' = cookie
         \/ \E b \in Browsers, t \in 0 .. Len(tokens') : cookie' = [cookie EXCEPT ![b] = t]
  PROVE  CookieOK'
BY DEF CookieOK

LEMMA CallGrows ==
  ASSUME NEW q, NEW n \in Nat, NEW m \in Nat, n <= m, Call(q, n)
  PROVE  Call(q, m)
BY DEF Call

LEMMA ReqStep ==
  ASSUME ReqOK, Len(tokens) \in Nat, Len(tokens') \in Nat, Len(tokens) <= Len(tokens'),
         \/ req' = req
         \/ \E q : \E r \in Requests : req' = [req EXCEPT ![r] = q] /\ (q = Idle \/ Call(q, Len(tokens')))
  PROVE  ReqOK'
<1>1. \A r \in Requests : req[r] = Idle \/ Call(req[r], Len(tokens'))
  BY CallGrows DEF ReqOK
<1> QED
  BY <1>1 DEF ReqOK

LEMMA Resting == Idle.at = "idle" /\ Idle.new = 0 /\ \A n : ~ Call(Idle, n)
BY DEF Idle, Call, Busys

LEMMA AtWork ==
  ASSUME Types, NEW r \in Requests, req[r].at # "idle"
  PROVE  /\ Call(req[r], Len(tokens)) /\ req[r] # Idle /\ req[r].browser \in Browsers
         /\ req[r].token \in Ids /\ req[r].new \in 0 .. Len(tokens) /\ Len(tokens) \in Nat
BY Resting DEF Types, TokensOK, ReqOK, Call, Ids

-----------------------------------------------------------------------------
(* Types. *)

LEMMA StepTypes ==
  ASSUME Types, TokensOK', Len(tokens) <= Len(tokens'),
         \/ cookie' = cookie
         \/ \E b \in Browsers, t \in 0 .. Len(tokens') : cookie' = [cookie EXCEPT ![b] = t],
         \/ req' = req
         \/ \E q : \E r \in Requests : req' = [req EXCEPT ![r] = q] /\ (q = Idle \/ Call(q, Len(tokens'))),
         account' \in BOOLEAN, disturbed' \in BOOLEAN
  PROVE  Types'
<1>1. Len(tokens) \in Nat /\ Len(tokens') \in Nat
  BY DEF Types, TokensOK
<1>2. CookieOK' /\ ReqOK'
  BY <1>1, CookieStep, ReqStep DEF Types
<1> QED
  BY <1>2 DEF Types, Flags

(* Where a request goes on, or ends. *)
LEMMA Went ==
  ASSUME Types, NEW r \in Requests, req[r].at # "idle", NEW at \in Busys, Go(r, at),
         req[r].new # 0 => at = "issue"
  PROVE  \E q : /\ req' = [req EXCEPT ![r] = q] /\ Call(q, Len(tokens)) /\ q.at = at
                /\ q.browser = req[r].browser /\ q.token = req[r].token /\ q.new = req[r].new
<1> DEFINE q == [req[r] EXCEPT !.at = at]
<1>1. req' = [req EXCEPT ![r] = q]
  BY DEF Go
<1>2. /\ q \in [at : Busys, browser : Browsers, token : 1 .. Len(tokens), new : 0 .. Len(tokens)]
      /\ q.at = at /\ q.browser = req[r].browser /\ q.token = req[r].token /\ q.new = req[r].new
  BY AtWork DEF Call
<1> HIDE DEF q
<1>3. Call(q, Len(tokens))
  BY <1>2 DEF Call
<1> QED
  BY <1>1, <1>2, <1>3

LEMMA LoginTypes ==
  ASSUME Types, NEW b \in Browsers, login(b)
  PROVE  /\ Types' /\ Len(tokens) \in Nat /\ Len(tokens') = Len(tokens) + 1
         /\ tokens'[Len(tokens) + 1] = Row(TRUE) /\ \A t \in Ids : tokens'[t] = tokens[t]
<1>1. tokens' = Append(tokens, Row(TRUE)) /\ cookie' = [cookie EXCEPT ![b] = Len(tokens) + 1]
      /\ UNCHANGED <<account, req, disturbed>>
  BY DEF login, NewId
<1>2. /\ TokensOK' /\ Len(tokens) \in Nat /\ Len(tokens') = Len(tokens) + 1
      /\ tokens'[Len(tokens) + 1] = Row(TRUE) /\ \A t \in Ids : tokens'[t] = tokens[t]
  BY <1>1, Appends, RowOf DEF Types
<1>3. Len(tokens) + 1 \in 0 .. Len(tokens') /\ Len(tokens) <= Len(tokens')
  BY <1>2
<1>4. Types'
  BY <1>1, <1>2, <1>3, StepTypes DEF Types, Flags
<1> QED
  BY <1>2, <1>4

(* A request starts from the token of its browser, or is refused at once. *)
LEMMA RefreshTypes ==
  ASSUME Types, NEW r \in Requests, NEW b \in Browsers, refresh(r, b)
  PROVE  Types'
<1> DEFINE q == [at |-> "claim", browser |-> b, token |-> cookie[b], new |-> 0]
<1>1. cookie[b] \in Ids /\ Len(tokens) \in Nat
  BY DEF refresh, Types, CookieOK, TokensOK, Ids
<1>2. Call(q, Len(tokens))
  BY <1>1 DEF Call, Busys, Ids
<1>3. \/ req' = [req EXCEPT ![r] = q] /\ cookie' = cookie
      \/ cookie' = [cookie EXCEPT ![b] = 0] /\ req' = req
  BY DEF refresh
<1>4. UNCHANGED <<tokens, account, disturbed>>
  BY DEF refresh, data
<1> HIDE DEF q
<1>5. TokensOK'
  BY <1>4 DEF Types, TokensOK, Ids
<1> QED
  BY <1>1, <1>2, <1>3, <1>4, <1>5, StepTypes DEF Types, Flags

LEMMA SeqExcept ==
  ASSUME NEW s \in Seq(Token), NEW t \in 1 .. Len(s), NEW e \in Token
  PROVE  /\ [s EXCEPT ![t] = e] \in Seq(Token) /\ Len([s EXCEPT ![t] = e]) = Len(s)
         /\ [s EXCEPT ![t] = e][t] = e /\ \A u \in (1 .. Len(s)) \ {t} : [s EXCEPT ![t] = e][u] = s[u]
OBVIOUS

(* A claim revokes the token for one that has an id and no row yet. *)
LEMMA Claims ==
  ASSUME TokensOK, NEW t \in Ids, tokens' = [Drawn EXCEPT ![t] = Claimed(@, NewId)]
  PROVE  /\ TokensOK' /\ Len(tokens) \in Nat /\ Len(tokens') = Len(tokens) + 1
         /\ tokens'[t] = Claimed(tokens[t], Len(tokens) + 1)
         /\ tokens'[Len(tokens) + 1] = Row(FALSE) /\ \A u \in Ids \ {t} : tokens'[u] = tokens[u]
<1> DEFINE n == Len(tokens) + 1
           s == Append(tokens, Row(FALSE))
           e == Claimed(tokens[t], n)
<1> DEFINE row == Row(FALSE)
<1>1. Len(tokens) \in Nat /\ n \in Nat /\ t \in 1 .. Len(tokens) /\ tokens[t] \in Token
  BY TokenTyped DEF Ids
<1>2. row \in Token /\ row.by = 0
  BY RowOf
<1>3. e \in Token /\ e.by = n
  BY <1>1 DEF Claimed, Token
<1> HIDE DEF row
<1>8. /\ s \in Seq(Token) /\ Len(s) = n /\ s[n] = row
      /\ \A u \in 1 .. Len(tokens) : s[u] = tokens[u]
  <2>1. s = Append(tokens, row)
    BY DEF row
  <2> HIDE DEF s
  <2> QED
    BY <1>1, <1>2, <2>1 DEF TokensOK
<1>4. tokens' = [s EXCEPT ![t] = e]
  BY <1>1, <1>8 DEF Drawn, NewId, row
<1> HIDE DEF s, e
<1>5. /\ tokens' \in Seq(Token) /\ Len(tokens') = n /\ tokens'[t] = e /\ tokens'[n] = row
      /\ \A u \in Ids \ {t} : tokens'[u] = tokens[u]
  <2>1. t \in 1 .. n /\ n \in (1 .. n) \ {t} /\ \A u \in Ids \ {t} : u \in (1 .. n) \ {t}
    BY <1>1 DEF Ids
  <2> HIDE DEF n
  <2>2. /\ tokens' \in Seq(Token) /\ Len(tokens') = n /\ tokens'[t] = e
        /\ \A u \in (1 .. n) \ {t} : tokens'[u] = s[u]
    <3>1. s \in Seq(Token) /\ t \in 1 .. Len(s) /\ e \in Token /\ Len(s) = n
      BY <1>3, <1>8, <2>1
    <3> QED
      BY ONLY <1>4, <3>1, SeqExcept
  <2> QED
    BY <1>8, <2>1, <2>2 DEF Ids
<1>6. ASSUME NEW u \in 1 .. n PROVE tokens'[u].by \in 0 .. n
  <2>1. CASE u \in Ids \ {t}
    <3>1. tokens[u].by \in 0 .. Len(tokens)
      BY <2>1 DEF TokensOK
    <3>2. tokens'[u] = tokens[u]
      BY <1>5, <2>1
    <3> QED
      BY <1>1, <3>1, <3>2
  <2>2. CASE u = t \/ u = n
    BY <1>1, <1>2, <1>3, <1>5, <2>2
  <2> QED
    BY <1>1, <2>1, <2>2 DEF Ids
<1>7. TokensOK'
  BY <1>5, <1>6 DEF TokensOK, Ids
<1> QED
  BY <1>1, <1>5, <1>7 DEF e, row

LEMMA ClaimTypes ==
  ASSUME Types, NEW r \in Requests, claim(r)
  PROVE  /\ Types' /\ req[r].at # "idle" /\ cookie' = cookie
         /\ \/ /\ tokens' = tokens /\ ~ (tokens[req[r].token].row /\ tokens[req[r].token].revoked = "no")
               /\ \E q : /\ req' = [req EXCEPT ![r] = q] /\ Call(q, Len(tokens)) /\ q.at = "reread"
                         /\ q.browser = req[r].browser /\ q.token = req[r].token /\ q.new = req[r].new
            \/ /\ tokens[req[r].token].row /\ tokens[req[r].token].revoked = "no"
               /\ tokens' = [Drawn EXCEPT ![req[r].token] = Claimed(@, NewId)]
               /\ \E q : /\ req' = [req EXCEPT ![r] = q] /\ Call(q, Len(tokens')) /\ q.at = "issue"
                         /\ q.browser = req[r].browser /\ q.token = req[r].token /\ q.new = Len(tokens) + 1
<1>1. req[r].at = "claim" /\ UNCHANGED <<account, cookie, disturbed>>
  BY DEF claim
<1>2. Call(req[r], Len(tokens)) /\ req[r].new = 0 /\ req[r].token \in Ids /\ Len(tokens) \in Nat
  BY <1>1, AtWork DEF Call
<1>3. CASE tokens[req[r].token].row /\ tokens[req[r].token].revoked = "no"
  <2> DEFINE n == Len(tokens) + 1
             q == [req[r] EXCEPT !.at = "issue", !.new = n]
  <2>1. tokens' = [Drawn EXCEPT ![req[r].token] = Claimed(@, NewId)] /\ req' = [req EXCEPT ![r] = q]
    BY <1>3 DEF claim, NewId
  <2>2. TokensOK' /\ Len(tokens') = n
    BY <1>2, <2>1, Claims DEF Types
  <2>3. /\ q \in [at : Busys, browser : Browsers, token : 1 .. n, new : 0 .. n]
        /\ q.at = "issue" /\ q.browser = req[r].browser /\ q.token = req[r].token /\ q.new = n
    <3>1. n \in 0 .. n /\ req[r].token \in 1 .. n /\ "issue" \in Busys
      BY <1>2 DEF Ids, Busys
    <3>2. req[r] \in [at : Busys, browser : Browsers, token : 1 .. Len(tokens), new : 0 .. Len(tokens)]
      BY <1>2 DEF Call
    <3> HIDE DEF n
    <3> QED
      BY <3>1, <3>2
  <2> HIDE DEF q, n
  <2>4. Call(q, Len(tokens'))
    BY <2>2, <2>3 DEF Call
  <2>5. Len(tokens) <= Len(tokens')
    BY <1>2, <2>2 DEF n
  <2>6. Types'
    BY <1>1, <2>1, <2>2, <2>4, <2>5, StepTypes DEF Types, Flags
  <2> QED
    BY <1>1, <1>3, <2>1, <2>3, <2>4, <2>6 DEF n
<1>4. CASE ~ (tokens[req[r].token].row /\ tokens[req[r].token].revoked = "no")
  <2>1. Go(r, "reread") /\ tokens' = tokens
    BY <1>4 DEF claim
  <2>2. PICK q : /\ req' = [req EXCEPT ![r] = q] /\ Call(q, Len(tokens)) /\ q.at = "reread"
                 /\ q.browser = req[r].browser /\ q.token = req[r].token /\ q.new = req[r].new
    BY <1>1, <1>2, <2>1, Went DEF Busys
  <2>3. Types'
    <3>1. TokensOK' /\ Call(q, Len(tokens')) /\ Len(tokens) <= Len(tokens')
      BY <1>2, <2>1, <2>2 DEF Types, TokensOK, Ids
    <3> QED
      BY <1>1, <2>2, <3>1, StepTypes DEF Types, Flags
  <2> QED
    BY <1>1, <1>4, <2>1, <2>2, <2>3
<1> QED
  BY <1>3, <1>4

(* A request goes on, and the rows stay. *)
LEMMA GoesTypes ==
  ASSUME Types, NEW r \in Requests, NEW q, req' = [req EXCEPT ![r] = q], q = Idle \/ Call(q, Len(tokens)),
         UNCHANGED <<tokens, cookie, account>>, disturbed' \in BOOLEAN
  PROVE  Types'
<1>1. TokensOK' /\ Len(tokens) <= Len(tokens')
  BY DEF Types, TokensOK, Ids
<1> QED
  BY <1>1, StepTypes DEF Types, Flags

LEMMA RereadTypes ==
  ASSUME Types, NEW r \in Requests, reread(r)
  PROVE  /\ Types' /\ req[r].at = "reread" /\ UNCHANGED <<tokens, cookie, account, signedIn, disturbed>>
         /\ \E q : /\ req' = [req EXCEPT ![r] = q] /\ Call(q, Len(tokens)) /\ q.browser = req[r].browser
                   /\ q.token = req[r].token /\ q.new = req[r].new
                   /\ \/ q.at = "revokeAll"
                      \/ q.at = "issue" /\ tokens[q.token].revoked = "now"
                   /\ q.at = "revokeAll" => ~ Good(req[r].token) \/ tokens[req[r].token].revoked # "now"
<1> DEFINE t == tokens[req[r].token]
           at == IF t.row /\ t.by # 0 /\ t.revoked = "now" THEN "issue" ELSE "revokeAll"
<1>1. req[r].at = "reread" /\ UNCHANGED <<tokens, cookie, account, signedIn, disturbed>> /\ Go(r, at)
  BY DEF reread, data
<1>2. at \in Busys /\ req[r].new = 0
  BY <1>1, AtWork DEF Busys, Call
<1>3. PICK q : /\ req' = [req EXCEPT ![r] = q] /\ Call(q, Len(tokens)) /\ q.at = at
               /\ q.browser = req[r].browser /\ q.token = req[r].token /\ q.new = req[r].new
  BY <1>1, <1>2, Went
<1>4. Types'
  BY <1>1, <1>3, GoesTypes DEF Types, Flags
<1> QED
  BY <1>1, <1>3, <1>4 DEF Good

LEMMA RevokeTypes ==
  ASSUME Types, NEW r \in Requests, revokeAll(r)
  PROVE  Types'
<1>1. tokens' = [t \in DOMAIN tokens |->
                   IF tokens[t].row /\ tokens[t].revoked = "no" THEN [tokens[t] EXCEPT !.revoked = "now"] ELSE tokens[t]]
      /\ req' = [req EXCEPT ![r] = Idle] /\ cookie' = [cookie EXCEPT ![req[r].browser] = 0]
      /\ UNCHANGED <<account, disturbed>> /\ req[r].at = "revokeAll"
  BY DEF revokeAll, Answer
<1>2. DOMAIN tokens = Ids /\ req[r].browser \in Browsers
  BY <1>1, AtWork DEF Types, TokensOK, Ids
<1>3. ASSUME NEW t \in Ids PROVE tokens'[t] \in Token /\ tokens'[t].by \in 0 .. Len(tokens)
  BY <1>1, <1>2, TokenTyped DEF Token, Types
<1>4. tokens' \in [Ids -> Token]
  BY <1>1, <1>2, <1>3
<1>5. TokensOK' /\ Len(tokens') = Len(tokens) /\ Len(tokens) \in Nat
  BY <1>3, <1>4, Changes DEF Types
<1>6. 0 \in 0 .. Len(tokens') /\ Len(tokens) <= Len(tokens')
  BY <1>5
<1> QED
  BY <1>1, <1>2, <1>5, <1>6, StepTypes DEF Types, Flags

LEMMA IssueTypes ==
  ASSUME Types, NEW r \in Requests, issueTokens(r)
  PROVE  /\ Types' /\ req[r].at = "issue" /\ req' = [req EXCEPT ![r] = Idle] /\ req[r].browser \in Browsers
         /\ UNCHANGED <<account, signedIn, disturbed>> /\ Len(tokens) \in Nat
         /\ \/ ~ account /\ UNCHANGED <<tokens, cookie>>
            \/ /\ req[r].new \in Ids /\ cookie' = [cookie EXCEPT ![req[r].browser] = req[r].new]
               /\ Len(tokens') = Len(tokens)
               /\ tokens'[req[r].new] = [tokens[req[r].new] EXCEPT !.row = TRUE]
               /\ \A t \in Ids \ {req[r].new} : tokens'[t] = tokens[t]
            \/ /\ req[r].new = 0 /\ cookie' = [cookie EXCEPT ![req[r].browser] = Len(tokens) + 1]
               /\ Len(tokens') = Len(tokens) + 1 /\ tokens'[Len(tokens) + 1] = Row(TRUE)
               /\ \A t \in Ids : tokens'[t] = tokens[t]
<1> DEFINE n == req[r].new
           b == req[r].browser
<1>1. req[r].at = "issue" /\ UNCHANGED <<account, signedIn, disturbed>>
  BY DEF issueTokens
<1>2. b \in Browsers /\ n \in 0 .. Len(tokens) /\ Len(tokens) \in Nat
  BY <1>1, AtWork
<1>3. CASE ~ account
  <2>1. req' = [req EXCEPT ![r] = Idle] /\ UNCHANGED <<tokens, cookie>>
    BY <1>3 DEF issueTokens
  <2> QED
    BY <1>1, <1>2, <1>3, <2>1, GoesTypes DEF Types, Flags
<1>4. CASE account /\ n # 0
  <2>1. /\ tokens' = [tokens EXCEPT ![n].row = TRUE] /\ req' = [req EXCEPT ![r] = Idle]
        /\ cookie' = [cookie EXCEPT ![b] = n] /\ n \in Ids
    BY <1>2, <1>4 DEF issueTokens, Answer, Ids
  <2> DEFINE e == [tokens[n] EXCEPT !.row = TRUE]
  <2>2. e \in Token /\ e.by \in 0 .. Len(tokens) /\ tokens' = [tokens EXCEPT ![n] = e]
    BY <2>1, TokenTyped DEF Token, Types
  <2> HIDE DEF e
  <2>3. /\ TokensOK' /\ Len(tokens') = Len(tokens) /\ tokens'[n] = e
        /\ \A t \in Ids \ {n} : tokens'[t] = tokens[t]
    BY <2>1, <2>2, ChangesOne DEF Types
  <2>5. n \in 0 .. Len(tokens') /\ Len(tokens) <= Len(tokens')
    BY <1>2, <2>3
  <2>4. Types'
    BY <1>1, <1>2, <2>1, <2>3, <2>5, StepTypes DEF Types, Flags
  <2> QED
    BY <1>1, <1>2, <1>4, <2>1, <2>3, <2>4 DEF e
<1>5. CASE account /\ n = 0
  <2>1. /\ tokens' = Append(tokens, Row(TRUE)) /\ req' = [req EXCEPT ![r] = Idle]
        /\ cookie' = [cookie EXCEPT ![b] = Len(tokens) + 1]
    BY <1>5 DEF issueTokens, Answer, NewId
  <2>2. /\ TokensOK' /\ Len(tokens') = Len(tokens) + 1
        /\ tokens'[Len(tokens) + 1] = Row(TRUE) /\ \A t \in Ids : tokens'[t] = tokens[t]
    BY <2>1, Appends, RowOf DEF Types
  <2>3. Len(tokens) + 1 \in 0 .. Len(tokens') /\ Len(tokens) <= Len(tokens')
    BY <1>2, <2>2
  <2>4. Types'
    BY <1>1, <1>2, <2>1, <2>2, <2>3, StepTypes DEF Types, Flags
  <2> QED
    BY <1>1, <1>2, <1>5, <2>1, <2>2, <2>4
<1> QED
  BY <1>3, <1>4, <1>5 DEF Types, Flags

LEMMA LogoutTypes ==
  ASSUME Types, NEW b \in Browsers, logout(b)
  PROVE  /\ Types' /\ cookie[b] \in Ids /\ cookie' = [cookie EXCEPT ![b] = 0]
         /\ req' = req /\ account' = account /\ signedIn' = signedIn \ {b}
         /\ (disturbed' <=> disturbed \/ Busy(b)) /\ Len(tokens') = Len(tokens)
         /\ \A t \in Ids \ {cookie[b]} : tokens'[t] = tokens[t]
<1> DEFINE t == cookie[b]
           e == [tokens[t] EXCEPT !.revoked = "now"]
<1>1. /\ t # 0 /\ cookie' = [cookie EXCEPT ![b] = 0] /\ signedIn' = signedIn \ {b}
      /\ disturbed' = (disturbed \/ Busy(b)) /\ req' = req /\ account' = account
      /\ tokens' = tokens \/ tokens' = [tokens EXCEPT ![t] = e]
  BY DEF logout
<1>2. t \in Ids /\ Len(tokens) \in Nat
  BY <1>1 DEF Types, CookieOK, TokensOK, Ids
<1>3. e \in Token /\ e.by \in 0 .. Len(tokens)
  BY <1>2, TokenTyped DEF Token, Types
<1> HIDE DEF e
<1>4. TokensOK' /\ Len(tokens') = Len(tokens) /\ \A u \in Ids \ {t} : tokens'[u] = tokens[u]
  <2>1. CASE tokens' = tokens
    BY <2>1 DEF Types, TokensOK, Ids
  <2>2. CASE tokens' = [tokens EXCEPT ![t] = e]
    BY <1>2, <1>3, <2>2, ChangesOne DEF Types
  <2> QED
    BY <1>1, <2>1, <2>2
<1>5. disturbed' \in BOOLEAN
  BY <1>1 DEF Types, Flags, Busy
<1>6. Types'
  <2> HIDE DEF t
  <2>1. account' \in BOOLEAN /\ Len(tokens) <= Len(tokens') /\ 0 \in 0 .. Len(tokens')
    BY <1>1, <1>2, <1>4 DEF Types, Flags
  <2> QED
    BY <1>1, <1>4, <1>5, <2>1, StepTypes
<1> QED
  BY <1>1, <1>2, <1>4, <1>6

LEMMA RemoveTypes == ASSUME Types, remove PROVE Types' /\ disturbed'
<1>1. tokens' = [t \in DOMAIN tokens |-> [tokens[t] EXCEPT !.row = FALSE]]
      /\ UNCHANGED <<cookie, req>> /\ account' = FALSE /\ disturbed' = TRUE
  BY DEF remove
<1>2. DOMAIN tokens = Ids
  BY DEF Types, TokensOK, Ids
<1>3. ASSUME NEW t \in Ids PROVE tokens'[t] \in Token /\ tokens'[t].by \in 0 .. Len(tokens)
  BY <1>1, <1>2, TokenTyped DEF Token, Types
<1>4. tokens' \in [Ids -> Token]
  BY <1>1, <1>2, <1>3
<1>5. TokensOK' /\ Len(tokens') = Len(tokens) /\ Len(tokens) \in Nat
  BY <1>3, <1>4, Changes DEF Types
<1>6. Len(tokens) <= Len(tokens')
  BY <1>5
<1> QED
  BY <1>1, <1>5, <1>6, StepTypes

LEMMA GraceTypes ==
  ASSUME Types, GraceEnds
  PROVE  /\ Types' /\ UNCHANGED <<account, cookie, req, signedIn>> /\ Len(tokens') = Len(tokens)
         /\ (disturbed' <=> disturbed \/ \E b \in Browsers : Busy(b))
         /\ \A t \in Ids : tokens[t].revoked = "no" => tokens'[t] = tokens[t]
<1>1. tokens' = [t \in DOMAIN tokens |->
                   IF tokens[t].revoked = "now" THEN [tokens[t] EXCEPT !.revoked = "long"] ELSE tokens[t]]
      /\ UNCHANGED <<account, cookie, req, signedIn>>
      /\ disturbed' = (disturbed \/ \E b \in Browsers : Busy(b))
  BY DEF GraceEnds
<1>2. DOMAIN tokens = Ids
  BY DEF Types, TokensOK, Ids
<1>3. ASSUME NEW t \in Ids PROVE tokens'[t] \in Token /\ tokens'[t].by \in 0 .. Len(tokens)
  BY <1>1, <1>2, TokenTyped DEF Token, Types
<1>4. tokens' \in [Ids -> Token]
  BY <1>1, <1>2, <1>3
<1>5. TokensOK' /\ Len(tokens') = Len(tokens) /\ Len(tokens) \in Nat
  BY <1>3, <1>4, Changes DEF Types
<1>6. disturbed' \in BOOLEAN
  BY <1>1 DEF Types, Flags
<1>7. Types'
  BY <1>1, <1>5, <1>6, StepTypes DEF Types, Flags
<1> QED
  BY <1>1, <1>2, <1>5, <1>7

LEMMA FaultTypes ==
  ASSUME Types, (\E t \in DOMAIN tokens : Ends(t)) \/ (\E r \in Requests : Lose(r))
  PROVE  Types' /\ disturbed'
<1>1. ASSUME NEW t \in DOMAIN tokens, Ends(t) PROVE Types' /\ disturbed'
  <2> DEFINE e == [tokens[t] EXCEPT !.ended = TRUE]
  <2>1. tokens' = [tokens EXCEPT ![t] = e] /\ UNCHANGED <<account, cookie, req>> /\ disturbed' = TRUE
    BY <1>1 DEF Ends, Fault
  <2>2. t \in Ids
    BY DEF Types, TokensOK, Ids
  <2>3. e \in Token /\ e.by \in 0 .. Len(tokens)
    BY <2>2, TokenTyped DEF Token, Types
  <2> HIDE DEF e
  <2>4. TokensOK' /\ Len(tokens') = Len(tokens) /\ Len(tokens) \in Nat
    BY <2>1, <2>2, <2>3, ChangesOne DEF Types
  <2> QED
    BY <2>1, <2>4, StepTypes DEF Types, Flags
<1>2. ASSUME NEW r \in Requests, Lose(r) PROVE Types' /\ disturbed'
  BY <1>2, GoesTypes DEF Lose, Fault, data, Types, Flags
<1> QED
  BY <1>1, <1>2

LEMMA NextTypes == ASSUME Types, [Next]_vars PROVE Types'
<1>1. ASSUME UNCHANGED vars PROVE Types'
  BY <1>1 DEF vars, data, Types, TokensOK, CookieOK, ReqOK, Flags, Ids
<1> QED
  BY <1>1, LoginTypes, LogoutTypes, RefreshTypes, ClaimTypes, RereadTypes, RevokeTypes, IssueTypes,
     RemoveTypes, GraceTypes, FaultTypes DEF Next

LEMMA InitTypes == Init => Types
<1> SUFFICES ASSUME Init PROVE Types
  OBVIOUS
<1>1. TokensOK /\ Len(tokens) = 0
  BY DEF Init, TokensOK, Ids
<1>2. CookieOK
  BY <1>1 DEF Init, CookieOK
<1>3. ReqOK /\ Flags
  BY DEF Init, ReqOK, Flags
<1> QED
  BY <1>1, <1>2, <1>3 DEF Types

LEMMA AlwaysTypes == Spec => []Types
BY InitTypes, NextTypes, PTL DEF Spec

(* A browser's token and a token's replacement are ids that were drawn, and a  *)
(* request is at a step of AuthService.refresh.                                *)
THEOREM SessionTypes == Spec => []TypeOK
<1>1. Types => TypeOK
  <2> SUFFICES ASSUME Types PROVE TypeOK
    OBVIOUS
  <2>1. \A t \in DOMAIN tokens : tokens[t].by \in 0 .. Len(tokens) /\ tokens[t].revoked \in {"no", "now", "long"}
    <3>1. \A t \in DOMAIN tokens : t \in Ids
      BY DEF Types, TokensOK, Ids
    <3> QED
      BY <3>1, TokenTyped DEF Types, Token
  <2>2. \A r \in Requests : req[r].at \in {"idle", "claim", "reread", "revokeAll", "issue"}
    BY DEF Types, ReqOK, Idle, Call, Busys
  <2> QED
    BY <2>1, <2>2 DEF Types, CookieOK, TypeOK
<1> QED
  BY <1>1, AlwaysTypes, PTL

-----------------------------------------------------------------------------
(* What is true until a session is disturbed. *)

\* The tokens of a browser: the one it keeps, and those of its requests.
Holds(b, t) ==
  /\ t # 0
  /\ \/ cookie[b] = t
     \/ \E r \in Requests : req[r].at # "idle" /\ req[r].browser = b /\ (req[r].token = t \/ req[r].new = t)

Apart == \A b, c \in Browsers : \A t \in Ids : Holds(b, t) /\ Holds(c, t) => b = c
Signed ==
  /\ signedIn \subseteq Browsers
  /\ \A b \in Browsers : (cookie[b] # 0 <=> b \in signedIn) /\ (Busy(b) => b \in signedIn)
FitCookie ==
  \A b \in Browsers : cookie[b] # 0 => Good(cookie[b]) /\ (Busy(b) \/ tokens[cookie[b]].revoked = "no")
FitReq ==
  \A r \in Requests : req[r].at # "idle" =>
    /\ Good(req[r].token) /\ req[r].at # "revokeAll"
    /\ req[r].at = "reread" => tokens[req[r].token].revoked = "now"
Fresh ==
  \A r \in Requests : req[r].new # 0 =>
    /\ ~ tokens[req[r].new].row /\ ~ tokens[req[r].new].ended /\ tokens[req[r].new].revoked = "no"
    /\ \A s \in Requests \ {r} : req[s].new # req[r].new
Calm == account /\ Signed /\ FitCookie /\ FitReq /\ Fresh /\ Apart
KeptInv == disturbed \/ Calm

LEMMA HeldIds ==
  ASSUME Types, NEW b \in Browsers, NEW t, Holds(b, t)
  PROVE  t \in Ids /\ Len(tokens) \in Nat
<1>1. Len(tokens) \in Nat
  BY DEF Types, TokensOK
<1>2. CASE cookie[b] = t
  BY <1>1, <1>2 DEF Holds, Types, CookieOK, Ids
<1>3. CASE \E r \in Requests : req[r].at # "idle" /\ (req[r].token = t \/ req[r].new = t)
  BY <1>1, <1>3, AtWork DEF Holds, Ids
<1> QED
  BY <1>1, <1>2, <1>3 DEF Holds

(* Nobody comes to hold a token but one that is drawn. *)
LEMMA ApartStep ==
  ASSUME Types, Types', Apart, NEW b,
         \A c \in Browsers : \A t : Holds(c, t)' => Holds(c, t) \/ (t = Len(tokens) + 1 /\ c = b)
  PROVE  Apart'
<1>1. \A c \in Browsers : \A t : Holds(c, t) => t \in Ids /\ t # Len(tokens) + 1
  BY HeldIds DEF Ids
<1>2. ASSUME NEW c \in Browsers, NEW d \in Browsers, NEW t, Holds(c, t)', Holds(d, t)' PROVE c = d
  BY <1>1, <1>2 DEF Apart
<1> QED
  BY <1>2 DEF Apart

LEMMA OneReq ==
  ASSUME Types, NEW r \in Requests, NEW q, req' = [req EXCEPT ![r] = q]
  PROVE  req'[r] = q /\ \A s \in Requests \ {r} : req'[s] = req[s]
BY DEF Types, ReqOK

LEMMA OneCookie ==
  ASSUME Types, NEW b \in Browsers, NEW t, cookie' = [cookie EXCEPT ![b] = t]
  PROVE  cookie'[b] = t /\ \A c \in Browsers \ {b} : cookie'[c] = cookie[c]
BY DEF Types, CookieOK

(* A request goes on with its browser's token, and the rows stay. *)
LEMMA GoesCalm ==
  ASSUME Types, Calm, Types', UNCHANGED <<tokens, cookie, account, signedIn>>,
         NEW r \in Requests, NEW q, req' = [req EXCEPT ![r] = q], Call(q, Len(tokens)),
         q.new = 0, q.browser \in signedIn, Holds(q.browser, q.token),
         req[r].at # "idle" => req[r].browser = q.browser,
         Good(q.token), q.at # "revokeAll", q.at = "reread" => tokens[q.token].revoked = "now"
  PROVE  Calm'
<1>1. req'[r] = q /\ \A s \in Requests \ {r} : req'[s] = req[s]
  BY OneReq
<1>2. q.at # "idle"
  BY DEF Call, Busys
<1>3. \A b \in Browsers : (Busy(b) => Busy(b)') /\ (Busy(b)' => Busy(b) \/ b = q.browser)
  BY <1>1, <1>2 DEF Busy
<1>4. Signed'
  BY <1>3 DEF Calm, Signed
<1>5. \A t : Good(t)' <=> Good(t)
  BY DEF Good
<1>6. FitCookie'
  BY <1>3, <1>5 DEF Calm, FitCookie
<1>7. FitReq'
  <2>1. ASSUME NEW s \in Requests, req'[s].at # "idle"
        PROVE  /\ Good(req'[s].token) /\ req'[s].at # "revokeAll"
               /\ req'[s].at = "reread" => tokens[req'[s].token].revoked = "now"
    BY <1>1, <2>1 DEF Calm, FitReq
  <2> QED
    BY <2>1 DEF FitReq, Good
<1>8. Fresh'
  BY <1>1 DEF Calm, Fresh
<1>9. ASSUME NEW c \in Browsers, NEW t, Holds(c, t)' PROVE Holds(c, t)
  BY <1>1, <1>9 DEF Holds
<1>10. Apart'
  BY <1>9, ApartStep DEF Calm
<1> QED
  BY <1>4, <1>6, <1>7, <1>8, <1>10 DEF Calm

(* A new row is the browser's own token: the browser had none, or its request  *)
(* ends with it.                                                               *)
LEMMA NewCalm ==
  ASSUME Types, Calm, Types', UNCHANGED account, NEW b \in Browsers,
         signedIn' = signedIn \cup {b}, cookie' = [cookie EXCEPT ![b] = Len(tokens) + 1],
         req' = req \/ \E r \in Requests : /\ req' = [req EXCEPT ![r] = Idle]
                                           /\ req[r].at # "idle" /\ req[r].browser = b,
         tokens'[Len(tokens) + 1] = Row(TRUE), \A t \in Ids : tokens'[t] = tokens[t]
  PROVE  Calm'
<1> DEFINE n == Len(tokens) + 1
<1>1. Len(tokens) \in Nat /\ n # 0 /\ cookie'[b] = n /\ \A c \in Browsers \ {b} : cookie'[c] = cookie[c]
  <2>1. Len(tokens) \in Nat
    BY DEF Types, TokensOK
  <2>2. n # 0
    BY <2>1
  <2> QED
    BY <2>1, <2>2, OneCookie
<1>2. \A s \in Requests : req'[s] = req[s] \/ (req'[s] = Idle /\ req[s].at # "idle" /\ req[s].browser = b)
  <2>1. CASE req' = req
    BY <2>1
  <2>2. ASSUME NEW r \in Requests, req' = [req EXCEPT ![r] = Idle], req[r].at # "idle", req[r].browser = b
        PROVE  \A s \in Requests : req'[s] = req[s] \/ (req'[s] = Idle /\ req[s].at # "idle" /\ req[s].browser = b)
    <3>1. req'[r] = Idle /\ \A s \in Requests \ {r} : req'[s] = req[s]
      BY <2>2, OneReq
    <3> QED
      BY <2>2, <3>1
  <2> QED
    BY <2>1, <2>2
<1>3. /\ \A c \in Browsers : Busy(c)' => Busy(c)
      /\ \A c \in Browsers \ {b} : Busy(c) => Busy(c)'
  BY <1>2, Resting DEF Busy
<1>4. tokens'[n].row /\ ~ tokens'[n].ended /\ tokens'[n].revoked = "no"
  BY RowOf
<1>5. \A t \in Ids : Good(t) => Good(t)'
  BY DEF Good
<1> HIDE DEF n
<1>6. Signed'
  BY <1>1, <1>3 DEF Calm, Signed
<1>7. FitCookie'
  <2>1. ASSUME NEW c \in Browsers \ {b}, cookie[c] # 0
        PROVE  Good(cookie[c])' /\ (Busy(c)' \/ tokens'[cookie[c]].revoked = "no")
    <3>1. cookie[c] \in Ids
      BY <1>1, <2>1 DEF Types, CookieOK, Ids
    <3> QED
      BY <1>1, <1>3, <1>5, <2>1, <3>1 DEF Calm, FitCookie, Good
  <2> QED
    BY <1>1, <1>4, <2>1 DEF FitCookie, Good
<1>8. FitReq'
  <2>1. ASSUME NEW s \in Requests, req'[s].at # "idle" PROVE req'[s] = req[s] /\ req[s].token \in Ids
    BY <1>2, <2>1, Resting, AtWork
  <2> QED
    BY <1>5, <2>1 DEF Calm, FitReq, Good
<1>9. Fresh'
  <2>1. ASSUME NEW s \in Requests, req'[s].new # 0 PROVE req'[s] = req[s] /\ req[s].new \in Ids
    <3>1. req'[s] = req[s] /\ req[s] # Idle
      BY <1>2, <2>1, Resting
    <3> QED
      BY <1>1, <2>1, <3>1 DEF Types, ReqOK, Call, Ids
  <2> QED
    BY <1>2, <2>1, Resting DEF Calm, Fresh
<1>10. ASSUME NEW c \in Browsers, NEW t, Holds(c, t)' PROVE Holds(c, t) \/ (t = n /\ c = b)
  BY <1>1, <1>2, <1>10, Resting DEF Holds
<1>11. Apart'
  BY <1>10, ApartStep DEF Calm, n
<1> QED
  BY <1>6, <1>7, <1>8, <1>9, <1>11 DEF Calm

LEMMA LoginCalm == ASSUME Types, Calm, NEW b \in Browsers, login(b) PROVE Calm'
<1>1. /\ cookie' = [cookie EXCEPT ![b] = Len(tokens) + 1] /\ signedIn' = signedIn \cup {b}
      /\ UNCHANGED <<account, req>>
  BY DEF login, NewId
<1> QED
  BY <1>1, LoginTypes, NewCalm

LEMMA RefreshCalm ==
  ASSUME Types, Calm, NEW r \in Requests, NEW b \in Browsers, refresh(r, b) PROVE Calm'
<1> PICK t : t = cookie[b]
  OBVIOUS
<1> DEFINE q == [at |-> "claim", browser |-> b, token |-> t, new |-> 0]
<1>1. t # 0 /\ Good(t) /\ b \in signedIn
  BY DEF refresh, Calm, FitCookie, Signed
<1>2. /\ req' = [req EXCEPT ![r] = q] /\ UNCHANGED <<tokens, cookie, account, signedIn>> /\ req[r].at = "idle"
  BY <1>1 DEF refresh, Good, data
<1>3. t \in 1 .. Len(tokens)
  BY <1>1 DEF Types, CookieOK, TokensOK
<1>4. Call(q, Len(tokens))
  <2>1. 0 \in 0 .. Len(tokens)
    BY DEF Types, TokensOK
  <2> QED
    BY <1>3, <2>1 DEF Call, Busys
<1>5. q.new = 0 /\ q.browser = b /\ q.token = t /\ q.at = "claim" /\ Holds(b, t)
  BY <1>1 DEF Holds
<1> HIDE DEF q
<1>6. Types'
  BY RefreshTypes
<1> QED
  BY <1>1, <1>2, <1>4, <1>5, <1>6, GoesCalm

(* The browser of a request is signed in, and holds the request's token. *)
LEMMA RequestOf ==
  ASSUME Types, Calm, NEW r \in Requests, req[r].at # "idle"
  PROVE  /\ req[r].browser \in signedIn /\ Busy(req[r].browser) /\ Holds(req[r].browser, req[r].token)
         /\ req[r].token \in Ids /\ Good(req[r].token) /\ req[r].at # "revokeAll"
<1>1. req[r].browser \in Browsers /\ req[r].token \in Ids /\ req[r].token # 0
  BY AtWork DEF Ids
<1>2. Busy(req[r].browser)
  BY DEF Busy
<1> QED
  BY <1>1, <1>2 DEF Calm, Signed, FitReq, Holds

LEMMA RereadCalm ==
  ASSUME Types, Calm, NEW r \in Requests, reread(r) PROVE Calm'
<1>1. /\ Types' /\ req[r].at = "reread" /\ UNCHANGED <<tokens, cookie, account, signedIn, disturbed>>
      /\ Good(req[r].token) /\ tokens[req[r].token].revoked = "now" /\ req[r].new = 0
  BY RereadTypes, AtWork DEF Calm, FitReq, Call
<1>2. PICK q : /\ req' = [req EXCEPT ![r] = q] /\ Call(q, Len(tokens)) /\ q.browser = req[r].browser
               /\ q.token = req[r].token /\ q.new = req[r].new /\ q.at = "issue"
  BY <1>1, RereadTypes
<1> QED
  BY <1>1, <1>2, RequestOf, GoesCalm

LEMMA ClaimedOf ==
  ASSUME NEW e \in Token, NEW n \in Nat
  PROVE  /\ Claimed(e, n).row = e.row /\ Claimed(e, n).ended = e.ended
         /\ Claimed(e, n).revoked = "now" /\ Claimed(e, n).by = n
BY DEF Claimed, Token

(* The claim that wins: the token it revokes stays good for those that lose.   *)
LEMMA WinCalm ==
  ASSUME Types, Calm, Types', UNCHANGED <<cookie, account, signedIn>>, NEW r \in Requests, req[r].at # "idle",
         tokens' = [Drawn EXCEPT ![req[r].token] = Claimed(@, NewId)], tokens[req[r].token].revoked = "no",
         NEW q, req' = [req EXCEPT ![r] = q], Call(q, Len(tokens')), q.at = "issue",
         q.browser = req[r].browser, q.token = req[r].token, q.new = Len(tokens) + 1
  PROVE  Calm'
<1> PICK n, b, t : n = Len(tokens) + 1 /\ b = req[r].browser /\ t = req[r].token
  OBVIOUS
<1>1. /\ Len(tokens) \in Nat /\ tokens'[t] = Claimed(tokens[t], n) /\ tokens'[n] = Row(FALSE)
      /\ \A u \in Ids \ {t} : tokens'[u] = tokens[u]
  BY RequestOf, Claims DEF Types
<1>2. b \in Browsers /\ b \in signedIn /\ Holds(b, t) /\ t \in Ids /\ Good(t) /\ tokens[t] \in Token /\ n \in Nat \ {0}
      /\ n \notin Ids
  BY <1>1, RequestOf, AtWork, TokenTyped DEF Ids, Types
<1>3. req'[r] = q /\ \A s \in Requests \ {r} : req'[s] = req[s]
  BY OneReq
<1>4. tokens'[t].row /\ ~ tokens'[t].ended /\ tokens'[t].revoked = "now" /\ tokens'[t].by = n
  BY <1>1, <1>2, ClaimedOf DEF Good
<1>5. ~ tokens'[n].row /\ ~ tokens'[n].ended /\ tokens'[n].revoked = "no"
  BY <1>1, RowOf
<1>6. \A u \in Ids : Good(u) => Good(u)'
  BY <1>1, <1>2, <1>4 DEF Good
<1>7. \A c \in Browsers : (Busy(c)' <=> Busy(c)) /\ Busy(b)
  BY <1>3 DEF Busy
<1>8. Signed'
  BY <1>7 DEF Calm, Signed
<1>9. FitCookie'
  <2>1. ASSUME NEW c \in Browsers, cookie[c] # 0
        PROVE  Good(cookie[c])' /\ (Busy(c) \/ tokens'[cookie[c]].revoked = "no")
    <3>1. cookie[c] \in Ids /\ Holds(c, cookie[c])
      BY <1>1, <2>1 DEF Types, CookieOK, Ids, Holds
    <3>2. cookie[c] = t => c = b
      BY <1>2, <3>1 DEF Calm, Apart
    <3> QED
      BY <1>1, <1>6, <1>7, <2>1, <3>1, <3>2 DEF Calm, FitCookie, Good
  <2> QED
    BY <1>7, <2>1 DEF FitCookie, Good
<1>10. FitReq'
  <2>1. ASSUME NEW s \in Requests \ {r}, req[s].at # "idle"
        PROVE  /\ Good(req[s].token)' /\ req[s].at # "revokeAll"
               /\ req[s].at = "reread" => tokens'[req[s].token].revoked = "now"
    <3>1. req[s].token \in Ids /\ Good(req[s].token)
      BY <2>1, RequestOf
    <3>2. Good(req[s].token)'
      <4>1. Good(req[s].token) => tokens'[req[s].token].row /\ ~ tokens'[req[s].token].ended
               /\ (\/ tokens'[req[s].token].revoked = "no"
                   \/ tokens'[req[s].token].revoked = "now" /\ tokens'[req[s].token].by # 0)
        BY <1>6, <3>1 DEF Good
      <4> QED
        BY <1>3, <2>1, <3>1, <4>1 DEF Good
    <3>3. req[s].at # "revokeAll" /\ (req[s].at = "reread" => tokens[req[s].token].revoked = "now")
      BY <2>1 DEF Calm, FitReq
    <3>4. req[s].token # t => tokens'[req[s].token] = tokens[req[s].token]
      BY <1>1, <3>1
    <3> QED
      BY <1>4, <3>2, <3>3, <3>4
  <2>2. ASSUME NEW s \in Requests, req'[s].at # "idle"
        PROVE  /\ Good(req[s].token)' /\ req'[s].at # "revokeAll"
               /\ req'[s].at = "reread" => tokens'[req'[s].token].revoked = "now"
    <3>1. CASE s = r
      BY <1>2, <1>3, <1>6, <1>4, <3>1 DEF Good
    <3>2. CASE s # r
      BY <1>3, <2>1, <2>2, <3>2 DEF Good
    <3> QED
      BY <3>1, <3>2
  <2> QED
    BY <2>2 DEF FitReq
<1>11. Fresh'
  <2>1. ASSUME NEW s \in Requests, req[s].new # 0
        PROVE  req[s].new \in Ids /\ req[s].new # t
    <3>1. req[s].new \in Ids
      BY <1>1, <2>1, Resting DEF Types, ReqOK, Call, Ids
    <3> QED
      BY <1>2, <2>1, <3>1 DEF Calm, Fresh, Good
  <2> QED
    BY <1>1, <1>2, <1>3, <1>5, <2>1 DEF Calm, Fresh
<1>12. ASSUME NEW c \in Browsers, NEW u, Holds(c, u)' PROVE Holds(c, u) \/ (u = Len(tokens) + 1 /\ c = b)
  BY <1>3, <1>12 DEF Holds
<1>13. Apart'
  BY <1>12, ApartStep DEF Calm
<1> QED
  BY <1>8, <1>9, <1>10, <1>11, <1>13 DEF Calm

LEMMA ClaimCalm == ASSUME Types, Calm, NEW r \in Requests, claim(r) PROVE Calm'
<1>1. Types' /\ req[r].at # "idle" /\ UNCHANGED <<cookie, account, signedIn>> /\ req[r].new = 0
  BY ClaimTypes, AtWork DEF claim, Call
<1>2. ASSUME NEW q, tokens' = tokens, ~ (tokens[req[r].token].row /\ tokens[req[r].token].revoked = "no"),
             req' = [req EXCEPT ![r] = q], Call(q, Len(tokens)), q.at = "reread",
             q.browser = req[r].browser, q.token = req[r].token, q.new = req[r].new
      PROVE  Calm'
  <2>1. Good(q.token) /\ tokens[q.token].revoked = "now"
    BY <1>1, <1>2, RequestOf DEF Good
  <2> QED
    BY <1>1, <1>2, <2>1, RequestOf, GoesCalm
<1> QED
  BY <1>1, <1>2, ClaimTypes, WinCalm

(* The row of an id that was drawn: its request alone knew the id. *)
LEMMA IssueCalm == ASSUME Types, Calm, NEW r \in Requests, issueTokens(r) PROVE Calm'
<1> PICK b, n : b = req[r].browser /\ n = req[r].new
  OBVIOUS
<1>1. /\ Types' /\ req[r].at = "issue" /\ req' = [req EXCEPT ![r] = Idle] /\ b \in Browsers
      /\ UNCHANGED <<account, signedIn, disturbed>> /\ Len(tokens) \in Nat /\ account
  BY IssueTypes DEF Calm
<1>2. b \in signedIn
  BY <1>1, RequestOf
<1>3. CASE n = 0
  <2>1. /\ cookie' = [cookie EXCEPT ![b] = Len(tokens) + 1]
        /\ tokens'[Len(tokens) + 1] = Row(TRUE) /\ \A t \in Ids : tokens'[t] = tokens[t]
    <3>1. req[r].new \notin Ids
      BY <1>3 DEF Ids
    <3>2. /\ cookie' = [cookie EXCEPT ![req[r].browser] = Len(tokens) + 1]
          /\ tokens'[Len(tokens) + 1] = Row(TRUE) /\ \A t \in Ids : tokens'[t] = tokens[t]
      BY <1>1, <3>1, IssueTypes
    <3> QED
      BY <3>2, Zenon
  <2>2. signedIn' = signedIn \cup {b}
    BY <1>1, <1>2
  <2> QED
    BY <1>1, <2>1, <2>2, NewCalm
<1>4. CASE n # 0
  <2>1. /\ n \in Ids /\ cookie' = [cookie EXCEPT ![b] = n] /\ tokens'[n] = [tokens[n] EXCEPT !.row = TRUE]
        /\ \A t \in Ids \ {n} : tokens'[t] = tokens[t]
    <3>1. /\ req[r].new \in Ids /\ cookie' = [cookie EXCEPT ![req[r].browser] = req[r].new]
          /\ tokens'[req[r].new] = [tokens[req[r].new] EXCEPT !.row = TRUE]
          /\ \A t \in Ids \ {req[r].new} : tokens'[t] = tokens[t]
      BY <1>1, <1>4, IssueTypes
    <3> QED
      BY <3>1, Zenon
  <2>2. req'[r] = Idle /\ \A s \in Requests \ {r} : req'[s] = req[s]
    BY <1>1, OneReq
  <2>3. cookie'[b] = n /\ \A c \in Browsers \ {b} : cookie'[c] = cookie[c]
    <3>1. b \in Browsers /\ cookie' = [cookie EXCEPT ![b] = n]
      BY <1>1, <2>1
    <3> QED
      BY ONLY <3>1, Types DEF Types, CookieOK
  <2>4. ~ tokens[n].row /\ ~ tokens[n].ended /\ tokens[n].revoked = "no" /\ tokens[n] \in Token
    BY <1>4, <2>1, TokenTyped DEF Calm, Fresh, Types
  <2>5. tokens'[n].row /\ ~ tokens'[n].ended /\ tokens'[n].revoked = "no"
    BY <2>1, <2>4 DEF Token
  <2>6. \A t \in Ids : Good(t) => t # n /\ Good(t)'
    BY <2>1, <2>4 DEF Good
  <2>7. /\ \A c \in Browsers : Busy(c)' => Busy(c)
        /\ \A c \in Browsers \ {b} : Busy(c) => Busy(c)'
    BY <2>2, Resting DEF Busy
  <2>8. Signed'
    BY <1>1, <1>2, <1>4, <2>3, <2>7 DEF Calm, Signed
  <2>9. FitCookie'
    <3>1. ASSUME NEW c \in Browsers \ {b}, cookie[c] # 0
          PROVE  Good(cookie[c])' /\ (Busy(c)' \/ tokens'[cookie[c]].revoked = "no")
      <4>1. cookie[c] \in Ids
        BY <1>1, <3>1 DEF Types, CookieOK, Ids
      <4> QED
        BY <2>1, <2>3, <2>6, <2>7, <3>1, <4>1 DEF Calm, FitCookie, Good
    <3> QED
      BY <2>3, <2>5, <3>1 DEF FitCookie, Good
  <2>10. FitReq'
    <3>1. ASSUME NEW s \in Requests, req'[s].at # "idle"
          PROVE  req'[s] = req[s] /\ req[s].token \in Ids \ {n} /\ req[s].at # "idle"
      <4>1. req'[s] = req[s] /\ req[s].at # "idle"
        BY <2>2, <3>1, Resting
      <4> QED
        BY <2>6, <4>1, RequestOf
    <3> QED
      BY <2>1, <3>1 DEF Calm, FitReq, Good
  <2>11. Fresh'
    <3>1. ASSUME NEW s \in Requests, req'[s].new # 0
          PROVE  req'[s] = req[s] /\ req[s].new \in Ids \ {n} /\ req[s].new # 0
      <4>1. req'[s] = req[s] /\ s # r /\ req[s].new # 0
        BY <2>2, <3>1, Resting
      <4>2. req[s].new \in Ids
        BY <1>1, <4>1, Resting DEF Types, ReqOK, Call, Ids
      <4>3. req[s].new # n
        BY <1>4, <4>1 DEF Calm, Fresh
      <4> QED
        BY <4>1, <4>2, <4>3
    <3> QED
      BY <2>1, <2>2, <3>1, Resting DEF Calm, Fresh
  <2>12. ASSUME NEW c \in Browsers, NEW t, Holds(c, t)' PROVE Holds(c, t)
    BY <1>1, <2>2, <2>3, <2>12, Resting DEF Holds
  <2>13. Apart'
    BY <1>1, <2>12, ApartStep DEF Calm
  <2> QED
    BY <1>1, <2>8, <2>9, <2>10, <2>11, <2>13 DEF Calm
<1> QED
  BY <1>3, <1>4

(* A sign-out that crosses none of its browser's requests ends its token alone. *)
LEMMA LogoutCalm == ASSUME Types, Calm, NEW b \in Browsers, logout(b), ~ disturbed' PROVE Calm'
<1> PICK t : t = cookie[b]
  OBVIOUS
<1>1. /\ Types' /\ t \in Ids /\ cookie' = [cookie EXCEPT ![b] = 0] /\ req' = req /\ account' = account
      /\ signedIn' = signedIn \ {b} /\ ~ Busy(b) /\ \A u \in Ids \ {t} : tokens'[u] = tokens[u]
  BY LogoutTypes
<1>2. cookie'[b] = 0 /\ \A c \in Browsers \ {b} : cookie'[c] = cookie[c]
  BY <1>1, OneCookie
<1>3. Holds(b, t) /\ Good(t) /\ t # 0
  BY <1>1 DEF Holds, Ids, Calm, FitCookie, Types, TokensOK
<1>4. \A c \in Browsers : Busy(c)' <=> Busy(c)
  BY <1>1 DEF Busy
<1>5. Signed'
  BY <1>1, <1>2, <1>4 DEF Calm, Signed
<1>6. FitCookie'
  <2>1. ASSUME NEW c \in Browsers \ {b}, cookie[c] # 0 PROVE cookie[c] \in Ids \ {t}
    <3>1. Holds(c, cookie[c])
      BY <2>1 DEF Holds
    <3> QED
      BY <1>3, <3>1, HeldIds DEF Calm, Apart
  <2> QED
    BY <1>1, <1>2, <1>4, <2>1 DEF Calm, FitCookie, Good
<1>7. FitReq'
  <2>1. ASSUME NEW s \in Requests, req[s].at # "idle" PROVE req[s].token \in Ids \ {t}
    <3>1. /\ req[s].browser \in Browsers /\ req[s].browser # b
          /\ Holds(req[s].browser, req[s].token) /\ req[s].token \in Ids
      BY <1>1, <2>1, RequestOf, AtWork
    <3> QED
      BY <1>3, <3>1 DEF Calm, Apart
  <2> QED
    BY <1>1, <2>1 DEF Calm, FitReq, Good
<1>8. Fresh'
  <2>1. ASSUME NEW s \in Requests, req[s].new # 0 PROVE req[s].new \in Ids \ {t}
    <3>1. req[s].new \in Ids
      BY <2>1, Resting DEF Types, TokensOK, ReqOK, Call, Ids
    <3> QED
      BY <1>3, <2>1, <3>1 DEF Calm, Fresh, Good
  <2> QED
    BY <1>1, <2>1 DEF Calm, Fresh
<1>9. ASSUME NEW c \in Browsers, NEW u, Holds(c, u)' PROVE Holds(c, u)
  BY <1>1, <1>2, <1>9 DEF Holds
<1>10. Apart'
  BY <1>1, <1>9, ApartStep DEF Calm
<1> QED
  BY <1>1, <1>5, <1>6, <1>7, <1>8, <1>10 DEF Calm

(* The grace ends while nobody refreshes: no browser keeps a claimed token. *)
LEMMA GraceCalm == ASSUME Types, Calm, GraceEnds, ~ disturbed' PROVE Calm'
<1>1. /\ Types' /\ UNCHANGED <<account, cookie, req, signedIn>> /\ \A b \in Browsers : ~ Busy(b)
      /\ \A t \in Ids : tokens[t].revoked = "no" => tokens'[t] = tokens[t]
  BY GraceTypes
<1>2. \A r \in Requests : req[r].at = "idle" /\ req[r].new = 0
  <2>1. ASSUME NEW r \in Requests, req[r].at # "idle" PROVE FALSE
    BY <1>1, <2>1, RequestOf, AtWork
  <2> QED
    BY <2>1, Resting DEF Types, ReqOK, Call, Busys
<1>3. \A b \in Browsers : ~ Busy(b)'
  BY <1>1, <1>2 DEF Busy
<1>4. Signed'
  BY <1>1, <1>3 DEF Calm, Signed
<1>5. FitCookie'
  <2>1. ASSUME NEW b \in Browsers, cookie[b] # 0
        PROVE  cookie[b] \in Ids /\ tokens'[cookie[b]] = tokens[cookie[b]] /\ tokens[cookie[b]].revoked = "no"
    <3>1. cookie[b] \in Ids
      BY <2>1, HeldIds DEF Holds
    <3> QED
      BY <1>1, <2>1, <3>1 DEF Calm, FitCookie
  <2> QED
    BY <1>1, <2>1 DEF Calm, FitCookie, Good
<1>6. FitReq' /\ Fresh'
  BY <1>1, <1>2 DEF FitReq, Fresh
<1>7. ASSUME NEW c \in Browsers, NEW u, Holds(c, u)' PROVE Holds(c, u)
  BY <1>1, <1>7 DEF Holds
<1>8. Apart'
  BY <1>1, <1>7, ApartStep DEF Calm
<1> QED
  BY <1>1, <1>4, <1>5, <1>6, <1>8 DEF Calm

LEMMA NextKept == ASSUME Types, KeptInv, [Next]_vars PROVE KeptInv'
<1>1. disturbed => disturbed'
  BY LogoutTypes, GraceTypes, RemoveTypes, FaultTypes
     DEF Next, login, refresh, claim, reread, revokeAll, issueTokens, vars
<1> SUFFICES ASSUME Calm, ~ disturbed' PROVE Calm'
  BY <1>1 DEF KeptInv
<1>2. ASSUME NEW r \in Requests, revokeAll(r) PROVE FALSE
  BY <1>2, RequestOf DEF revokeAll
<1>3. ASSUME UNCHANGED vars PROVE Calm'
  BY <1>3 DEF vars, data, Calm, Signed, FitCookie, FitReq, Fresh, Apart, Holds, Busy, Good, Ids
<1> QED
  BY <1>2, <1>3, LoginCalm, LogoutCalm, RefreshCalm, ClaimCalm, RereadCalm, IssueCalm, RemoveTypes,
     GraceCalm, FaultTypes DEF Next

LEMMA InitKept == Init => KeptInv
<1> SUFFICES ASSUME Init PROVE Calm
  BY DEF KeptInv
<1>1. /\ account /\ signedIn = {} /\ tokens = <<>>
      /\ (\A b \in Browsers : cookie[b] = 0) /\ (\A r \in Requests : req[r] = Idle)
  BY DEF Init
<1>2. \A b \in Browsers : \A t : ~ Holds(b, t)
  BY <1>1, Resting DEF Holds
<1> QED
  BY <1>1, <1>2, Resting DEF Calm, Signed, FitCookie, FitReq, Fresh, Apart, Busy

(* However many tabs refresh at once, and in however many browsers, a browser  *)
(* that has its answers keeps a token that can be refreshed until it signs out *)
(* (StaysSignedIn).                                                            *)
THEOREM SessionsStay == Spec => []StaysSignedIn
<1>1. KeptInv => StaysSignedIn
  BY DEF KeptInv, Calm, Signed, FitCookie, Good, Live, StaysSignedIn
<1>2. Types /\ KeptInv /\ [Next]_vars => KeptInv'
  BY NextKept
<1> QED
  BY <1>1, <1>2, InitKept, AlwaysTypes, PTL DEF Spec
=============================================================================
