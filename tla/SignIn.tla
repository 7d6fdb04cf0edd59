------------------------------- MODULE SignIn -------------------------------
(***************************************************************************)
(* The code an admin types to sign in: AuthService.login, MfaService, the  *)
(* counters it keeps in Redis, and AdminsService, whose rows another admin *)
(* edits meanwhile.  A request is cut where it waits for Redis; what it    *)
(* read of the admin stays as it was.                                      *)
(***************************************************************************)
EXTENDS Integers, Sequences

CONSTANTS
    Requests,
    RlMax, CooldownMax,               \* sends in a quarter of an hour, and in a minute
    MaxChallenges, MaxCodes, MaxEdits, MaxFaults   \* bounds

VARIABLES
    admin,      \* the row: whether it is there, its phone, mfaEnabled, preferredMfaMethod
    alive,      \* the challenge tokens drawn, each still valid or not
    rl, cd,     \* mfa:rl and mfa:cd: their counts, and whether they expire
    otp,        \* mfa:otp:<challenge>: the code, or 0
    codes,      \* the codes drawn: of what challenge, by what method, sent or not
    prompt,     \* what the page of each challenge was last told
    req,
    edits, faults,
    \* history
    faulted,    \* challenges one of whose sends was cut off or refused by the network
    leaked      \* counters whose first request stopped before EXPIRE

redis == <<rl, cd, otp>>
ghosts == <<faulted, leaked>>
vars == <<admin, alive, redis, codes, prompt, req, edits, faults, ghosts>>

Idle == [at |-> "idle", c |-> 0, phone |-> FALSE, method |-> "none", code |-> 0]
Counter == [count |-> 0, expires |-> FALSE]
Busy(c) == \E r \in Requests : req[r].at # "idle" /\ req[r].c = c
Go(r, at) == req' = [req EXCEPT ![r].at = at]
Answer(r, told) ==
    /\ req' = [req EXCEPT ![r] = Idle]
    /\ prompt' = [prompt EXCEPT ![req[r].c] = told]
methodsFor(phone) == IF phone THEN {"email", "sms"} ELSE {"email"}
resolveMethod(available, preferred) == IF preferred \in available THEN preferred ELSE "email"

-----------------------------------------------------------------------------
(* A code is asked for: by a login whose password was right, which opens a *)
(* challenge, or again for the challenge on the page.                      *)

Ask(r, c, method) ==
    /\ req[r].at = "idle"
    /\ req' = [req EXCEPT ![r] = [at |-> "count", c |-> c, phone |-> admin.phone, method |-> method, code |-> 0]]
initChallenge(r) ==
    /\ admin.there /\ admin.mfa /\ Len(alive) < MaxChallenges
    /\ alive' = Append(alive, TRUE) /\ otp' = Append(otp, 0) /\ prompt' = Append(prompt, "waiting")
    /\ Ask(r, Len(alive) + 1, resolveMethod(methodsFor(admin.phone), admin.preferred))
    /\ UNCHANGED <<admin, rl, cd, codes, edits, faults, faulted, leaked>>
resend(r, c, method) ==
    /\ alive[c] /\ admin.there
    /\ method # "none" => method \in methodsFor(admin.phone)
    /\ Ask(r, c, resolveMethod(methodsFor(admin.phone), IF method = "none" THEN admin.preferred ELSE method))
    /\ UNCHANGED <<admin, alive, redis, codes, prompt, edits, faults, faulted, leaked>>

-----------------------------------------------------------------------------
(* sendOtp: two counters, each given its time by whoever counts first; then*)
(* the code is kept, and sent.                                             *)

More(k) == [k EXCEPT !.count = @ + 1]
IsFirst(k, most) == k.count = 1
countRl(r) ==
    /\ req[r].at = "count" /\ rl.count <= RlMax
    /\ rl' = More(rl)
    /\ IF IsFirst(rl', RlMax) THEN Go(r, "expireRl") /\ UNCHANGED prompt
       ELSE IF rl'.count > RlMax THEN Answer(r, "limited") ELSE Go(r, "cool") /\ UNCHANGED prompt
    /\ UNCHANGED <<admin, alive, cd, otp, codes, edits, faults, ghosts>>
expireRl(r) ==
    /\ req[r].at = "expireRl"
    /\ rl' = [rl EXCEPT !.expires = rl.count > 0]
    /\ Go(r, "cool")
    /\ UNCHANGED <<admin, alive, cd, otp, codes, prompt, edits, faults, ghosts>>
countCd(r) ==
    /\ req[r].at = "cool" /\ cd.count <= CooldownMax
    /\ cd' = More(cd)
    /\ IF IsFirst(cd', CooldownMax) THEN Go(r, "expireCd") /\ UNCHANGED prompt
       ELSE IF cd'.count > CooldownMax THEN Answer(r, "limited") ELSE Go(r, "set") /\ UNCHANGED prompt
    /\ UNCHANGED <<admin, alive, rl, otp, codes, edits, faults, ghosts>>
expireCd(r) ==
    /\ req[r].at = "expireCd"
    /\ cd' = [cd EXCEPT !.expires = cd.count > 0]
    /\ Go(r, "set")
    /\ UNCHANGED <<admin, alive, rl, otp, codes, prompt, edits, faults, ghosts>>
setOtp(r) ==
    /\ req[r].at = "set" /\ Len(codes) < MaxCodes
    /\ codes' = Append(codes, [c |-> req[r].c, method |-> req[r].method, sent |-> FALSE])
    /\ otp' = [otp EXCEPT ![req[r].c] = Len(codes) + 1]
    /\ req' = [req EXCEPT ![r].at = "send", ![r].code = Len(codes) + 1]
    /\ UNCHANGED <<admin, alive, rl, cd, prompt, edits, faults, ghosts>>
\* A text needs a number; the mail server may refuse.
send(r) ==
    LET q == req[r] IN
    /\ q.at = "send"
    /\ IF q.method = "sms" /\ ~ q.phone THEN Answer(r, "failed") /\ UNCHANGED <<codes, faults, faulted>>
       ELSE \/ codes' = [codes EXCEPT ![q.code].sent = TRUE] /\ Answer(r, "sent") /\ UNCHANGED <<faults, faulted>>
            \/ /\ faults < MaxFaults /\ faults' = faults + 1 /\ faulted' = faulted \cup {q.c}
               /\ Answer(r, "failed") /\ UNCHANGED codes
    /\ UNCHANGED <<admin, alive, redis, edits, leaked>>

-----------------------------------------------------------------------------
(* verify: the code is read, compared (bcrypt), and dropped when it is     *)
(* right; what is typed is a code that was sent, or another.               *)

verify(r, c, k) ==
    /\ req[r].at = "idle" /\ alive[c] /\ otp[c] # 0
    /\ otp[c] = k
    /\ req' = [req EXCEPT ![r] = [Idle EXCEPT !.at = "drop", !.c = c]]
    /\ UNCHANGED <<admin, alive, redis, codes, prompt, edits, faults, faulted, leaked>>
dropOtp(r) ==
    /\ req[r].at = "drop"
    /\ otp' = [otp EXCEPT ![req[r].c] = 0]
    /\ Answer(r, "in")
    /\ UNCHANGED <<admin, alive, rl, cd, codes, edits, faults, ghosts>>

-----------------------------------------------------------------------------
(* AdminsService.patch, updateMfa, remove; time; failures.                 *)

Edit(row) ==
    /\ edits < MaxEdits /\ edits' = edits + 1 /\ admin.there /\ row # admin
    /\ admin' = row
    /\ UNCHANGED <<alive, redis, codes, prompt, req, faults, ghosts>>
patch == \E p \in BOOLEAN : Edit([admin EXCEPT !.phone = p])
updateMfa == \E m \in BOOLEAN, w \in {"email", "sms"} : Edit([admin EXCEPT !.mfa = m, !.preferred = w])
remove == Edit([admin EXCEPT !.there = FALSE])

RlEnds == rl.expires /\ rl' = Counter /\ UNCHANGED <<admin, alive, cd, otp, codes, prompt, req, edits, faults, ghosts>>
CdEnds == cd.expires /\ cd' = Counter /\ UNCHANGED <<admin, alive, rl, otp, codes, prompt, req, edits, faults, ghosts>>
ChallengeEnds(c) ==
    /\ alive[c] /\ ~ Busy(c)
    /\ alive' = [alive EXCEPT ![c] = FALSE] /\ otp' = [otp EXCEPT ![c] = 0]
    /\ UNCHANGED <<admin, rl, cd, codes, prompt, req, edits, faults, ghosts>>
Crash(r) ==
    /\ faults < MaxFaults /\ faults' = faults + 1 /\ req[r].at # "idle"
    /\ req' = [req EXCEPT ![r] = Idle]
    /\ prompt' = [prompt EXCEPT ![req[r].c] = "failed"]
    /\ faulted' = faulted \cup {req[r].c}
    /\ leaked' = leaked \cup (IF req[r].at \in {"expireRl", "expireCd"} THEN {req[r].at} ELSE {})
    /\ UNCHANGED <<admin, alive, redis, codes, edits>>

Init ==
    /\ admin = [there |-> TRUE, phone |-> TRUE, mfa |-> TRUE, preferred |-> "sms"]
    /\ alive = <<>> /\ otp = <<>> /\ prompt = <<>> /\ codes = <<>>
    /\ rl = Counter /\ cd = Counter
    /\ req = [r \in Requests |-> Idle] /\ edits = 0 /\ faults = 0
    /\ faulted = {} /\ leaked = {}

Next ==
    \/ \E r \in Requests :
         \/ initChallenge(r) \/ countRl(r) \/ expireRl(r) \/ countCd(r) \/ expireCd(r) \/ setOtp(r) \/ send(r)
         \/ dropOtp(r) \/ Crash(r)
         \/ \E c \in DOMAIN alive :
              \/ \E m \in {"none", "email", "sms"} : resend(r, c, m)
              \/ \E k \in DOMAIN codes : codes[k].sent /\ verify(r, c, k)
    \/ \E c \in DOMAIN alive : ChallengeEnds(c)
    \/ patch \/ updateMfa \/ remove \/ RlEnds \/ CdEnds

Spec == Init /\ [][Next]_vars

-----------------------------------------------------------------------------
TypeOK ==
    /\ DOMAIN otp = DOMAIN alive /\ DOMAIN prompt = DOMAIN alive
    /\ \A c \in DOMAIN otp : otp[c] \in 0 .. Len(codes) /\ prompt[c] \in {"waiting", "sent", "limited", "failed", "in"}
    /\ rl.count \in 0 .. RlMax + 1 /\ cd.count \in 0 .. CooldownMax + 1

\* A page that says a code was sent takes the code that was sent, while it lasts
\* and no other request of the page is under way; and asking for a code fails
\* only when the network does.
CodeTakes ==
    \A c \in DOMAIN alive :
        /\ prompt[c] = "sent" /\ ~ Busy(c) /\ c \notin faulted =>
             otp[c] = 0 \/ (codes[otp[c]].c = c /\ codes[otp[c]].sent)
        /\ prompt[c] = "failed" => c \in faulted
\* A counter that is not zero expires, or the request that was to say so is
\* under way or stopped.
CountersEnd ==
    /\ rl.count > 0 /\ ~ rl.expires => "expireRl" \in leaked \/ \E r \in Requests : req[r].at = "expireRl"
    /\ cd.count > 0 /\ ~ cd.expires => "expireCd" \in leaked \/ \E r \in Requests : req[r].at = "expireCd"
=============================================================================
