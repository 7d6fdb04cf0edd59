------------------------- MODULE PhoneVerification -------------------------
(* Confirming the phone of a checkout that gave no email: the codes and the    *)
(* counters PhoneVerificationService keeps in Redis, and the check that        *)
(* CheckoutService.initiate makes before it writes the order. A request is     *)
(* stepped from await to await; keys expire when Redis says so.                *)
EXTENDS Naturals, Sequences

CONSTANTS
  Carts, Phones,
  Requests,     \* requests in flight at a time
  MaxAttempts,  \* MAX_ATTEMPTS
  MaxSends,     \* MAX_SENDS_PER_PHONE_PER_HOUR
  MaxCodes,     \* bound: codes drawn
  MaxWrong,     \* bound: wrong guesses at one code
  MaxCrashes    \* bound: requests cut by a stopped process

VARIABLES
  codes,        \* the codes drawn so far, each with its cart and its phone
  pending,      \* checkout:otp:<cart>: the code waited for (0: none) and its attempts
  cooldown,     \* checkout:otp:cd:<cart>
  sends,        \* checkout:otp:phone:<phone>: its count, and whether it expires
  verified,     \* checkout:otp-ok:<cart>: the confirmed phone, or none
  confirmed,    \* the phone of the cart's open order, with its phoneVerifiedAt, or none
  req,          \* what each request is at
  proved,       \* carts and phones for which the code texted was typed back
  wrong,        \* wrong guesses answered, per code
  overlapped,   \* carts that had two requests at a time
  leaked,       \* phones counted by a request that stopped before EXPIRE
  crashes

redis == <<pending, cooldown, sends, verified>>
ghosts == <<proved, wrong, overlapped, leaked, crashes>>
vars == <<codes, redis, confirmed, req, ghosts>>

None == "none"
Idle == [at |-> "idle", cart |-> None, phone |-> None, code |-> 0, tries |-> 0]
NoCode == [code |-> 0, tries |-> 0]

TypeOK ==
  /\ codes \in Seq([cart : Carts, phone : Phones]) /\ Len(codes) <= MaxCodes
  /\ pending \in [Carts -> [code : 0 .. Len(codes), tries : 0 .. MaxAttempts - 1]]
  /\ cooldown \subseteq Carts /\ overlapped \subseteq Carts /\ leaked \subseteq Phones
  /\ sends \in [Phones -> [count : Nat, expires : BOOLEAN]]
  /\ verified \in [Carts -> Phones \cup {None}]
  /\ confirmed \in [Carts -> Phones \cup {None}] /\ proved \subseteq Carts \X Phones
  /\ wrong \in [1 .. MaxCodes -> Nat] /\ crashes \in 0 .. MaxCrashes

Init ==
  /\ codes = <<>> /\ proved = {} /\ overlapped = {} /\ leaked = {}
  /\ pending = [c \in Carts |-> NoCode]
  /\ cooldown = {}
  /\ sends = [p \in Phones |-> [count |-> 0, expires |-> FALSE]]
  /\ verified = [c \in Carts |-> None] /\ confirmed = verified
  /\ req = [r \in Requests |-> Idle]
  /\ wrong = [k \in 1 .. MaxCodes |-> 0] /\ crashes = 0

Begin(r, at, c, p, k) ==
  /\ req[r] = Idle
  /\ req' = [req EXCEPT ![r] = [at |-> at, cart |-> c, phone |-> p, code |-> k, tries |-> 0]]
  /\ overlapped' = overlapped \cup {d \in {c} : \E q \in Requests : req[q].cart = d}
Goto(r, at) == req' = [req EXCEPT ![r].at = at]
Answer(r) == req' = [req EXCEPT ![r] = Idle]

(* sendCode: the cooldown of the cart (SET NX) and the count of the number     *)
(* (INCR), over which the request is refused ...                               *)
SendCode(r, c, p) ==
  LET n == sends[p].count + 1 IN
  /\ Len(codes) < MaxCodes /\ n <= MaxSends + 1
  /\ c \notin cooldown
  /\ cooldown' = cooldown \cup {c}
  /\ sends' = [sends EXCEPT ![p].count = n]
  /\ IF n > MaxSends THEN req[r] = Idle /\ UNCHANGED <<req, overlapped>>
     ELSE Begin(r, IF n = 1 THEN "expire" ELSE "setCode", c, p, 0)
  /\ UNCHANGED <<codes, pending, verified, confirmed, proved, wrong, leaked, crashes>>

Expires(p) == TRUE

(* ... which is given its hour by the first send ...                           *)
ExpireSends(r) ==
  /\ req[r].at = "expire"
  /\ sends' = [sends EXCEPT ![req[r].phone].expires = @ \/ Expires(req[r].phone)]
  /\ Goto(r, "setCode")
  /\ UNCHANGED <<codes, pending, cooldown, verified, confirmed, ghosts>>

(* ... and a new code, with no attempts, replaces the cart's; if its text      *)
(* cannot be queued the code and the cooldown are taken back.                  *)
SetCode(r) ==
  LET c == req[r].cart IN
  /\ req[r].at = "setCode" /\ Len(codes) < MaxCodes
  /\ \/ /\ codes' = Append(codes, [cart |-> c, phone |-> req[r].phone])
        /\ pending' = [pending EXCEPT ![c] = [code |-> Len(codes) + 1, tries |-> 0]]
        /\ UNCHANGED cooldown
     \/ /\ pending' = [pending EXCEPT ![c] = NoCode]
        /\ cooldown' = cooldown \ {c}
        /\ UNCHANGED codes
  /\ Answer(r)
  /\ UNCHANGED <<sends, verified, confirmed, ghosts>>

(* verify: a person types a code k (0: one that was never sent) for a phone;   *)
(* the pending code is read.                                                   *)
Verify(r, c, p, k) ==
  /\ pending[c].code # 0 /\ \A j \in DOMAIN wrong : wrong[j] < MaxWrong
  /\ Begin(r, "compare", c, p, k)
  /\ proved' = proved \cup (IF k # 0 /\ codes[k] = [cart |-> c, phone |-> p] THEN {<<c, p>>} ELSE {})
  /\ UNCHANGED <<codes, redis, confirmed, wrong, leaked, crashes>>

\* A mutant: the phone of the pending code is not compared.
AnyPhone(k, p) == TRUE
SentTo(k, p) == codes[k].phone = p

\* A mutant: one guess more.
SpentLate(n) == n > MaxAttempts
Spent(n) == n >= MaxAttempts

(* What was read is kept while Redis is asked again: compared here, written    *)
(* back in the next step. The read and the comparison are one step, for no     *)
(* await parts them.                                                           *)
Compare(r) ==
  LET c == req[r].cart  seen == pending[c] IN
  /\ req[r].at = "compare"
  /\ IF seen.code = 0 \/ ~SentTo(seen.code, req[r].phone)
     THEN Answer(r) /\ UNCHANGED wrong
     ELSE IF req[r].code = seen.code
     THEN Goto(r, "delCode") /\ UNCHANGED wrong
     ELSE /\ wrong' = [wrong EXCEPT ![seen.code] = @ + 1]
          /\ req' = [req EXCEPT ![r].at = IF Spent(seen.tries + 1) THEN "dropCode" ELSE "putBack",
                                ![r].code = seen.code, ![r].tries = seen.tries + 1]
  /\ UNCHANGED <<codes, redis, confirmed, proved, overlapped, leaked, crashes>>

Counted(r) == [code |-> req[r].code, tries |-> req[r].tries]

PutBack(r) ==
  /\ req[r].at = "putBack"
  /\ pending' = [pending EXCEPT ![req[r].cart] = Counted(r)]
  /\ Answer(r)
  /\ UNCHANGED <<codes, cooldown, sends, verified, confirmed, ghosts>>

DropCode(r) ==
  /\ req[r].at \in {"dropCode", "delCode"}
  /\ pending' = [pending EXCEPT ![req[r].cart] = NoCode]
  /\ IF req[r].at = "delCode" THEN Goto(r, "setVerified") ELSE Answer(r)
  /\ UNCHANGED <<codes, cooldown, sends, verified, confirmed, ghosts>>

SetVerified(r) ==
  /\ req[r].at = "setVerified"
  /\ verified' = [verified EXCEPT ![req[r].cart] = req[r].phone]
  /\ Answer(r)
  /\ UNCHANGED <<codes, pending, cooldown, sends, confirmed, ghosts>>

Known(c, p) == verified[c] = p \/ confirmed[c] = p

(* initiate with no email, the switch being on: checkPhoneVerified asks Redis, *)
(* then the cart's open order, which is resumed with the phone of the request; *)
(* else the order is refused.                                                  *)
PlaceOrder(c, p) ==
  /\ Known(c, p)
  /\ confirmed' = [confirmed EXCEPT ![c] = p]
  /\ UNCHANGED <<codes, redis, req, ghosts>>

ExpireCode(c) ==
  /\ pending[c] # NoCode /\ pending' = [pending EXCEPT ![c] = NoCode]
  /\ UNCHANGED <<codes, cooldown, sends, verified, confirmed, req, ghosts>>
ExpireCooldown(c) ==
  /\ c \in cooldown /\ cooldown' = cooldown \ {c}
  /\ UNCHANGED <<codes, pending, sends, verified, confirmed, req, ghosts>>
ExpireVerified(c) ==
  /\ verified[c] # None /\ verified' = [verified EXCEPT ![c] = None]
  /\ UNCHANGED <<codes, pending, cooldown, sends, confirmed, req, ghosts>>
HourEnds(p) ==
  /\ sends[p].expires /\ sends' = [sends EXCEPT ![p] = [count |-> 0, expires |-> FALSE]]
  /\ UNCHANGED <<codes, pending, cooldown, verified, confirmed, req, ghosts>>

Crash(r) ==
  /\ req[r] # Idle /\ crashes < MaxCrashes
  /\ crashes' = crashes + 1
  /\ leaked' = leaked \cup (IF req[r].at = "expire" THEN {req[r].phone} ELSE {})
  /\ Answer(r)
  /\ UNCHANGED <<codes, redis, confirmed, proved, wrong, overlapped>>

Step(r) ==
  \/ ExpireSends(r) \/ SetCode(r) \/ Compare(r)
  \/ PutBack(r) \/ DropCode(r) \/ SetVerified(r)

Next ==
  \/ \E r \in Requests :
       \/ \E c \in Carts, p \in Phones :
            \/ SendCode(r, c, p)
            \/ \E k \in 0 .. Len(codes) : Verify(r, c, p, k)
       \/ Step(r) \/ Crash(r)
  \/ \E c \in Carts, p \in Phones : PlaceOrder(c, p)
  \/ \E c \in Carts : ExpireCode(c) \/ ExpireCooldown(c) \/ ExpireVerified(c)
  \/ \E p \in Phones : HourEnds(p)

Spec == Init /\ [][Next]_vars

-----------------------------------------------------------------------------
(* Every open order that has only a phone, and every phone Redis holds as      *)
(* confirmed, belongs to a person who typed back the code texted to that very  *)
(* phone for that very cart, whatever was resent, retyped or expired between.  *)
PhoneProved ==
  \A c \in Carts : \A p \in {verified[c], confirmed[c]} \ {None} : <<c, p>> \in proved

(* A code takes at most MAX_ATTEMPTS wrong guesses, as long as the requests of *)
(* its cart come one at a time (one more for a process that stops before the   *)
(* count is written): the count is read and written back, so two requests at a *)
(* time may count as one.                                                      *)
AttemptsBounded ==
  \A k \in 1 .. Len(codes) :
    codes[k].cart \in overlapped \/ wrong[k] <= MaxAttempts + crashes

(* The count of a number ends: it expires, or a request is about to make it    *)
(* expire, unless a process stopped between INCR and EXPIRE, which leaves a    *)
(* count that never ends.                                                      *)
QuotaEnds ==
  \A p \in Phones :
    \/ sends[p].count = 0 \/ sends[p].expires \/ p \in leaked
    \/ \E r \in Requests : req[r].at = "expire" /\ req[r].phone = p
=============================================================================
