---------------------- MODULE PhoneVerification_proofs ----------------------
(***************************************************************************)
(* What the phone check of a checkout promises, for any carts, phones and  *)
(* requests in flight at a time, and any limits.                           *)
(*                                                                         *)
(* The argument.  A code is drawn for one cart and one phone and is        *)
(* pending for that cart only, also when it is put back, so a request that *)
(* found its guess equal to the pending code had it from the text: Pair.   *)
(* For the attempts: while the requests of a cart come one at a time, the  *)
(* wrong guesses answered are those counted with the pending code, or with *)
(* the request about to write the count; a process that stops there loses  *)
(* one: Tally.  Carts whose requests overlap are let go, for their counts  *)
(* really are lost.                                                        *)
(***************************************************************************)
EXTENDS PhoneVerification, TLAPS

\* What the code and its settings are.
Limits ==
  /\ MaxAttempts \in Nat \ {0} /\ MaxSends \in Nat \ {0}
  /\ MaxCodes \in Nat /\ MaxCrashes \in Nat

Points == {"expire", "setCode", "compare", "putBack", "dropCode", "delCode", "setVerified"}
Writing == {"putBack", "dropCode"}   \* the count of attempts is about to be written

Ask == [at : Points, cart : Carts, phone : Phones, code : Nat, tries : Nat]

\* What a request knows.
Asking(t) ==
  /\ t.at = "compare" =>
       /\ t.code <= Len(codes)
       /\ t.code # 0 /\ codes[t.code] = [cart |-> t.cart, phone |-> t.phone]
            => <<t.cart, t.phone>> \in proved
  /\ t.at \in Writing => t.code \in 1 .. Len(codes) /\ codes[t.code].cart = t.cart
  /\ t.at = "putBack" => t.tries < MaxAttempts
  /\ t.at \in {"delCode", "setVerified"} => <<t.cart, t.phone>> \in proved

Shape == req \in [Requests -> Ask \cup {Idle}]
Asked == \A r \in Requests : req[r] # Idle => Asking(req[r])
Pair == \A c \in Carts : pending[c].code # 0 => codes[pending[c].code].cart = c
PhoneInv == TypeOK /\ Shape /\ Asked /\ Pair /\ PhoneProved

\* Two requests of one cart make it overlapped.
OneByOne ==
  \A q, r \in Requests :
    q # r /\ req[q] # Idle /\ req[r] # Idle /\ req[q].cart = req[r].cart => req[r].cart \in overlapped

Writes(t, c, k) == t.at \in Writing /\ t.cart = c /\ t.code = k

\* The wrong guesses at code k of cart c: what still counts them.
Tally(c, k) ==
  c \notin overlapped =>
    /\ wrong[k] <= MaxAttempts + crashes
    /\ \A r \in Requests : Writes(req[r], c, k) =>
         /\ wrong[k] <= req[r].tries + crashes
         /\ pending[c].code = k => req[r].tries <= pending[c].tries + 1
    /\ pending[c].code = k /\ (\A r \in Requests : ~Writes(req[r], c, k)) =>
         wrong[k] <= pending[c].tries + crashes
Blank == \A k \in 1 .. MaxCodes : k > Len(codes) => wrong[k] = 0
TallyInv == OneByOne /\ Blank /\ \A k \in 1 .. Len(codes) : Tally(codes[k].cart, k)

-----------------------------------------------------------------------------
(* Frames. *)

(* The same, of the next state. *)
AskingNext(t) ==
  /\ t.at = "compare" =>
       /\ t.code <= Len(codes')
       /\ t.code # 0 /\ codes'[t.code] = [cart |-> t.cart, phone |-> t.phone]
            => <<t.cart, t.phone>> \in proved'
  /\ t.at \in Writing => t.code \in 1 .. Len(codes') /\ codes'[t.code].cart = t.cart
  /\ t.at = "putBack" => t.tries < MaxAttempts
  /\ t.at \in {"delCode", "setVerified"} => <<t.cart, t.phone>> \in proved'

\* Codes are only drawn, and proofs only added.
Grows ==
  /\ Len(codes) \in Nat /\ Len(codes') \in Nat /\ Len(codes) <= Len(codes')
  /\ \A k \in 1 .. Len(codes) : codes'[k] = codes[k]
  /\ proved \subseteq proved'

LEMMA GrowsStill == TypeOK /\ UNCHANGED codes /\ proved \subseteq proved' => Grows
BY DEF Grows, TypeOK

LEMMA AskingGrows ==
  ASSUME Grows, NEW t \in Ask, Asking(t)
  PROVE  AskingNext(t)
BY DEF Grows, Asking, AskingNext, Ask, Writing, Points

(* One request moves, ends or starts. *)
LEMMA AskFrame ==
  ASSUME Shape, Asked, Grows, NEW r \in Requests, NEW t, req' = [req EXCEPT ![r] = t],
         t = Idle \/ (t \in Ask /\ AskingNext(t))
  PROVE  Shape' /\ Asked'
<1>1. Shape'
  BY DEF Shape
<1>2. ASSUME NEW q \in Requests, req'[q] # Idle PROVE AskingNext(req'[q])
  <2>1. CASE q = r
    BY <1>2, <2>1 DEF Shape
  <2>2. CASE q # r
    <3>1. req'[q] = req[q] /\ req[q] \in Ask /\ Asking(req[q])
      BY <1>2, <2>2 DEF Shape, Asked
    <3> QED
      BY <3>1, AskingGrows
  <2> QED
    BY <2>1, <2>2
<1>3. Asked'
  BY <1>2 DEF Asked, Asking, AskingNext
<1> QED
  BY <1>1, <1>3

(* No request moves. *)
LEMMA AskStill ==
  ASSUME TypeOK, Shape, Asked, UNCHANGED <<codes, proved, req>>
  PROVE  Shape' /\ Asked'
BY DEF Shape, Asked, Asking

LEMMA PairStill == Pair /\ UNCHANGED <<codes, pending>> => Pair'
BY DEF Pair

LEMMA ProvedStill ==
  PhoneProved /\ UNCHANGED <<verified, confirmed>> /\ proved \subseteq proved' => PhoneProved'
BY DEF PhoneProved

-----------------------------------------------------------------------------
(* The steps. *)

LEMMA Moving ==
  ASSUME Shape, NEW r \in Requests, req[r] # Idle
  PROVE  /\ req[r] \in Ask
         /\ \A at \in Points : [req[r] EXCEPT !.at = at] \in Ask
         /\ \A at \in Points :
              /\ [req[r] EXCEPT !.at = at].at = at
              /\ [req[r] EXCEPT !.at = at].cart = req[r].cart
              /\ [req[r] EXCEPT !.at = at].phone = req[r].phone
              /\ [req[r] EXCEPT !.at = at].code = req[r].code
              /\ [req[r] EXCEPT !.at = at].tries = req[r].tries
BY DEF Shape, Ask

LEMMA Recount ==
  ASSUME NEW t \in Ask, NEW at \in Points, NEW k \in Nat, NEW n \in Nat,
         NEW u, u = [t EXCEPT !.at = at, !.code = k, !.tries = n]
  PROVE  u \in Ask /\ u.at = at /\ u.code = k /\ u.tries = n /\ u.cart = t.cart
BY DEF Ask

\* A drawn code.
Code == [cart : Carts, phone : Phones]

LEMMA CodesTyped == TypeOK => codes \in Seq(Code) /\ Len(codes) \in Nat
BY DEF TypeOK, Code

LEMMA CodeTyped == ASSUME TypeOK, NEW k \in 1 .. Len(codes) PROVE codes[k] \in Code
BY CodesTyped

LEMMA Asleep == Idle.at \notin Points
BY DEF Idle, Points

LEMMA PlainAsk ==
  ASSUME NEW t, t.at \in {"expire", "setCode"}
  PROVE  AskingNext(t)
BY DEF AskingNext, Writing

LEMMA SendCodePhone ==
  ASSUME Limits, PhoneInv, NEW r \in Requests, NEW c \in Carts, NEW p \in Phones,
         SendCode(r, c, p)
  PROVE  PhoneInv'
<1> DEFINE n == sends[p].count + 1
           at == IF n = 1 THEN "expire" ELSE "setCode"
           t == [at |-> at, cart |-> c, phone |-> p, code |-> 0, tries |-> 0]
<1>1. UNCHANGED <<codes, pending, verified, confirmed, proved, wrong, crashes, leaked>>
  BY DEF SendCode
<1>2. TypeOK'
  <2>1. sends' \in [Phones -> [count : Nat, expires : BOOLEAN]]
    <3> HIDE DEF n
    <3>1. sends' = [sends EXCEPT ![p].count = n]
      BY DEF SendCode, n
    <3>2. n \in Nat /\ sends[p] \in [count : Nat, expires : BOOLEAN]
      BY DEF PhoneInv, TypeOK, n
    <3>3. [sends[p] EXCEPT !.count = n] \in [count : Nat, expires : BOOLEAN]
      BY <3>2
    <3> QED
      BY <3>1, <3>3 DEF PhoneInv, TypeOK
  <2>2. cooldown' \subseteq Carts /\ overlapped' \subseteq Carts
    BY DEF PhoneInv, TypeOK, SendCode, Begin
  <2> QED
    BY <1>1, <2>1, <2>2 DEF PhoneInv, TypeOK
<1>3. Shape' /\ Asked'
  <2>1. CASE UNCHANGED req
    BY <1>1, <2>1, AskStill DEF PhoneInv
  <2>2. CASE req' = [req EXCEPT ![r] = t]
    <3>1. t \in Ask /\ t.at \in {"expire", "setCode"}
      BY DEF Ask, Points
    <3> HIDE DEF t
    <3>2. Grows
      BY <1>1, GrowsStill DEF PhoneInv
    <3>3. AskingNext(t)
      BY <3>1, PlainAsk
    <3> QED
      BY <2>2, <3>1, <3>2, <3>3, AskFrame DEF PhoneInv
  <2> QED
    BY <2>1, <2>2 DEF SendCode, Begin
<1>4. Pair' /\ PhoneProved'
  BY <1>1, PairStill, ProvedStill DEF PhoneInv
<1> QED
  BY <1>2, <1>3, <1>4 DEF PhoneInv

LEMMA SetCodeGrows ==
  ASSUME TypeOK, NEW c \in Carts, NEW p \in Phones, Len(codes) < MaxCodes, proved' = proved,
         codes' = Append(codes, [cart |-> c, phone |-> p])
  PROVE  /\ Grows
         /\ codes' \in Seq([cart : Carts, phone : Phones])
         /\ Len(codes') = Len(codes) + 1 /\ codes'[Len(codes) + 1].cart = c
BY DEF Grows, TypeOK

LEMMA SetCodePhone ==
  ASSUME Limits, PhoneInv, NEW r \in Requests, SetCode(r)
  PROVE  PhoneInv'
<1>1. /\ req[r] \in Ask /\ req[r].cart \in Carts /\ req[r].phone \in Phones
      /\ req' = [req EXCEPT ![r] = Idle]
      /\ UNCHANGED <<sends, verified, confirmed, proved, wrong, overlapped, leaked, crashes>>
      /\ Len(codes) < MaxCodes
  BY DEF SetCode, Answer, PhoneInv, Shape, Ask, Idle, ghosts
<1> DEFINE c == req[r].cart
<1>2. CASE /\ codes' = Append(codes, [cart |-> c, phone |-> req[r].phone])
           /\ pending' = [pending EXCEPT ![c] = [code |-> Len(codes) + 1, tries |-> 0]]
           /\ UNCHANGED cooldown
  <2>1. /\ Grows
        /\ codes' \in Seq([cart : Carts, phone : Phones])
        /\ Len(codes') = Len(codes) + 1 /\ codes'[Len(codes) + 1].cart = c
    BY <1>1, <1>2, SetCodeGrows DEF PhoneInv
  <2>2. Len(codes) \in Nat
    BY DEF PhoneInv, TypeOK
  <2>3. pending' \in [Carts -> [code : 0 .. Len(codes'), tries : 0 .. MaxAttempts - 1]]
    BY <1>1, <1>2, <2>1, <2>2 DEF PhoneInv, TypeOK, Limits
  <2>4. TypeOK'
    <3>1. Len(codes') <= MaxCodes /\ UNCHANGED cooldown
      BY <1>1, <1>2, <2>1, <2>2 DEF Limits
    <3> QED
      BY <1>1, <2>1, <2>3, <3>1 DEF PhoneInv, TypeOK
  <2>5. Shape' /\ Asked'
    BY <1>1, <2>1, AskFrame DEF PhoneInv
  <2>6. Pair'
    <3> SUFFICES ASSUME NEW d \in Carts, pending'[d].code # 0
                 PROVE  codes'[pending'[d].code].cart = d
      BY DEF Pair
    <3>1. CASE d = c
      BY <1>1, <1>2, <2>1, <3>1 DEF PhoneInv, TypeOK
    <3>2. CASE d # c
      <4>1. pending'[d] = pending[d] /\ pending[d].code \in 1 .. Len(codes)
        BY <1>2, <2>2, <3>2 DEF PhoneInv, TypeOK
      <4> QED
        BY <2>1, <4>1 DEF PhoneInv, Pair, Grows
    <3> QED
      BY <3>1, <3>2
  <2> QED
    BY <1>1, <2>4, <2>5, <2>6, ProvedStill DEF PhoneInv
<1>3. CASE /\ pending' = [pending EXCEPT ![c] = NoCode]
           /\ cooldown' = cooldown \ {c}
           /\ UNCHANGED codes
  <2>1. TypeOK'
    BY <1>1, <1>3 DEF PhoneInv, TypeOK, Limits, NoCode
  <2>2. Grows
    BY <1>1, <1>3, GrowsStill DEF PhoneInv
  <2>3. Shape' /\ Asked'
    BY <1>1, <2>2, AskFrame DEF PhoneInv
  <2>4. Pair'
    BY <1>1, <1>3 DEF PhoneInv, TypeOK, Pair, NoCode
  <2> QED
    BY <1>1, <2>1, <2>3, <2>4, ProvedStill DEF PhoneInv
<1> QED
  BY <1>2, <1>3 DEF SetCode

LEMMA VerifyPhone ==
  ASSUME Limits, PhoneInv, NEW r \in Requests, NEW c \in Carts, NEW p \in Phones,
         NEW k \in 0 .. Len(codes), Verify(r, c, p, k)
  PROVE  PhoneInv'
<1> DEFINE t == [at |-> "compare", cart |-> c, phone |-> p, code |-> k, tries |-> 0]
<1>1. /\ UNCHANGED <<codes, pending, cooldown, sends, verified, confirmed, wrong, leaked, crashes>>
      /\ req' = [req EXCEPT ![r] = t]
      /\ proved \subseteq proved' /\ proved' \subseteq Carts \X Phones
      /\ k # 0 /\ codes[k] = [cart |-> c, phone |-> p] => <<c, p>> \in proved'
      /\ overlapped' \subseteq Carts
  BY DEF Verify, Begin, redis, PhoneInv, TypeOK
<1>2. k \in Nat /\ k <= Len(codes)
  BY DEF PhoneInv, TypeOK
<1>3. /\ t \in Ask /\ t.at = "compare" /\ t.cart = c /\ t.phone = p /\ t.code = k
  BY <1>2 DEF Ask, Points
<1> HIDE DEF t
<1>4. AskingNext(t)
  BY <1>1, <1>2, <1>3 DEF AskingNext, Writing
<1>5. Grows
  BY <1>1, GrowsStill DEF PhoneInv
<1>6. Shape' /\ Asked'
  BY <1>1, <1>3, <1>4, <1>5, AskFrame DEF PhoneInv
<1>7. TypeOK'
  BY <1>1 DEF PhoneInv, TypeOK
<1>8. Pair' /\ PhoneProved'
  BY <1>1, PairStill, ProvedStill DEF PhoneInv
<1> QED
  BY <1>6, <1>7, <1>8 DEF PhoneInv

LEMMA ComparePhone ==
  ASSUME Limits, PhoneInv, NEW r \in Requests, Compare(r)
  PROVE  PhoneInv'
<1> DEFINE c == req[r].cart
           k == pending[c].code
           n == pending[c].tries + 1
<1>1. /\ UNCHANGED <<codes, pending, cooldown, sends, verified, confirmed, proved, overlapped,
                     leaked, crashes>>
      /\ req[r].at = "compare" /\ req[r] # Idle /\ req[r] \in Ask /\ Asking(req[r]) /\ c \in Carts
      /\ req[r].phone \in Phones
  BY DEF Compare, redis, PhoneInv, Shape, Asked, Ask, Idle
<1>2. Grows
  BY <1>1, GrowsStill DEF PhoneInv
<1>3. pending[c] \in [code : 0 .. Len(codes), tries : 0 .. MaxAttempts - 1]
  BY <1>1 DEF PhoneInv, TypeOK
<1>4. /\ k \in 0 .. Len(codes) /\ n \in 1 .. MaxAttempts /\ Len(codes) \in Nat
      /\ k # 0 => codes[k] \in [cart : Carts, phone : Phones] /\ codes[k].cart = c
  <2>1. k \in 0 .. Len(codes) /\ pending[c].tries \in 0 .. MaxAttempts - 1
    BY <1>3
  <2>2. Len(codes) \in Nat /\ codes \in Seq([cart : Carts, phone : Phones])
    BY DEF PhoneInv, TypeOK
  <2>3. n \in 1 .. MaxAttempts
    BY <2>1 DEF Limits
  <2>4. k # 0 => codes[k].cart = c
    BY <1>1 DEF PhoneInv, Pair
  <2> HIDE DEF k, n
  <2>5. ASSUME k # 0 PROVE codes[k] \in [cart : Carts, phone : Phones]
    <3>1. k \in 1 .. Len(codes)
      BY <2>1, <2>2, <2>5
    <3> QED
      BY <3>1, CodeTyped DEF PhoneInv, Code
  <2> QED
    BY <2>1, <2>2, <2>3, <2>4, <2>5
<1>5. PhoneProved' /\ Pair'
  BY <1>1, PairStill, ProvedStill DEF PhoneInv
<1>6. CASE Answer(r) /\ UNCHANGED wrong
  <2>1. TypeOK'
    BY <1>1, <1>6 DEF PhoneInv, TypeOK
  <2> QED
    BY <1>2, <1>5, <1>6, <2>1, AskFrame DEF PhoneInv, Answer
<1>7. CASE /\ k # 0 /\ codes[k].phone = req[r].phone /\ req[r].code = k
           /\ Goto(r, "delCode") /\ UNCHANGED wrong
  <2> DEFINE t == [req[r] EXCEPT !.at = "delCode"]
  <2>1. req' = [req EXCEPT ![r] = t]
    BY <1>7 DEF Goto
  <2>2. t \in Ask /\ t.at = "delCode" /\ t.cart = c /\ t.phone = req[r].phone
    BY <1>1 DEF Ask, Points
  <2> HIDE DEF t
  <2>3. codes[k] = [cart |-> c, phone |-> req[r].phone]
    BY <1>4, <1>7
  <2>4. <<c, req[r].phone>> \in proved
    BY <1>1, <1>7, <2>3 DEF Asking
  <2>5. AskingNext(t)
    BY <1>1, <2>2, <2>4 DEF AskingNext, Writing
  <2>6. Shape' /\ Asked'
    BY <1>2, <2>1, <2>2, <2>5, AskFrame DEF PhoneInv
  <2>7. TypeOK'
    BY <1>1, <1>7 DEF PhoneInv, TypeOK
  <2> QED
    BY <1>5, <2>6, <2>7 DEF PhoneInv
<1>8. CASE /\ k # 0
           /\ wrong' = [wrong EXCEPT ![k] = @ + 1]
           /\ req' = [req EXCEPT ![r].at = IF n >= MaxAttempts THEN "dropCode" ELSE "putBack",
                                 ![r].code = k, ![r].tries = n]
  <2> DEFINE at == IF n >= MaxAttempts THEN "dropCode" ELSE "putBack"
             t == [req[r] EXCEPT !.at = at, !.code = k, !.tries = n]
  <2>1. req' = [req EXCEPT ![r] = t]
    BY <1>8, <1>1 DEF PhoneInv, Shape
  <2>2. at \in Writing /\ at \in Points /\ (at = "putBack" => n < MaxAttempts)
    BY <1>4 DEF Writing, Points, Limits
  <2> HIDE DEF at, k, n
  <2>a. k \in Nat /\ n \in Nat
    BY <1>4
  <2>3. /\ t \in Ask /\ t.at = at /\ t.code = k /\ t.cart = c /\ t.tries = n
    BY <1>1, <2>a, <2>2, Recount DEF Ask
  <2> HIDE DEF t, c
  <2>4. AskingNext(t)
    BY <1>1, <1>4, <1>8, <2>2, <2>3 DEF AskingNext, Writing
  <2>5. Shape' /\ Asked'
    BY <1>2, <2>1, <2>3, <2>4, AskFrame DEF PhoneInv
  <2>6. wrong' \in [1 .. MaxCodes -> Nat]
    <3> HIDE DEF k
    <3>1. wrong \in [1 .. MaxCodes -> Nat] /\ Len(codes) <= MaxCodes
      BY DEF PhoneInv, TypeOK
    <3>2. k \in 1 .. MaxCodes
      BY <1>4, <1>8, <3>1 DEF Limits
    <3> QED
      BY <1>8, <3>1, <3>2
  <2>7. TypeOK'
    BY <1>1, <2>6 DEF PhoneInv, TypeOK
  <2> QED
    BY <1>5, <2>5, <2>7 DEF PhoneInv
<1> QED
  BY <1>6, <1>7, <1>8 DEF Compare, SentTo, Spent

LEMMA ExpireSendsPhone ==
  ASSUME PhoneInv, NEW r \in Requests, ExpireSends(r)
  PROVE  PhoneInv'
<1> DEFINE t == [req[r] EXCEPT !.at = "setCode"]
<1>1. /\ UNCHANGED <<codes, pending, cooldown, verified, confirmed, proved, wrong, overlapped,
                     leaked, crashes>>
      /\ req[r] # Idle /\ req[r] \in Ask /\ req' = [req EXCEPT ![r] = t]
  BY DEF ExpireSends, Goto, ghosts, PhoneInv, Shape, Idle
<1>2. t \in Ask /\ t.at = "setCode"
  BY <1>1 DEF Ask, Points
<1> HIDE DEF t
<1>3. sends' \in [Phones -> [count : Nat, expires : BOOLEAN]]
  BY DEF ExpireSends, Expires, PhoneInv, TypeOK
<1>4. TypeOK'
  BY <1>1, <1>3 DEF PhoneInv, TypeOK
<1>5. Shape' /\ Asked'
  <2>1. AskingNext(t) /\ Grows
    BY <1>1, <1>2, PlainAsk, GrowsStill DEF PhoneInv
  <2> QED
    BY <1>1, <1>2, <2>1, AskFrame DEF PhoneInv
<1> QED
  BY <1>1, <1>4, <1>5, PairStill, ProvedStill DEF PhoneInv

LEMMA PutBackPhone ==
  ASSUME Limits, PhoneInv, NEW r \in Requests, PutBack(r)
  PROVE  PhoneInv'
<1>1. /\ UNCHANGED <<codes, cooldown, sends, verified, confirmed, proved, wrong, overlapped,
                     leaked, crashes>>
      /\ req[r].at = "putBack" /\ req[r] \in Ask /\ Asking(req[r])
      /\ req' = [req EXCEPT ![r] = Idle]
      /\ pending' = [pending EXCEPT ![req[r].cart] = [code |-> req[r].code, tries |-> req[r].tries]]
  BY DEF PutBack, Counted, Answer, ghosts, PhoneInv, Shape, Asked, Idle
<1>2. /\ req[r].cart \in Carts /\ req[r].code \in 1 .. Len(codes)
      /\ codes[req[r].code].cart = req[r].cart
      /\ req[r].tries \in 0 .. MaxAttempts - 1 /\ Len(codes) \in Nat
  BY <1>1, CodesTyped DEF Asking, Writing, Ask, Limits, PhoneInv
<1>3. TypeOK'
  <2>1. pending' \in [Carts -> [code : 0 .. Len(codes), tries : 0 .. MaxAttempts - 1]]
    BY <1>1, <1>2 DEF PhoneInv, TypeOK
  <2> QED
    BY <1>1, <2>1 DEF PhoneInv, TypeOK
<1>4. Pair'
  BY <1>1, <1>2 DEF PhoneInv, Pair, TypeOK
<1>5. Shape' /\ Asked'
  BY <1>1, GrowsStill, AskFrame DEF PhoneInv
<1> QED
  BY <1>1, <1>3, <1>4, <1>5, ProvedStill DEF PhoneInv

LEMMA NoCodePhone ==
  ASSUME Limits, PhoneInv, NEW c, pending' = [pending EXCEPT ![c] = NoCode],
         UNCHANGED <<codes, cooldown, sends, verified, confirmed, ghosts>>
  PROVE  TypeOK' /\ Pair' /\ PhoneProved'
<1>1. TypeOK'
  <2>1. NoCode \in [code : 0 .. Len(codes), tries : 0 .. MaxAttempts - 1]
    BY CodesTyped DEF PhoneInv, NoCode, Limits
  <2>2. pending' \in [Carts -> [code : 0 .. Len(codes), tries : 0 .. MaxAttempts - 1]]
    BY <2>1 DEF PhoneInv, TypeOK
  <2> QED
    BY <2>2 DEF PhoneInv, TypeOK, ghosts
<1>2. Pair'
  BY DEF PhoneInv, TypeOK, Pair, NoCode
<1> QED
  BY <1>1, <1>2, ProvedStill DEF PhoneInv, ghosts

LEMMA DropCodePhone ==
  ASSUME Limits, PhoneInv, NEW r \in Requests, DropCode(r)
  PROVE  PhoneInv'
<1> DEFINE t == [req[r] EXCEPT !.at = "setVerified"]
<1>1. /\ UNCHANGED <<codes, proved>>
      /\ req[r].at \in {"dropCode", "delCode"} /\ req[r] # Idle
      /\ req[r] \in Ask /\ Asking(req[r])
      /\ \/ req' = [req EXCEPT ![r] = Idle]
         \/ req[r].at = "delCode" /\ req' = [req EXCEPT ![r] = t]
  BY DEF DropCode, Answer, Goto, ghosts, PhoneInv, Shape, Asked, Idle
<1>2. /\ t \in Ask /\ t.at = "setVerified"
      /\ t.cart = req[r].cart /\ t.phone = req[r].phone
  BY <1>1 DEF Ask, Points
<1> HIDE DEF t
<1>3. req[r].at = "delCode" => AskingNext(t)
  BY <1>1, <1>2 DEF Asking, AskingNext, Writing
<1>4. Shape' /\ Asked'
  BY <1>1, <1>2, <1>3, GrowsStill, AskFrame DEF PhoneInv
<1> QED
  BY <1>4, NoCodePhone DEF DropCode, PhoneInv

LEMMA SetVerifiedPhone ==
  ASSUME PhoneInv, NEW r \in Requests, SetVerified(r)
  PROVE  PhoneInv'
<1>1. /\ UNCHANGED <<codes, pending, cooldown, sends, confirmed, proved, wrong, overlapped,
                     leaked, crashes>>
      /\ req[r].at = "setVerified" /\ req[r] \in Ask /\ Asking(req[r])
      /\ req' = [req EXCEPT ![r] = Idle]
      /\ verified' = [verified EXCEPT ![req[r].cart] = req[r].phone]
  BY DEF SetVerified, Answer, ghosts, PhoneInv, Shape, Asked, Idle
<1>2. req[r].cart \in Carts /\ req[r].phone \in Phones /\ <<req[r].cart, req[r].phone>> \in proved
  BY <1>1 DEF Ask, Asking
<1>3. TypeOK'
  BY <1>1, <1>2 DEF PhoneInv, TypeOK
<1>4. PhoneProved'
  BY <1>1, <1>2 DEF PhoneInv, PhoneProved, TypeOK
<1>5. Shape' /\ Asked'
  BY <1>1, GrowsStill, AskFrame DEF PhoneInv
<1> QED
  BY <1>1, <1>3, <1>4, <1>5, PairStill DEF PhoneInv

LEMMA PlaceOrderPhone ==
  ASSUME PhoneInv, NEW c \in Carts, NEW p \in Phones, PlaceOrder(c, p)
  PROVE  PhoneInv'
<1>1. /\ UNCHANGED <<codes, pending, cooldown, sends, verified, proved, wrong, overlapped,
                     leaked, crashes, req>>
      /\ verified[c] = p \/ confirmed[c] = p
      /\ confirmed' = [confirmed EXCEPT ![c] = p]
  BY DEF PlaceOrder, Known, redis, ghosts
<1>2. p # None => <<c, p>> \in proved
  BY <1>1 DEF PhoneInv, PhoneProved
<1>3. TypeOK'
  BY <1>1 DEF PhoneInv, TypeOK
<1>4. PhoneProved'
  BY <1>1, <1>2 DEF PhoneInv, PhoneProved, TypeOK
<1> QED
  BY <1>1, <1>3, <1>4, AskStill, PairStill DEF PhoneInv

LEMMA ExpiryPhone ==
  ASSUME Limits, PhoneInv, NEW c \in Carts,
         ExpireCode(c) \/ ExpireCooldown(c) \/ ExpireVerified(c)
  PROVE  PhoneInv'
<1>1. UNCHANGED <<codes, proved, req>>
  BY DEF ExpireCode, ExpireCooldown, ExpireVerified, ghosts
<1>2. Shape' /\ Asked'
  BY <1>1, AskStill DEF PhoneInv
<1>3. CASE ExpireCode(c)
  BY <1>2, <1>3, NoCodePhone DEF ExpireCode, PhoneInv
<1>4. CASE ExpireCooldown(c)
  <2>1. TypeOK'
    BY <1>4 DEF ExpireCooldown, PhoneInv, TypeOK, ghosts
  <2> QED
    BY <1>2, <1>4, <2>1, PairStill, ProvedStill DEF ExpireCooldown, PhoneInv, ghosts
<1>5. CASE ExpireVerified(c)
  <2>1. TypeOK'
    BY <1>5 DEF ExpireVerified, PhoneInv, TypeOK, ghosts
  <2>2. PhoneProved'
    BY <1>5 DEF ExpireVerified, PhoneInv, PhoneProved, TypeOK, ghosts
  <2> QED
    BY <1>2, <1>5, <2>1, <2>2, PairStill DEF ExpireVerified, PhoneInv
<1> QED
  BY <1>3, <1>4, <1>5

LEMMA CrashPhone ==
  ASSUME Limits, PhoneInv, NEW r \in Requests, Crash(r)
  PROVE  PhoneInv'
<1>1. /\ UNCHANGED <<codes, pending, cooldown, sends, verified, confirmed, proved, wrong, overlapped>>
      /\ req[r] # Idle /\ req[r] \in Ask
      /\ req' = [req EXCEPT ![r] = Idle]
      /\ crashes < MaxCrashes /\ crashes' = crashes + 1
      /\ leaked' \subseteq leaked \cup {req[r].phone}
  BY DEF Crash, Answer, redis, PhoneInv, Shape
<1>2. TypeOK'
  <2>1. leaked' \subseteq Phones
    BY <1>1 DEF PhoneInv, TypeOK, Ask
  <2>2. crashes' \in 0 .. MaxCrashes
    BY <1>1 DEF PhoneInv, TypeOK, Limits
  <2> QED
    BY <1>1, <2>1, <2>2 DEF PhoneInv, TypeOK
<1>3. Shape' /\ Asked'
  BY <1>1, GrowsStill, AskFrame DEF PhoneInv
<1> QED
  BY <1>1, <1>2, <1>3, PairStill, ProvedStill DEF PhoneInv

LEMMA NextPhone ==
  ASSUME Limits
  PROVE  PhoneInv /\ [Next]_vars => PhoneInv'
<1> SUFFICES ASSUME PhoneInv, [Next]_vars PROVE PhoneInv'
  OBVIOUS
<1>1. ASSUME NEW r \in Requests, NEW c \in Carts, NEW p \in Phones, SendCode(r, c, p)
      PROVE  PhoneInv'
  BY <1>1, SendCodePhone
<1>2. ASSUME NEW r \in Requests, NEW c \in Carts, NEW p \in Phones, NEW k \in 0 .. Len(codes),
             Verify(r, c, p, k)
      PROVE  PhoneInv'
  BY <1>2, VerifyPhone
<1>3. ASSUME NEW r \in Requests, Step(r) \/ Crash(r) PROVE PhoneInv'
  BY <1>3, ExpireSendsPhone, SetCodePhone, ComparePhone, PutBackPhone, DropCodePhone,
     SetVerifiedPhone, CrashPhone DEF Step
<1>4. ASSUME NEW c \in Carts, NEW p \in Phones, PlaceOrder(c, p) PROVE PhoneInv'
  BY <1>4, PlaceOrderPhone
<1>5. ASSUME NEW c \in Carts, ExpireCode(c) \/ ExpireCooldown(c) \/ ExpireVerified(c)
      PROVE  PhoneInv'
  BY <1>5, ExpiryPhone
<1>6. ASSUME NEW p \in Phones, HourEnds(p) PROVE PhoneInv'
  <2>1. TypeOK'
    BY <1>6 DEF HourEnds, PhoneInv, TypeOK, ghosts
  <2> QED
    BY <1>6, <2>1, AskStill, PairStill, ProvedStill DEF HourEnds, PhoneInv, ghosts
<1>7. CASE UNCHANGED vars
  <2>1. TypeOK'
    BY <1>7 DEF vars, redis, ghosts, PhoneInv, TypeOK
  <2> QED
    BY <1>7, <2>1, AskStill, PairStill, ProvedStill DEF vars, redis, ghosts, PhoneInv
<1> QED
  BY <1>1, <1>2, <1>3, <1>4, <1>5, <1>6, <1>7 DEF Next

LEMMA InitPhone == Limits /\ Init => PhoneInv
<1> SUFFICES ASSUME Limits, Init PROVE PhoneInv
  OBVIOUS
<1>1. TypeOK
  <2>1. codes \in Seq([cart : Carts, phone : Phones]) /\ Len(codes) = 0
    BY DEF Init
  <2> QED
    BY <2>1 DEF Init, TypeOK, Limits, NoCode
<1> QED
  BY <1>1 DEF Init, PhoneInv, Shape, Asked, Pair, PhoneProved, NoCode

LEMMA AlwaysPhone == ASSUME Limits PROVE Spec => []PhoneInv
BY InitPhone, NextPhone, PTL DEF Spec

(* Every variable of the phone check keeps its type: attempts stay below    *)
(* MAX_ATTEMPTS while a code waits, whatever is resent and expires.         *)
THEOREM PhoneTypes == ASSUME Limits PROVE Spec => []TypeOK
<1>1. PhoneInv => TypeOK
  BY DEF PhoneInv
<1> QED
  BY <1>1, AlwaysPhone, PTL

(* An order placed with only a phone, and every phone kept as confirmed,    *)
(* belongs to somebody who typed back the code texted to that phone for     *)
(* that cart: whatever requests of any carts overlap, crash, are resent or  *)
(* expire.                                                                  *)
THEOREM PhonesProved == ASSUME Limits PROVE Spec => []PhoneProved
<1>1. PhoneInv => PhoneProved
  BY DEF PhoneInv
<1> QED
  BY <1>1, AlwaysPhone, PTL

-----------------------------------------------------------------------------
(* Attempts. *)

(* The same, of the next state. *)
TallyNext(c, k) ==
  c \notin overlapped' =>
    /\ wrong'[k] <= MaxAttempts + crashes'
    /\ \A r \in Requests : Writes(req'[r], c, k) =>
         /\ wrong'[k] <= req'[r].tries + crashes'
         /\ pending'[c].code = k => req'[r].tries <= pending'[c].tries + 1
    /\ pending'[c].code = k /\ (\A r \in Requests : ~Writes(req'[r], c, k)) =>
         wrong'[k] <= pending'[c].tries + crashes'

LEMMA TallyPrimed ==
  ASSUME OneByOne', Blank', \A k \in 1 .. Len(codes') : TallyNext(codes'[k].cart, k)
  PROVE  TallyInv'
<1>1. (\A k \in 1 .. Len(codes) : Tally(codes[k].cart, k))'
  BY DEF Tally, TallyNext, Writes
<1> QED
  BY <1>1 DEF TallyInv

(* One request moves on its cart, ends or starts. *)
LEMMA OneFrame ==
  ASSUME Shape, OneByOne, NEW r \in Requests, NEW t, req' = [req EXCEPT ![r] = t],
         overlapped \subseteq overlapped',
         \/ t = Idle
         \/ req[r] # Idle /\ t.cart = req[r].cart
         \/ (\E q \in Requests : req[q].cart = t.cart) => t.cart \in overlapped'
  PROVE  OneByOne'
<1> SUFFICES ASSUME NEW p \in Requests, NEW q \in Requests, p # q, req'[p] # Idle, req'[q] # Idle,
                    req'[p].cart = req'[q].cart
             PROVE  req'[q].cart \in overlapped'
  BY DEF OneByOne
<1>1. /\ p = r => req'[p] = t /\ req'[q] = req[q]
      /\ q = r => req'[q] = t /\ req'[p] = req[p]
      /\ p # r /\ q # r => req'[q] = req[q] /\ req'[p] = req[p]
  BY DEF Shape
<1>2. CASE p = r
  BY <1>1, <1>2 DEF OneByOne
<1>3. CASE q = r
  BY <1>1, <1>3 DEF OneByOne
<1>4. CASE p # r /\ q # r
  BY <1>1, <1>4 DEF OneByOne
<1> QED
  BY <1>2, <1>3, <1>4

LEMMA OneStill == OneByOne /\ UNCHANGED <<req, overlapped>> => OneByOne'
BY DEF OneByOne

(* A request of a cart that never overlapped is its only one. *)
LEMMA Lone ==
  ASSUME OneByOne, NEW r \in Requests, req[r] # Idle, req[r].cart \notin overlapped
  PROVE  \A q \in Requests \ {r} : \A k : ~Writes(req[q], req[r].cart, k)
BY Asleep DEF OneByOne, Writes, Writing, Points

LEMMA Counts ==
  ASSUME PhoneInv, Limits
  PROVE  /\ crashes \in Nat /\ Len(codes) \in Nat
         /\ \A k \in 1 .. MaxCodes : wrong[k] \in Nat
         /\ \A c \in Carts : pending[c].tries \in 0 .. MaxAttempts - 1
                                /\ pending[c].code \in 0 .. Len(codes)
         /\ \A r \in Requests : req[r].tries \in Nat
         /\ \A k \in 1 .. Len(codes) : codes[k].cart \in Carts /\ k \in 1 .. MaxCodes
<1>1. /\ crashes \in Nat /\ Len(codes) \in Nat /\ Len(codes) <= MaxCodes
      /\ \A k \in 1 .. MaxCodes : wrong[k] \in Nat
  BY CodesTyped DEF PhoneInv, TypeOK
<1>2. \A c \in Carts : pending[c] \in [code : 0 .. Len(codes), tries : 0 .. MaxAttempts - 1]
  BY DEF PhoneInv, TypeOK
<1>3. \A r \in Requests : req[r].tries \in Nat
  BY DEF PhoneInv, Shape, Ask, Idle
<1>4. \A k \in 1 .. Len(codes) : codes[k].cart \in Carts
  BY CodeTyped DEF PhoneInv, Code
<1> QED
  BY <1>1, <1>2, <1>3, <1>4 DEF Limits

\* What counts the guesses is not written.
Unwritten ==
  /\ UNCHANGED <<codes, pending, wrong, crashes>>
  /\ overlapped \subseteq overlapped'
  /\ \A q \in Requests : \A c, k :
       Writes(req[q], c, k) \/ Writes(req'[q], c, k) => req'[q] = req[q]

LEMMA TallyStill == TallyInv /\ Unwritten /\ OneByOne' => TallyInv'
<1> SUFFICES ASSUME TallyInv, Unwritten, OneByOne' PROVE TallyInv'
  OBVIOUS
<1>1. Blank'
  BY DEF TallyInv, Blank, Unwritten
<1>2. ASSUME NEW k \in 1 .. Len(codes) PROVE TallyNext(codes[k].cart, k)
  <2>1. Tally(codes[k].cart, k)
    BY DEF TallyInv
  <2> QED
    BY <2>1 DEF Tally, TallyNext, Unwritten
<1>3. UNCHANGED codes
  BY DEF Unwritten
<1> QED
  BY <1>1, <1>2, <1>3, TallyPrimed

(* A request goes from a step that writes no count to another. *)
LEMMA UnwrittenMove ==
  ASSUME Shape, NEW r \in Requests, NEW t, req' = [req EXCEPT ![r] = t],
         req[r].at \notin Writing, t.at \notin Writing,
         UNCHANGED <<codes, pending, wrong, crashes>>, overlapped \subseteq overlapped'
  PROVE  Unwritten
BY DEF Unwritten, Writes, Shape

(* The pending code of a cart is dropped. *)
LEMMA TallyDrop ==
  ASSUME Limits, PhoneInv, TallyInv, NEW c \in Carts, pending' = [pending EXCEPT ![c] = NoCode],
         UNCHANGED <<codes, wrong, crashes, overlapped>>, OneByOne',
         \A q \in Requests : \A d, k : Writes(req'[q], d, k) => req'[q] = req[q],
         \A q \in Requests : \A d, k : d # c /\ Writes(req[q], d, k) => req'[q] = req[q]
  PROVE  TallyInv'
<1>1. Blank'
  BY DEF TallyInv, Blank
<1>2. ASSUME NEW k \in 1 .. Len(codes) PROVE TallyNext(codes[k].cart, k)
  <2> DEFINE d == codes[k].cart
  <2>1. Tally(d, k) /\ d \in Carts /\ k # 0
    BY Counts DEF TallyInv
  <2> HIDE DEF d
  <2>2. CASE d = c
    <3>1. pending'[d].code = 0
      BY <2>2 DEF PhoneInv, TypeOK, NoCode
    <3>2. TallyNext(d, k)
      BY <2>1, <3>1 DEF Tally, TallyNext
    <3> QED
      BY <3>2 DEF d
  <2>3. CASE d # c
    <3>1. pending'[d] = pending[d]
      BY <2>1, <2>3 DEF PhoneInv, TypeOK
    <3>2. TallyNext(d, k)
      BY <2>1, <2>3, <3>1 DEF Tally, TallyNext
    <3> QED
      BY <3>2 DEF d
  <2> QED
    BY <2>2, <2>3
<1> QED
  BY <1>1, <1>2, TallyPrimed

LEMMA SendCodeTally ==
  ASSUME Limits, PhoneInv, TallyInv, NEW r \in Requests, NEW c \in Carts, NEW p \in Phones,
         SendCode(r, c, p)
  PROVE  TallyInv'
<1> DEFINE at == IF sends[p].count + 1 = 1 THEN "expire" ELSE "setCode"
           t == [at |-> at, cart |-> c, phone |-> p, code |-> 0, tries |-> 0]
<1>1. UNCHANGED <<codes, pending, wrong, crashes>>
  BY DEF SendCode
<1>2. CASE UNCHANGED <<req, overlapped>>
  BY <1>1, <1>2, OneStill, TallyStill DEF TallyInv, Unwritten
<1>3. CASE Begin(r, at, c, p, 0)
  <2>1. /\ req[r].at \notin Writing /\ req' = [req EXCEPT ![r] = t]
        /\ overlapped \subseteq overlapped'
        /\ (\E q \in Requests : req[q].cart = c) => c \in overlapped'
    BY <1>3 DEF Begin, Idle, Writing
  <2>2. t.at \notin Writing /\ t.cart = c
    BY DEF Writing
  <2> HIDE DEF t
  <2>3. OneByOne'
    BY <2>1, <2>2, OneFrame DEF PhoneInv, TallyInv
  <2>4. Unwritten
    BY <1>1, <2>1, <2>2, UnwrittenMove DEF PhoneInv
  <2> QED
    BY <2>3, <2>4, TallyStill
<1> QED
  BY <1>2, <1>3 DEF SendCode

LEMMA VerifyTally ==
  ASSUME Limits, PhoneInv, TallyInv, NEW r \in Requests, NEW c \in Carts, NEW p \in Phones,
         NEW k \in 0 .. Len(codes), Verify(r, c, p, k)
  PROVE  TallyInv'
<1> DEFINE t == [at |-> "compare", cart |-> c, phone |-> p, code |-> k, tries |-> 0]
<1>1. /\ UNCHANGED <<codes, pending, wrong, crashes>>
      /\ req[r].at \notin Writing /\ req' = [req EXCEPT ![r] = t]
      /\ overlapped \subseteq overlapped'
      /\ (\E q \in Requests : req[q].cart = c) => c \in overlapped'
  BY DEF Verify, Begin, Idle, Writing, redis
<1>2. t.at \notin Writing /\ t.cart = c
  BY DEF Writing
<1> HIDE DEF t
<1>3. OneByOne'
  BY <1>1, <1>2, OneFrame DEF PhoneInv, TallyInv
<1>4. Unwritten
  BY <1>1, <1>2, UnwrittenMove DEF PhoneInv
<1> QED
  BY <1>3, <1>4, TallyStill

(* A request that writes no count moves to a step that writes none, or ends. *)
LEMMA PlainMove ==
  ASSUME Limits, PhoneInv, TallyInv, NEW r \in Requests, req[r] # Idle, req[r].at \notin Writing,
         UNCHANGED <<codes, pending, wrong, crashes, overlapped>>,
         NEW at \in Points \ Writing, Goto(r, at) \/ Answer(r)
  PROVE  TallyInv'
<1> DEFINE t == [req[r] EXCEPT !.at = at]
<1>1. req[r] \in Ask
  BY DEF PhoneInv, Shape
<1>2. t.at = at /\ t.cart = req[r].cart
  BY <1>1 DEF Ask
<1>3. req' = [req EXCEPT ![r] = t] \/ req' = [req EXCEPT ![r] = Idle]
  BY DEF Goto, Answer
<1>4. Idle.at \notin Writing
  BY DEF Idle, Writing
<1> HIDE DEF t
<1>5. OneByOne'
  BY <1>2, <1>3, OneFrame DEF PhoneInv, TallyInv
<1>6. Unwritten
  BY <1>2, <1>3, <1>4, UnwrittenMove DEF PhoneInv
<1> QED
  BY <1>5, <1>6, TallyStill

LEMMA SetCodeTally ==
  ASSUME Limits, PhoneInv, TallyInv, NEW r \in Requests, SetCode(r)
  PROVE  TallyInv'
<1> DEFINE c == req[r].cart
<1>1. /\ req[r] \in Ask /\ c \in Carts /\ req[r].phone \in Phones
      /\ req[r].at = "setCode" /\ req[r].at \notin Writing /\ req[r] # Idle
      /\ req' = [req EXCEPT ![r] = Idle]
      /\ UNCHANGED <<wrong, crashes, overlapped, proved>>
      /\ Len(codes) < MaxCodes
  BY DEF SetCode, Answer, PhoneInv, Shape, Ask, Idle, ghosts, Writing
<1>2. OneByOne'
  BY <1>1, OneFrame DEF PhoneInv, TallyInv
<1>3. /\ req'[r] = Idle /\ \A q \in Requests \ {r} : req'[q] = req[q]
      /\ \A q \in Requests : \A d, k : Writes(req'[q], d, k) => req'[q] = req[q]
      /\ \A q \in Requests : \A d, k : Writes(req[q], d, k) => req'[q] = req[q]
  BY <1>1 DEF PhoneInv, Shape, Writes, Idle, Writing
<1>4. CASE pending' = [pending EXCEPT ![c] = NoCode] /\ UNCHANGED codes
  BY <1>1, <1>2, <1>3, <1>4, TallyDrop
<1>5. CASE /\ codes' = Append(codes, [cart |-> c, phone |-> req[r].phone])
           /\ pending' = [pending EXCEPT ![c] = [code |-> Len(codes) + 1, tries |-> 0]]
  <2>1. /\ \A k \in 1 .. Len(codes) : codes'[k] = codes[k]
        /\ Len(codes') = Len(codes) + 1 /\ codes'[Len(codes) + 1].cart = c /\ Len(codes) \in Nat
    BY <1>1, <1>5, SetCodeGrows DEF PhoneInv, Grows
  <2>2. Blank'
    BY <1>1, <2>1 DEF TallyInv, Blank
  <2>3. ASSUME NEW k \in 1 .. Len(codes) PROVE TallyNext(codes[k].cart, k)
    <3> DEFINE d == codes[k].cart
    <3>1. Tally(d, k) /\ d \in Carts /\ k # Len(codes) + 1
      BY <2>1, Counts DEF TallyInv
    <3>2. d = c => pending'[d].code # k
      BY <1>1, <1>5, <2>1, <3>1 DEF PhoneInv, TypeOK
    <3>3. d # c => pending'[d] = pending[d]
      BY <1>1, <1>5, <3>1 DEF PhoneInv, TypeOK
    <3> HIDE DEF d, c
    <3>4. TallyNext(d, k)
      BY <1>1, <1>3, <3>1, <3>2, <3>3 DEF Tally, TallyNext
    <3> QED
      BY <3>4 DEF d
  <2>4. TallyNext(c, Len(codes) + 1)
    <3> DEFINE n == Len(codes) + 1
    <3>1. n \in 1 .. MaxCodes /\ n > Len(codes)
      BY <1>1, <2>1 DEF Limits
    <3>2. wrong'[n] = 0
      BY <1>1, <3>1 DEF TallyInv, Blank
    <3>3. ASSUME NEW q \in Requests, Writes(req'[q], c, n) PROVE FALSE
      <4>1. Writes(req[q], c, n) /\ req[q] # Idle
        BY <1>3, <3>3, Asleep DEF Writes, Writing, Points
      <4>2. req[q].code \in 1 .. Len(codes)
        BY <4>1 DEF PhoneInv, Asked, Asking, Writes
      <4> QED
        BY <2>1, <4>1, <4>2 DEF Writes
    <3>4. pending'[c].tries = 0
      BY <1>1, <1>5 DEF PhoneInv, TypeOK
    <3>5. 0 <= MaxAttempts + crashes /\ 0 <= 0 + crashes
      BY Counts DEF Limits
    <3> HIDE DEF n, c
    <3>a. \A q \in Requests : ~Writes(req'[q], c, n)
      BY <3>3
    <3>b. wrong'[n] <= MaxAttempts + crashes' /\ wrong'[n] <= pending'[c].tries + crashes'
      BY <1>1, <3>2, <3>4, <3>5
    <3>6. TallyNext(c, n)
      BY <3>a, <3>b DEF TallyNext
    <3> QED
      BY <3>6 DEF n
  <2>5. ASSUME NEW k \in 1 .. Len(codes') PROVE TallyNext(codes'[k].cart, k)
    <3>1. k \in 1 .. Len(codes) \/ k = Len(codes) + 1
      BY <2>1
    <3> QED
      BY <2>1, <2>3, <2>4, <3>1
  <2> QED
    BY <1>2, <2>2, <2>5, TallyPrimed
<1> QED
  BY <1>4, <1>5 DEF SetCode

LEMMA OneMore ==
  ASSUME NEW w \in Nat, NEW x \in Nat, NEW y \in Nat, NEW m \in Nat, w <= x + y, x + 1 <= m
  PROVE  w + 1 <= x + 1 + y /\ w + 1 <= m + y
OBVIOUS

LEMMA CompareTally ==
  ASSUME Limits, PhoneInv, TallyInv, NEW r \in Requests, Compare(r)
  PROVE  TallyInv'
<1> DEFINE c == req[r].cart
           k == pending[c].code
           n == pending[c].tries + 1
           at == IF n >= MaxAttempts THEN "dropCode" ELSE "putBack"
           t == [req[r] EXCEPT !.at = at, !.code = k, !.tries = n]
<1>1. /\ UNCHANGED <<codes, pending, crashes, overlapped>>
      /\ req[r].at = "compare" /\ req[r] # Idle /\ req[r] \in Ask /\ c \in Carts
      /\ req[r].at \notin Writing
  BY DEF Compare, redis, PhoneInv, Shape, Ask, Idle, Writing
<1>2. CASE (Answer(r) \/ Goto(r, "delCode")) /\ UNCHANGED wrong
  BY <1>1, <1>2, PlainMove DEF Points, Writing
<1>3. CASE k # 0 /\ wrong' = [wrong EXCEPT ![k] = @ + 1] /\ req' = [req EXCEPT ![r] = t]
  <2>1. at \in Points /\ at \in Writing
    BY DEF Points, Writing
  <2>2. k \in 1 .. Len(codes) /\ n \in Nat /\ n <= MaxAttempts /\ n = pending[c].tries + 1
    <3>1. pending[c].tries \in Nat /\ pending[c].tries < MaxAttempts /\ k \in 1 .. Len(codes)
      <4>1. /\ c \in Carts /\ MaxAttempts \in Nat /\ Len(codes) \in Nat
            /\ pending[c].tries \in 0 .. MaxAttempts - 1 /\ k \in 0 .. Len(codes)
        BY <1>1, Counts DEF Limits
      <4> HIDE DEF c, k
      <4> QED
        BY <1>3, <4>1
    <3>2. n = pending[c].tries + 1 /\ MaxAttempts \in Nat
      BY DEF Limits
    <3> HIDE DEF k, n
    <3> QED
      BY <3>1, <3>2
  <2> HIDE DEF at, k, n
  <2>3. k \in Nat /\ k \in 1 .. MaxCodes /\ codes[k].cart = c
    BY <1>1, <1>3, <2>2, Counts DEF PhoneInv, Pair, k
  <2>4. t \in Ask /\ t.at = at /\ t.code = k /\ t.cart = c /\ t.tries = n
    BY <1>1, <2>1, <2>2, <2>3, Recount DEF Ask
  <2> HIDE DEF t
  <2>5. OneByOne'
    BY <1>1, <1>3, <2>4, OneFrame DEF PhoneInv, TallyInv
  <2>6. /\ wrong'[k] = wrong[k] + 1
        /\ \A j \in 1 .. MaxCodes : j # k => wrong'[j] = wrong[j]
    BY <1>3, <2>3 DEF PhoneInv, TypeOK
  <2>7. Blank'
    <3> SUFFICES ASSUME NEW j \in 1 .. MaxCodes, j > Len(codes) PROVE wrong'[j] = 0
      BY <1>1 DEF Blank
    <3>1. j # k
      BY <2>2, Counts
    <3> QED
      BY <2>6, <3>1 DEF TallyInv, Blank
  <2>8. req'[r] = t /\ \A q \in Requests \ {r} : req'[q] = req[q]
    BY <1>3 DEF PhoneInv, Shape
  <2>9. TallyNext(c, k)
    <3> SUFFICES ASSUME c \notin overlapped
                 PROVE  /\ wrong'[k] <= MaxAttempts + crashes
                        /\ \A q \in Requests : Writes(req'[q], c, k) =>
                             /\ wrong'[k] <= req'[q].tries + crashes
                             /\ req'[q].tries <= pending[c].tries + 1
                        /\ \E q \in Requests : Writes(req'[q], c, k)
      BY <1>1 DEF TallyNext
    <3>1. \A q \in Requests : ~Writes(req[q], c, k)
      BY <1>1, Lone DEF TallyInv, Writes
    <3>2. wrong[k] <= pending[c].tries + crashes
      BY <2>2, <2>3, <3>1 DEF TallyInv, Tally, k
    <3>3. wrong[k] \in Nat /\ crashes \in Nat /\ pending[c].tries \in Nat /\ MaxAttempts \in Nat
      BY <1>1, <2>3, Counts DEF Limits
    <3>4. wrong[k] + 1 <= n + crashes /\ wrong[k] + 1 <= MaxAttempts + crashes
      BY <2>2, <3>2, <3>3, OneMore
    <3>5. \A q \in Requests : Writes(req'[q], c, k) => q = r
      BY <2>8, <3>1
    <3>6. Writes(req'[r], c, k) /\ req'[r].tries = n
      BY <2>1, <2>4, <2>8 DEF Writes
    <3>7. n <= pending[c].tries + 1
      BY <2>2
    <3> HIDE DEF c
    <3> QED
      BY <2>6, <3>4, <3>5, <3>6, <3>7
  <2>10. ASSUME NEW j \in 1 .. Len(codes), j # k PROVE TallyNext(codes[j].cart, j)
    <3>1. Tally(codes[j].cart, j) /\ j \in 1 .. MaxCodes
      BY Counts DEF TallyInv
    <3>2. \A q \in Requests : \A d : Writes(req'[q], d, j) \/ Writes(req[q], d, j)
                                        => req'[q] = req[q]
      BY <1>1, <2>4, <2>8, <2>10 DEF Writes
    <3>3. wrong'[j] = wrong[j]
      BY <2>6, <2>10, <3>1
    <3> QED
      BY <1>1, <3>1, <3>2, <3>3 DEF Tally, TallyNext
  <2> QED
    BY <1>1, <2>3, <2>5, <2>7, <2>9, <2>10, TallyPrimed
<1>4. req' = [req EXCEPT ![r].at = at, ![r].code = k, ![r].tries = n]
        => req' = [req EXCEPT ![r] = t]
  BY <1>1 DEF PhoneInv, Shape
<1> QED
  BY <1>2, <1>3, <1>4 DEF Compare, Spent

LEMMA PutBackTally ==
  ASSUME Limits, PhoneInv, TallyInv, NEW r \in Requests, PutBack(r)
  PROVE  TallyInv'
<1> DEFINE c == req[r].cart
<1>1. /\ UNCHANGED <<codes, wrong, overlapped, crashes>>
      /\ req[r].at = "putBack" /\ req[r].at \in Writing /\ req[r] # Idle
      /\ req[r] \in Ask /\ c \in Carts
      /\ req' = [req EXCEPT ![r] = Idle]
      /\ pending' = [pending EXCEPT ![c] = [code |-> req[r].code, tries |-> req[r].tries]]
  BY DEF PutBack, Counted, Answer, ghosts, PhoneInv, Shape, Ask, Idle, Writing
<1>2. OneByOne'
  BY <1>1, OneFrame DEF PhoneInv, TallyInv
<1>3. Blank'
  BY <1>1 DEF TallyInv, Blank
<1>4. /\ req'[r] = Idle /\ \A q \in Requests \ {r} : req'[q] = req[q]
      /\ pending'[c].code = req[r].code /\ pending'[c].tries = req[r].tries
      /\ \A d \in Carts : d # c => pending'[d] = pending[d]
  BY <1>1 DEF PhoneInv, Shape, TypeOK
<1>5. ASSUME NEW k \in 1 .. Len(codes) PROVE TallyNext(codes[k].cart, k)
  <2> DEFINE d == codes[k].cart
  <2>1. Tally(d, k) /\ d \in Carts
    BY Counts DEF TallyInv
  <2> HIDE DEF d
  <2>2. CASE d # c
    <3>1. \A q \in Requests : Writes(req'[q], d, k) \/ Writes(req[q], d, k) => req'[q] = req[q]
      BY <1>4, <2>2 DEF Writes, Idle, Writing
    <3>2. TallyNext(d, k)
      BY <1>1, <1>4, <2>1, <2>2, <3>1 DEF Tally, TallyNext
    <3> QED
      BY <3>2 DEF d
  <2>3. CASE d = c
    <3> SUFFICES ASSUME c \notin overlapped PROVE TallyNext(c, k)
      BY <1>1, <2>3 DEF TallyNext, d
    <3>a. \A q \in Requests \ {r} : ~Writes(req[q], c, k)
      BY <1>1, Lone DEF TallyInv
    <3>b. ~Writes(req'[r], c, k)
      BY <1>4 DEF Writes, Idle, Writing
    <3>1. \A q \in Requests : ~Writes(req'[q], c, k)
      BY <1>4, <3>a, <3>b
    <3>2. wrong[k] <= MaxAttempts + crashes
      BY <2>1, <2>3 DEF Tally
    <3>3. req[r].code = k => wrong[k] <= req[r].tries + crashes
      BY <1>1, <2>1, <2>3 DEF Tally, Writes
    <3> QED
      BY <1>1, <1>4, <3>1, <3>2, <3>3 DEF TallyNext
  <2> QED
    BY <2>2, <2>3
<1> QED
  BY <1>1, <1>2, <1>3, <1>5, TallyPrimed

LEMMA DropCodeTally ==
  ASSUME Limits, PhoneInv, TallyInv, NEW r \in Requests, DropCode(r)
  PROVE  TallyInv'
<1> DEFINE c == req[r].cart
           t == [req[r] EXCEPT !.at = "setVerified"]
<1>1. /\ UNCHANGED <<codes, wrong, overlapped, crashes>>
      /\ req[r] # Idle /\ req[r] \in Ask /\ c \in Carts
      /\ req' = [req EXCEPT ![r] = Idle] \/ req' = [req EXCEPT ![r] = t]
      /\ pending' = [pending EXCEPT ![c] = NoCode]
  BY DEF DropCode, Answer, Goto, ghosts, PhoneInv, Shape, Ask, Idle
<1>2. t.at = "setVerified" /\ t.cart = c
  BY <1>1 DEF Ask
<1> HIDE DEF t
<1>3. OneByOne'
  BY <1>1, <1>2, OneFrame DEF PhoneInv, TallyInv
<1>4. (req'[r] = Idle \/ req'[r] = t) /\ \A q \in Requests \ {r} : req'[q] = req[q]
  BY <1>1 DEF PhoneInv, Shape
<1>5. \A q \in Requests : \A d, k : Writes(req'[q], d, k) => req'[q] = req[q]
  BY <1>2, <1>4 DEF Writes, Writing, Idle
<1>6. \A q \in Requests : \A d, k : d # c /\ Writes(req[q], d, k) => req'[q] = req[q]
  BY <1>4 DEF Writes
<1> QED
  BY <1>1, <1>3, <1>5, <1>6, TallyDrop

LEMMA CrashTally ==
  ASSUME Limits, PhoneInv, TallyInv, NEW r \in Requests, Crash(r)
  PROVE  TallyInv'
<1>1. /\ UNCHANGED <<codes, pending, wrong, overlapped>>
      /\ req[r] # Idle /\ req' = [req EXCEPT ![r] = Idle] /\ crashes' = crashes + 1
  BY DEF Crash, Answer, redis
<1>2. OneByOne'
  BY <1>1, OneFrame DEF PhoneInv, TallyInv
<1>3. Blank'
  BY <1>1 DEF TallyInv, Blank
<1>4. req'[r] = Idle /\ \A q \in Requests \ {r} : req'[q] = req[q]
  BY <1>1 DEF PhoneInv, Shape
<1>5. ASSUME NEW k \in 1 .. Len(codes) PROVE TallyNext(codes[k].cart, k)
  <2> DEFINE d == codes[k].cart
  <2>1. Tally(d, k) /\ d \in Carts /\ k \in 1 .. MaxCodes
    BY Counts DEF TallyInv
  <2> HIDE DEF d
  <2>2. /\ wrong[k] \in Nat /\ crashes \in Nat /\ MaxAttempts \in Nat
        /\ pending[d].tries \in Nat /\ \A q \in Requests : req[q].tries \in Nat
    BY <2>1, Counts DEF Limits
  <2> SUFFICES ASSUME d \notin overlapped
               PROVE  /\ wrong[k] <= MaxAttempts + (crashes + 1)
                      /\ \A q \in Requests : Writes(req'[q], d, k) =>
                           /\ wrong[k] <= req'[q].tries + (crashes + 1)
                           /\ pending[d].code = k => req'[q].tries <= pending[d].tries + 1
                      /\ pending[d].code = k /\ (\A q \in Requests : ~Writes(req'[q], d, k)) =>
                           wrong[k] <= pending[d].tries + (crashes + 1)
    BY <1>1 DEF TallyNext, d
  <2>3. wrong[k] <= MaxAttempts + (crashes + 1)
    <3>1. wrong[k] <= MaxAttempts + crashes
      BY <2>1 DEF Tally
    <3> QED
      BY <2>2, <3>1
  <2>4. ASSUME NEW q \in Requests, Writes(req'[q], d, k)
        PROVE  /\ wrong[k] <= req'[q].tries + (crashes + 1)
               /\ pending[d].code = k => req'[q].tries <= pending[d].tries + 1
    <3>1. req'[q] = req[q]
      BY <1>4, <2>4 DEF Writes, Idle, Writing
    <3>2. /\ wrong[k] <= req[q].tries + crashes
          /\ pending[d].code = k => req[q].tries <= pending[d].tries + 1
      BY <2>1, <2>4, <3>1 DEF Tally
    <3>3. wrong[k] <= req[q].tries + (crashes + 1)
      BY <2>2, <3>2
    <3> QED
      BY <3>1, <3>2, <3>3
  <2>5. ASSUME pending[d].code = k, \A q \in Requests : ~Writes(req'[q], d, k)
        PROVE  wrong[k] <= pending[d].tries + (crashes + 1)
    <3>1. CASE Writes(req[r], d, k)
      <4>1. wrong[k] <= req[r].tries + crashes /\ req[r].tries <= pending[d].tries + 1
        BY <2>1, <2>5, <3>1 DEF Tally
      <4> QED
        BY SMTT(30), <2>2, <4>1
    <3>2. CASE ~Writes(req[r], d, k)
      <4>1. wrong[k] <= pending[d].tries + crashes
        BY <1>4, <2>1, <2>5, <3>2 DEF Tally
      <4> QED
        BY <2>2, <4>1
    <3> QED
      BY <3>1, <3>2
  <2> QED
    BY <2>3, <2>4, <2>5
<1> QED
  BY <1>1, <1>2, <1>3, <1>5, TallyPrimed

LEMMA NextTally ==
  ASSUME Limits
  PROVE  PhoneInv /\ TallyInv /\ [Next]_vars => TallyInv'
<1> SUFFICES ASSUME PhoneInv, TallyInv, [Next]_vars PROVE TallyInv'
  OBVIOUS
<1>1. ASSUME NEW r \in Requests, NEW c \in Carts, NEW p \in Phones,
             SendCode(r, c, p) \/ \E k \in 0 .. Len(codes) : Verify(r, c, p, k)
      PROVE  TallyInv'
  BY <1>1, SendCodeTally, VerifyTally
<1>2. ASSUME NEW r \in Requests, Step(r) PROVE TallyInv'
  <2>1. CASE ExpireSends(r)
    BY <2>1, PlainMove DEF ExpireSends, ghosts, Idle, Writing, Points
  <2>2. CASE SetVerified(r)
    BY <2>2, PlainMove DEF SetVerified, ghosts, Idle, Writing, Points
  <2> QED
    BY <1>2, <2>1, <2>2, SetCodeTally, CompareTally, PutBackTally, DropCodeTally DEF Step
<1>3. ASSUME NEW r \in Requests, Crash(r) PROVE TallyInv'
  BY <1>3, CrashTally
<1>4. ASSUME UNCHANGED <<codes, pending, wrong, crashes, req, overlapped>> PROVE TallyInv'
  BY <1>4, OneStill, TallyStill DEF TallyInv, Unwritten
<1>5. ASSUME NEW c \in Carts, ExpireCode(c) PROVE TallyInv'
  BY <1>5, OneStill, TallyDrop DEF ExpireCode, ghosts, TallyInv
<1> QED
  BY <1>1, <1>2, <1>3, <1>4, <1>5
     DEF Next, PlaceOrder, ExpireCooldown, ExpireVerified, HourEnds, vars, redis, ghosts

(* Nobody guesses a code in more than MAX_ATTEMPTS tries (and one per       *)
(* process stopped before it wrote the count), whatever is resent, expires  *)
(* or is put back, while the requests of the code's cart come one at a      *)
(* time.  The count is read and written back without a lock, so nothing is  *)
(* promised to a cart whose requests overlap.                               *)
THEOREM GuessesBounded == ASSUME Limits PROVE Spec => []AttemptsBounded
<1>1. Limits /\ Init => TallyInv
  BY DEF Init, TallyInv, OneByOne, Blank
<1>2. TallyInv => AttemptsBounded
  BY DEF TallyInv, Tally, AttemptsBounded
<1> QED
  BY <1>1, <1>2, AlwaysPhone, NextTally, PTL DEF Spec

-----------------------------------------------------------------------------
(* Quotas. *)

Ends(p) ==
  \/ sends[p].count = 0 \/ sends[p].expires \/ p \in leaked
  \/ \E r \in Requests : req[r].at = "expire" /\ req[r].phone = p

(* The same, of the next state. *)
EndsNext(p) ==
  \/ sends'[p].count = 0 \/ sends'[p].expires \/ p \in leaked'
  \/ \E r \in Requests : req'[r].at = "expire" /\ req'[r].phone = p

LEMMA EndsFrame ==
  ASSUME NEW p, Ends(p), sends'[p] = sends[p], leaked \subseteq leaked',
         \A r \in Requests : req[r].at = "expire" /\ req[r].phone = p
                              => req'[r] = req[r] \/ p \in leaked'
  PROVE  EndsNext(p)
BY DEF Ends, EndsNext

LEMMA SendCodeEnds ==
  ASSUME Limits, PhoneInv, NEW r \in Requests, NEW c \in Carts, NEW q \in Phones,
         SendCode(r, c, q), NEW p \in Phones, Ends(p)
  PROVE  EndsNext(p)
<1> DEFINE n == sends[q].count + 1
           at == IF n = 1 THEN "expire" ELSE "setCode"
           t == [at |-> at, cart |-> c, phone |-> q, code |-> 0, tries |-> 0]
<1>1. /\ sends' = [sends EXCEPT ![q].count = n] /\ leaked' = leaked
      /\ req[r] = Idle
      /\ (n > MaxSends /\ req' = req) \/ (~(n > MaxSends) /\ req' = [req EXCEPT ![r] = t])
  BY DEF SendCode, Begin
<1>2. \A x \in Requests : req[x].at = "expire" => req'[x] = req[x]
  BY <1>1 DEF PhoneInv, Shape, Idle
<1>3. CASE p # q
  <2>1. sends'[p] = sends[p]
    BY <1>1, <1>3 DEF PhoneInv, TypeOK
  <2> QED
    BY <1>1, <1>2, <2>1, EndsFrame
<1>4. CASE p = q /\ sends[q].count = 0
  <2>1. n = 1 /\ ~(n > MaxSends)
    BY <1>4 DEF Limits
  <2>2. req'[r] = t
    BY <1>1, <2>1 DEF PhoneInv, Shape
  <2>3. t.at = "expire" /\ t.phone = p
    BY <1>4, <2>1
  <2> QED
    BY <2>2, <2>3 DEF EndsNext
<1>5. CASE p = q /\ sends[q].count # 0
  <2>1. sends'[p].expires = sends[p].expires
    BY <1>1, <1>5 DEF PhoneInv, TypeOK
  <2> QED
    BY <1>1, <1>2, <1>5, <2>1 DEF Ends, EndsNext
<1> QED
  BY <1>3, <1>4, <1>5

LEMMA NextEnds ==
  ASSUME Limits, PhoneInv, [Next]_vars, NEW p \in Phones, Ends(p)
  PROVE  EndsNext(p)
<1>1. ASSUME NEW r \in Requests, NEW c \in Carts, NEW q \in Phones, SendCode(r, c, q)
      PROVE  EndsNext(p)
  BY <1>1, SendCodeEnds
<1>2. ASSUME NEW r \in Requests, NEW c, NEW q, NEW k, Verify(r, c, q, k) PROVE EndsNext(p)
  <2>1. req[r].at # "expire" /\ UNCHANGED <<sends, leaked>>
    BY <1>2 DEF Verify, Begin, Idle, redis
  <2>2. \A x \in Requests : req[x].at = "expire" => req'[x] = req[x]
    BY <1>2, <2>1 DEF Verify, Begin, PhoneInv, Shape
  <2> QED
    BY <2>1, <2>2, EndsFrame
<1>3. ASSUME NEW r \in Requests, ExpireSends(r) PROVE EndsNext(p)
  <2>1. /\ \A x \in Requests \ {r} : req'[x] = req[x]
        /\ \A x \in Phones : x # req[r].phone => sends'[x] = sends[x]
        /\ req[r].phone \in Phones => sends'[req[r].phone].expires
        /\ leaked' = leaked
    BY <1>3 DEF ExpireSends, Goto, Expires, ghosts, PhoneInv, Shape, TypeOK
  <2>2. CASE p = req[r].phone
    BY <2>1, <2>2 DEF EndsNext
  <2>3. CASE p # req[r].phone
    BY <2>1, <2>3, EndsFrame
  <2> QED
    BY <2>2, <2>3
<1>4. ASSUME NEW r \in Requests, Step(r) PROVE EndsNext(p)
  <2>1. CASE ~ExpireSends(r)
    <3>1. req[r].at # "expire" /\ UNCHANGED <<sends, leaked>>
      BY <1>4, <2>1
         DEF Step, SetCode, Compare, PutBack, DropCode, SetVerified, ghosts, redis
    <3>2. \A x \in Requests \ {r} : req'[x] = req[x]
      BY <1>4, <2>1
         DEF Step, SetCode, Compare, PutBack, DropCode, SetVerified, Answer, Goto, PhoneInv, Shape
    <3> QED
      BY <3>1, <3>2, EndsFrame
  <2> QED
    BY <1>3, <2>1
<1>5. ASSUME NEW r \in Requests, Crash(r) PROVE EndsNext(p)
  <2>1. /\ \A x \in Requests \ {r} : req'[x] = req[x]
        /\ sends' = sends /\ leaked \subseteq leaked'
        /\ req[r].at = "expire" => req[r].phone \in leaked'
    BY <1>5 DEF Crash, Answer, redis, PhoneInv, Shape
  <2> QED
    BY <2>1, EndsFrame
<1>6. ASSUME NEW q \in Phones, HourEnds(q) PROVE EndsNext(p)
  <2>1. UNCHANGED <<req, leaked>>
        /\ (p = q => sends'[p].count = 0) /\ (p # q => sends'[p] = sends[p])
    BY <1>6 DEF HourEnds, ghosts, PhoneInv, TypeOK
  <2>2. CASE p = q
    BY <2>1, <2>2 DEF EndsNext
  <2>3. CASE p # q
    BY <2>1, <2>3, EndsFrame
  <2> QED
    BY <2>2, <2>3
<1>7. ASSUME UNCHANGED <<sends, leaked, req>> PROVE EndsNext(p)
  BY <1>7, EndsFrame
<1> QED
  BY <1>1, <1>2, <1>4, <1>5, <1>6, <1>7
     DEF Next, PlaceOrder, ExpireCode, ExpireCooldown, ExpireVerified, vars, redis, ghosts

(* No number is locked out for ever: its count of sends expires, or a       *)
(* request is about to give it its hour, unless a process stopped between   *)
(* INCR and EXPIRE.                                                         *)
THEOREM QuotasEnd == ASSUME Limits PROVE Spec => []QuotaEnds
<1>1. Init => QuotaEnds
  BY DEF Init, QuotaEnds
<1>2. PhoneInv /\ QuotaEnds /\ [Next]_vars => QuotaEnds'
  <2> SUFFICES ASSUME PhoneInv, QuotaEnds, [Next]_vars PROVE QuotaEnds'
    OBVIOUS
  <2>1. \A p \in Phones : EndsNext(p)
    BY NextEnds DEF QuotaEnds, Ends
  <2> QED
    BY <2>1 DEF QuotaEnds, EndsNext
<1> QED
  BY <1>1, <1>2, AlwaysPhone, PTL DEF Spec
=============================================================================
