-------------------------- MODULE Checkout_proofs --------------------------
(***************************************************************************)
(* Proofs about one cart and its checkout, for every set of designs, other *)
(* products, requests and tabs, every threshold, fee and stock, and        *)
(* handlers that interleave in any way.                                    *)
(*                                                                         *)
(* Units and subtotals are sums over sets of lines.  First, that a sum     *)
(* over a finite set has its defining equation, by induction over the      *)
(* subsets of the set (SubsetMinimal), and how it moves with one line.     *)
(*                                                                         *)
(* Then, of the cart: its reminder is sent once, and as long as requests   *)
(* came one at a time the basket holds what the customer asked for, line   *)
(* by line at the price its tier gives (BasketInv).  Mid-way a request     *)
(* still owes units to the basket (Owed), and what it holds is right once  *)
(* they are counted (Right).                                               *)
(*                                                                         *)
(* And of its orders: what a handler has read of an order is what the      *)
(* order still holds in the parts that nobody else writes.  An order's     *)
(* lines never change after it is placed, so its subtotal can only drift   *)
(* by a resumption (LineInv); an intent's amount is that of the order      *)
(* until its total moves (AmountInv); and two orders are open only after   *)
(* two requests built one at a time (OpenInv).                             *)
(***************************************************************************)
EXTENDS Checkout, Integers, FiniteSetTheorems, TLAPS

-----------------------------------------------------------------------------
LEMMA SubsetMinimal ==
    ASSUME NEW S, IsFiniteSet(S), NEW T \in SUBSET SUBSET S, T # {}
    PROVE  \E M \in T : \A U \in SUBSET M : U # M => U \notin T
<1> DEFINE R == StrictSubsetOrdering(S)
<1>1. IsWellFoundedOn(R, SUBSET S)
  BY FS_StrictSubsetOrderingWellFounded, FS_FiniteSubsetsOfFinite
<1>2. PICK M \in T : \A U \in T : <<U, M>> \notin R
  <2> HIDE DEF R
  <2> QED BY <1>1, WFMin
<1>3. SUFFICES ASSUME NEW U \in SUBSET M, U # M, U \in T PROVE FALSE
  BY <1>2
<1>4. <<U, M>> \in R
  BY <1>3 DEF StrictSubsetOrdering
<1> QED
  BY <1>2, <1>3, <1>4

First(s) == CHOOSE x \in s : TRUE
Sums(g, f, S) == g = [s \in SUBSET S |-> IF s = {} THEN 0 ELSE f[First(s)] + g[s \ {First(s)}]]

LEMMA FirstOf == \A s : s # {} => First(s) \in s
BY DEF First

LEMMA SumsEmpty == \A S, f, g : Sums(g, f, S) => g[{}] = 0
BY DEF Sums

AddsFirst(g, f, s) == g[s] = f[First(s)] + g[s \ {First(s)}]
LEMMA SumsStep == \A S, f, g, s : Sums(g, f, S) /\ s \in SUBSET S /\ s # {} => AddsFirst(g, f, s)
<1> SUFFICES ASSUME NEW S, NEW f, NEW g, Sums(g, f, S), NEW s \in SUBSET S, s # {}
             PROVE  AddsFirst(g, f, s)
  OBVIOUS
<1>1. \A u \in SUBSET S : g[u] = IF u = {} THEN 0 ELSE f[First(u)] + g[u \ {First(u)}]
  BY DEF Sums
<1> QED
  BY <1>1 DEF AddsFirst

\* Two such functions agree wherever both are defined.
LEMMA SumsAgree ==
    ASSUME NEW S, NEW T, T \subseteq S, IsFiniteSet(T),
           NEW f, NEW e, NEW g, NEW h, Sums(g, f, S), Sums(h, e, T), \A x \in T : f[x] = e[x]
    PROVE  g[T] = h[T]
<1>n. g[{}] = 0 /\ h[{}] = 0
  BY SumsEmpty
<1> DEFINE Bad == {s \in SUBSET T : g[s] # h[s]}
<1> SUFFICES ASSUME Bad # {} PROVE FALSE
  OBVIOUS
<1>1. PICK M \in Bad : \A s \in SUBSET M : s # M => s \notin Bad
  <2>1. Bad \in SUBSET SUBSET T
    OBVIOUS
  <2> HIDE DEF Bad
  <2> QED BY <2>1, SubsetMinimal
<1>2. CASE M = {}
  BY <1>1, <1>2, <1>n
<1>3. CASE M # {}
  <2> DEFINE x == First(M)
  <2>1. x \in M
    BY <1>3, FirstOf
  <2>5. M \in SUBSET S /\ M \in SUBSET T
    BY <1>1
  <2>2. g[M] = f[x] + g[M \ {x}]
    BY <1>3, <2>5, SumsStep DEF AddsFirst
  <2>6. h[M] = e[x] + h[M \ {x}]
    <3>1. AddsFirst(h, e, M)
      BY <1>3, <2>5, SumsStep
    <3> QED BY <3>1 DEF AddsFirst
  <2>3. f[x] = e[x]
    BY <1>1, <2>1
  <2>4. g[M \ {x}] = h[M \ {x}]
    BY <1>1, <2>1
  <2> QED BY <1>1, <2>2, <2>3, <2>4, <2>6
<1> QED BY <1>2, <1>3

LEMMA SumsExist ==
    ASSUME NEW S, IsFiniteSet(S), NEW f
    PROVE  \E g : Sums(g, f, S)
<1> DEFINE Has(T) == \E g : Sums(g, f, T)
           Bad == {T \in SUBSET S : ~ Has(T)}
           G(T) == CHOOSE g : Sums(g, f, T)
<1> SUFFICES ASSUME Bad # {} PROVE FALSE
  OBVIOUS
<1>1. PICK M \in Bad : \A U \in SUBSET M : U # M => U \notin Bad
  <2>1. Bad \in SUBSET SUBSET S
    OBVIOUS
  <2> HIDE DEF Bad
  <2> QED BY <2>1, SubsetMinimal
<1>2. \A U \in SUBSET M : U # M => Sums(G(U), f, U)
  BY <1>1
<1> DEFINE h == [s \in SUBSET M |-> IF s = {} THEN 0
                                    ELSE f[First(s)] + G(s \ {First(s)})[s \ {First(s)}]]
<1>3. \A u \in SUBSET M : u # M => h[u] = G(u)[u]
  <2> SUFFICES ASSUME NEW u \in SUBSET M, u # M PROVE h[u] = G(u)[u]
    OBVIOUS
  <2> HIDE DEF G
  <2>1. CASE u = {}
    BY <1>2, <2>1, SumsEmpty
  <2>2. CASE u # {}
    <3> DEFINE y == First(u)
               v == u \ {y}
    <3>1. y \in u
      BY <2>2, FirstOf
    <3>2. Sums(G(u), f, u) /\ Sums(G(v), f, v)
      BY <1>2, <3>1
    <3>3. G(u)[v] = G(v)[v]
      <4>1. IsFiniteSet(v)
        BY FS_Subset
      <4> QED BY <3>2, <4>1, SumsAgree
    <3>4. G(u)[u] = f[y] + G(u)[v]
      BY <2>2, <3>2, SumsStep DEF AddsFirst
    <3> QED BY <2>2, <3>3, <3>4
  <2> QED BY <2>1, <2>2
<1>6. h[{}] = 0
  OBVIOUS
<1>4. ASSUME NEW s \in SUBSET M, s # {}
      PROVE  h[s] = f[First(s)] + h[s \ {First(s)}]
  <2>1. First(s) \in s
    BY <1>4, FirstOf
  <2>2. s \ {First(s)} \in SUBSET M /\ s \ {First(s)} # M
    BY <2>1
  <2>3. h[s \ {First(s)}] = G(s \ {First(s)})[s \ {First(s)}]
    BY <1>3, <2>2
  <2>4. h[s] = f[First(s)] + G(s \ {First(s)})[s \ {First(s)}]
    BY <1>4
  <2> HIDE DEF h, G
  <2> QED BY <2>3, <2>4
<1>5. Sums(h, f, M)
  <2>1. DOMAIN h = SUBSET M /\ h = [s \in DOMAIN h |-> h[s]]
    OBVIOUS
  <2> HIDE DEF h
  <2> QED BY <1>4, <1>6, <2>1 DEF Sums
<1> QED BY <1>1, <1>5

-----------------------------------------------------------------------------
SumOver(f, S) == MapThenSumSet(LAMBDA k : f[k], S)

LEMMA SumOverIs ==
    ASSUME NEW S, IsFiniteSet(S), NEW f, NEW g, Sums(g, f, S)
    PROVE  SumOver(f, S) = g[S]
<1> DEFINE c == CHOOSE h : Sums(h, f, S)
<1>1. SumOver(f, S) = c[S]
  BY DEF SumOver, MapThenSumSet, MapThenFoldSet, Sums, First
<1>2. Sums(c, f, S)
  OBVIOUS
<1> HIDE DEF c
<1>3. c[S] = g[S]
  BY <1>2, SumsAgree
<1> QED BY <1>1, <1>3

LEMMA SumOverEmpty == \A f : SumOver(f, {}) = 0
<1> SUFFICES ASSUME NEW f PROVE SumOver(f, {}) = 0
  OBVIOUS
<1>1. PICK g : Sums(g, f, {})
  BY SumsExist, FS_EmptySet
<1> QED BY <1>1, SumOverIs, SumsEmpty, FS_EmptySet

\* Sums over a set and over a part of it come from one function.
LEMMA SumOverParts ==
    ASSUME NEW S, IsFiniteSet(S), NEW f
    PROVE  \E g : Sums(g, f, S) /\ \A T \in SUBSET S : SumOver(f, T) = g[T]
<1>1. PICK g : Sums(g, f, S)
  BY SumsExist
<1>2. ASSUME NEW T \in SUBSET S PROVE SumOver(f, T) = g[T]
  <2>1. IsFiniteSet(T)
    BY FS_Subset
  <2>2. PICK h : Sums(h, f, T)
    BY <2>1, SumsExist
  <2>3. SumOver(f, T) = h[T]
    BY <2>1, <2>2, SumOverIs
  <2>4. g[T] = h[T]
    BY <1>1, <2>1, <2>2, SumsAgree
  <2> QED BY <2>3, <2>4
<1> QED BY <1>1, <1>2

LEMMA SumOverFirst ==
    ASSUME NEW T, IsFiniteSet(T), T # {}, NEW f
    PROVE  SumOver(f, T) = f[First(T)] + SumOver(f, T \ {First(T)})
<1>1. PICK g : Sums(g, f, T) /\ \A U \in SUBSET T : SumOver(f, U) = g[U]
  BY SumOverParts
<1>2. AddsFirst(g, f, T)
  BY <1>1, SumsStep
<1>3. SumOver(f, T) = g[T] /\ SumOver(f, T \ {First(T)}) = g[T \ {First(T)}]
  BY <1>1
<1> QED BY <1>2, <1>3 DEF AddsFirst

LEMMA SumOverNat ==
    ASSUME NEW S, IsFiniteSet(S), NEW f, \A x \in S : f[x] \in Nat
    PROVE  SumOver(f, S) \in Nat
<1> DEFINE Bad == {T \in SUBSET S : SumOver(f, T) \notin Nat}
<1> SUFFICES ASSUME Bad # {} PROVE FALSE
  OBVIOUS
<1>1. PICK M \in Bad : \A U \in SUBSET M : U # M => U \notin Bad
  <2>1. Bad \in SUBSET SUBSET S
    OBVIOUS
  <2> HIDE DEF Bad
  <2> QED BY <2>1, SubsetMinimal
<1>2. IsFiniteSet(M)
  BY FS_Subset
<1>3. M # {}
  BY SumOverEmpty
<1>4. First(M) \in M
  BY <1>3, FirstOf
<1>5. SumOver(f, M \ {First(M)}) \in Nat /\ f[First(M)] \in Nat
  BY <1>1, <1>4
<1>6. SumOver(f, M) = f[First(M)] + SumOver(f, M \ {First(M)})
  BY <1>2, <1>3, SumOverFirst
<1> QED BY <1>5, <1>6

LEMMA SumOverSame ==
    ASSUME NEW S, IsFiniteSet(S), NEW f, NEW e, \A x \in S : f[x] = e[x]
    PROVE  SumOver(f, S) = SumOver(e, S)
<1>1. PICK g : Sums(g, f, S)
  BY SumsExist
<1>2. PICK h : Sums(h, e, S)
  BY SumsExist
<1>3. g[S] = h[S]
  BY <1>1, <1>2, SumsAgree
<1> QED BY <1>1, <1>2, <1>3, SumOverIs

LEMMA SumOverRemove ==
    ASSUME NEW S, IsFiniteSet(S), NEW f, \A x \in S : f[x] \in Nat, NEW x \in S
    PROVE  SumOver(f, S) = f[x] + SumOver(f, S \ {x})
<1> DEFINE Splits(T) == \A y \in T : SumOver(f, T) = f[y] + SumOver(f, T \ {y})
           Bad == {T \in SUBSET S : ~ Splits(T)}
<1> SUFFICES ASSUME Bad # {} PROVE FALSE
  OBVIOUS
<1>1. PICK M \in Bad : \A U \in SUBSET M : U # M => U \notin Bad
  <2>1. Bad \in SUBSET SUBSET S
    OBVIOUS
  <2> HIDE DEF Bad
  <2> QED BY <2>1, SubsetMinimal
<1>2. PICK y \in M : SumOver(f, M) # f[y] + SumOver(f, M \ {y})
  BY <1>1
<1>3. IsFiniteSet(M) /\ M # {} /\ M \in SUBSET S
  BY <1>2, FS_Subset
<1> DEFINE z == First(M)
<1>4. z \in M
  BY <1>3, FirstOf
<1>5. SumOver(f, M) = f[z] + SumOver(f, M \ {z})
  BY <1>3, SumOverFirst
<1>6. z # y
  BY <1>2, <1>5
<1> HIDE DEF z
<1>7. Splits(M \ {z}) /\ Splits(M \ {y})
  BY <1>1, <1>2, <1>4
<1>8. SumOver(f, M \ {z}) = f[y] + SumOver(f, (M \ {z}) \ {y})
  BY <1>6, <1>7
<1>9. SumOver(f, M \ {y}) = f[z] + SumOver(f, (M \ {y}) \ {z})
  BY <1>4, <1>6, <1>7
<1>10. (M \ {z}) \ {y} = (M \ {y}) \ {z}
  OBVIOUS
<1>11. SumOver(f, (M \ {y}) \ {z}) \in Nat /\ f[y] \in Nat /\ f[z] \in Nat
  <2>1. IsFiniteSet((M \ {y}) \ {z}) /\ \A k \in (M \ {y}) \ {z} : f[k] \in Nat
    BY <1>3, FS_Subset
  <2>2. SumOver(f, (M \ {y}) \ {z}) \in Nat
    BY <2>1, SumOverNat
  <2> QED BY <1>3, <1>4, <2>2
<1> DEFINE W == SumOver(f, (M \ {y}) \ {z})
<1>12. SumOver(f, M) = f[z] + (f[y] + W)
  BY <1>5, <1>8, <1>10
<1>13. f[y] + SumOver(f, M \ {y}) = f[y] + (f[z] + W)
  BY <1>9
<1>14. f[z] + (f[y] + W) = f[y] + (f[z] + W)
  <2> HIDE DEF W
  <2>1. W \in Nat
    BY <1>11 DEF W
  <2> QED BY <1>11, <2>1
<1> QED BY <1>2, <1>12, <1>13, <1>14
-----------------------------------------------------------------------------
(* The sums of the model. *)

Wanted(g) == MapThenSumSet(LAMBDA i : g[i][2], DOMAIN g)

LEMMA WantedIs ==
    ASSUME NEW g, IsFiniteSet(DOMAIN g)
    PROVE  Wanted(g) = SumOver([i \in DOMAIN g |-> g[i][2]], DOMAIN g)
<1> DEFINE F == [i \in DOMAIN g |-> g[i][2]]
           Body(h) == [s \in SUBSET (DOMAIN g) |->
                         IF s = {} THEN 0 ELSE g[First(s)][2] + h[s \ {First(s)}]]
           c == CHOOSE h : h = Body(h)
<1>1. Wanted(g) = c[DOMAIN g]
  BY DEF Wanted, MapThenSumSet, MapThenFoldSet, First
<1>2. ASSUME NEW h PROVE Sums(h, F, DOMAIN g) <=> h = Body(h)
  <2>1. \A s \in SUBSET (DOMAIN g) : s # {} => F[First(s)] = g[First(s)][2]
    BY FirstOf
  <2>2. [s \in SUBSET (DOMAIN g) |-> IF s = {} THEN 0 ELSE F[First(s)] + h[s \ {First(s)}]] = Body(h)
    BY <2>1
  <2> HIDE DEF Body, F
  <2> QED BY <2>2 DEF Sums
<1>3. PICK h : Sums(h, F, DOMAIN g)
  BY SumsExist
<1>4. c = Body(c)
  <2>1. h = Body(h)
    BY <1>2, <1>3
  <2> HIDE DEF Body
  <2> QED BY <2>1
<1>5. Sums(c, F, DOMAIN g)
  BY <1>2, <1>4
<1> HIDE DEF c, F
<1>6. SumOver(F, DOMAIN g) = c[DOMAIN g]
  BY <1>5, SumOverIs
<1> QED BY <1>1, <1>6 DEF F

LEMMA UnitsIs ==
    ASSUME NEW ls, NEW S, IsFiniteSet(S)
    PROVE  Units(ls, S) = SumOver([k \in S |-> ls[k].qty], S)
<1> DEFINE F == [k \in S |-> ls[k].qty]
           Body(h) == [s \in SUBSET (S) |->
                         IF s = {} THEN 0 ELSE ls[First(s)].qty + h[s \ {First(s)}]]
           c == CHOOSE h : h = Body(h)
<1>1. Units(ls, S) = c[S]
  BY DEF Units, MapThenSumSet, MapThenFoldSet, First
<1>2. ASSUME NEW h PROVE Sums(h, F, S) <=> h = Body(h)
  <2>1. \A s \in SUBSET (S) : s # {} => F[First(s)] = ls[First(s)].qty
    BY FirstOf
  <2>2. [s \in SUBSET (S) |-> IF s = {} THEN 0 ELSE F[First(s)] + h[s \ {First(s)}]] = Body(h)
    BY <2>1
  <2> HIDE DEF Body, F
  <2> QED BY <2>2 DEF Sums
<1>3. PICK h : Sums(h, F, S)
  BY SumsExist
<1>4. c = Body(c)
  <2>1. h = Body(h)
    BY <1>2, <1>3
  <2> HIDE DEF Body
  <2> QED BY <2>1
<1>5. Sums(c, F, S)
  BY <1>2, <1>4
<1> HIDE DEF c, F
<1>6. SumOver(F, S) = c[S]
  BY <1>5, SumOverIs
<1> QED BY <1>1, <1>6 DEF F

LEMMA SubtotalIs ==
    ASSUME NEW ls, IsFiniteSet(Keys)
    PROVE  Subtotal(ls) = SumOver([k \in Keys |-> ls[k].qty * ls[k].price], Keys)
<1> DEFINE F == [k \in Keys |-> ls[k].qty * ls[k].price]
           Body(h) == [s \in SUBSET (Keys) |->
                         IF s = {} THEN 0 ELSE ls[First(s)].qty * ls[First(s)].price + h[s \ {First(s)}]]
           c == CHOOSE h : h = Body(h)
<1>1. Subtotal(ls) = c[Keys]
  BY DEF Subtotal, MapThenSumSet, MapThenFoldSet, First
<1>2. ASSUME NEW h PROVE Sums(h, F, Keys) <=> h = Body(h)
  <2>1. \A s \in SUBSET (Keys) : s # {} => F[First(s)] = ls[First(s)].qty * ls[First(s)].price
    BY FirstOf
  <2>2. [s \in SUBSET (Keys) |-> IF s = {} THEN 0 ELSE F[First(s)] + h[s \ {First(s)}]] = Body(h)
    BY <2>1
  <2> HIDE DEF Body, F
  <2> QED BY <2>2 DEF Sums
<1>3. PICK h : Sums(h, F, Keys)
  BY SumsExist
<1>4. c = Body(c)
  <2>1. h = Body(h)
    BY <1>2, <1>3
  <2> HIDE DEF Body
  <2> QED BY <2>1
<1>5. Sums(c, F, Keys)
  BY <1>2, <1>4
<1> HIDE DEF c, F
<1>6. SumOver(F, Keys) = c[Keys]
  BY <1>5, SumOverIs
<1> QED BY <1>1, <1>6 DEF F

-----------------------------------------------------------------------------
(* Types. *)

Steps == {"find", "create", "put", "set", "drop", "read", "price", "remind"}
Lines == [Keys -> Line]
Adds == Seq(Keys \X (Nat \ {0}))
Task == [pc : Steps, left : Adds, key : Keys, item : Line, drop : Nat,
         seen : Lines, moved : BOOLEAN]
TaskOK(q) ==
    /\ q.pc \in {"find", "create", "put", "set"} => q.left # <<>>
    /\ q.drop > 0 \/ q.pc \in {"set", "drop"} => q.item.id # 0

BasketTypes ==
    /\ cart \in {"none", "active", "abandoned", "completed"}
    /\ lines \in Lines
    /\ \A k \in Keys : IF Here(lines, k) THEN lines[k].qty > 0 /\ lines[k].price > 0
                       ELSE lines[k] = NoLine
    /\ nextId \in Nat
    /\ job \in {"none", "delayed", "active", "failed"}
    /\ reminder \in {"none", "flip", "mail", "done"}
    /\ reminded \in Nat
    /\ asked \in Int
    /\ muddled \in BOOLEAN
    /\ req \in [Requests -> Task \cup {Idle}]
    /\ \A r \in Requests : req[r] # Idle => TaskOK(req[r])

basketCore == <<cart, lines, nextId, req, job, reminder, reminded, asked, muddled>>

LEMMA PriceTypes == \A k, n : PriceAt(k, n) \in {Tier, Full} /\ PriceAt(k, n) > 0
BY DEF PriceAt, Tier, Full

LEMMA LineTypes == NoLine \in Line /\ \A i, q \in Nat : \A k, n : [id |-> i, qty |-> q, price |-> PriceAt(k, n)] \in Line
BY PriceTypes DEF NoLine, Line

LEMMA BasketTypesStable ==
    ASSUME BasketTypes, UNCHANGED basketCore
    PROVE  BasketTypes'
BY DEF BasketTypes, basketCore, Here

LEMMA InitBasketTypes == Init => BasketTypes
<1> SUFFICES ASSUME Init PROVE BasketTypes
  OBVIOUS
<1> USE DEF Init, BasketInit
<1>1. lines \in Lines /\ \A k \in Keys : lines[k] = NoLine
  BY LineTypes DEF Lines
<1>2. \A k \in Keys : ~ Here(lines, k)
  BY <1>1 DEF Here, NoLine
<1>3. req \in [Requests -> Task \cup {Idle}] /\ \A r \in Requests : req[r] = Idle
  OBVIOUS
<1>4. 0 \in Nat /\ 0 \in Int /\ FALSE \in BOOLEAN
  OBVIOUS
<1> QED BY <1>1, <1>2, <1>3, <1>4 DEF BasketTypes

\* A request starts, moves to a next step, ends.
LEMMA StartTypes ==
    ASSUME BasketTypes, NEW r \in Requests, NEW kind, NEW q \in Task, TaskOK(q), Start(kind, r, q),
           UNCHANGED <<reminder, reminded>>
    PROVE  BasketTypes'
BY DEF BasketTypes, Start, Here

LEMMA JobTypes ==
    ASSUME BasketTypes, NEW pc \in Steps, NEW left \in Adds, NEW k \in Keys,
           NEW item \in Line, NEW drop \in Nat
    PROVE  Job(pc, left, k, item, drop) \in Task
BY DEF Job, Task, BasketTypes

LEMMA AddItemTypes ==
    ASSUME BasketTypes, NEW r \in Requests, AddItem(r), UNCHANGED <<reminder, reminded>>
    PROVE  BasketTypes'
<1>1. PICK k \in Keys, n \in 1 .. MaxQty : Start("add", r, Job("find", <<<<k, n>>>>, k, NoLine, 0))
  BY DEF AddItem
<1> DEFINE q == Job("find", <<<<k, n>>>>, k, NoLine, 0)
<1>2. <<<<k, n>>>> \in Adds
  BY DEF Adds
<1>3. q \in Task
  BY <1>2, JobTypes, LineTypes DEF Steps
<1>4. TaskOK(q)
  BY DEF TaskOK, Job
<1> QED BY <1>1, <1>3, <1>4, StartTypes
LEMMA WantedNat == \A g \in Adds : Wanted(g) \in Nat
<1> SUFFICES ASSUME NEW g \in Adds PROVE Wanted(g) \in Nat
  OBVIOUS
<1>1. IsFiniteSet(DOMAIN g) /\ \A i \in DOMAIN g : g[i][2] \in Nat
  BY FS_Interval DEF Adds
<1>2. \A i \in DOMAIN g : [j \in DOMAIN g |-> g[j][2]][i] \in Nat
  BY <1>1
<1> QED BY <1>1, <1>2, WantedIs, SumOverNat

LEMMA TakenAdds ==
    ASSUME NEW m \in Nat \ {0}, NEW groups \in [1 .. m -> Designs \X (1 .. MaxQty)]
    PROVE  groups \in Adds /\ groups # <<>>
<1>1. Designs \X (1 .. MaxQty) \subseteq Keys \X (Nat \ {0})
  BY DEF Keys, Caps
<1>2. groups \in [1 .. m -> Keys \X (Nat \ {0})]
  BY <1>1
<1> QED BY <1>2 DEF Adds

LEMMA PersonaliseItemTypes ==
    ASSUME BasketTypes, NEW r \in Requests, PersonaliseItem(r), UNCHANGED <<reminder, reminded>>
    PROVE  BasketTypes'
<1>0. PICK groups \in UNION {[1 .. m -> Designs \X (1 .. MaxQty)] : m \in 1 .. Cardinality(Designs)} :
         /\ Here(lines, Plain)
         /\ Start("personalise", r, Job("find", groups, Plain, lines[Plain], Wanted(groups)))
  BY DEF PersonaliseItem, Wanted
<1>1. PICK m \in 1 .. Cardinality(Designs) : groups \in [1 .. m -> Designs \X (1 .. MaxQty)]
  OBVIOUS
<1> DEFINE q == Job("find", groups, Plain, lines[Plain], Wanted(groups))
<1>2. m \in Nat \ {0}
  BY <1>1
<1>3. groups \in Adds /\ groups # <<>>
  BY <1>1, <1>2, TakenAdds
<1>4. Wanted(groups) \in Nat
  BY <1>3, WantedNat
<1>5. Plain \in Keys
  BY DEF Keys, Caps
<1>6. q \in Task
  BY <1>3, <1>4, <1>5, JobTypes DEF Steps, BasketTypes, Lines
<1>7. TaskOK(q)
  BY <1>0, <1>1, <1>3 DEF TaskOK, Job, Here
<1> QED BY <1>0, <1>1, <1>6, <1>7, StartTypes

LEMMA MoveDesignTypes ==
    ASSUME BasketTypes, NEW r \in Requests, MoveDesign(r), UNCHANGED <<reminder, reminded>>
    PROVE  BasketTypes'
<1>1. PICK d \in Designs, to \in Caps :
         /\ to # d
         /\ Here(lines, d)
         /\ Start("redesign", r, Job("find", <<<<to, lines[d].qty>>>>, d, lines[d], lines[d].qty))
  BY DEF MoveDesign
<1>2. d \in Keys /\ to \in Keys /\ lines[d] \in Line /\ lines[d].qty \in Nat \ {0}
  BY <1>1 DEF Keys, Caps, BasketTypes, Lines, Line
<1>3. <<<<to, lines[d].qty>>>> \in Adds
  BY <1>2 DEF Adds
<1> DEFINE q == Job("find", <<<<to, lines[d].qty>>>>, d, lines[d], lines[d].qty)
<1>4. q \in Task
  BY <1>2, <1>3, JobTypes DEF Steps
<1>5. TaskOK(q)
  BY <1>1 DEF TaskOK, Job, Here
<1> QED BY <1>1, <1>4, <1>5, StartTypes

LEMMA UpdateItemTypes ==
    ASSUME BasketTypes, NEW r \in Requests, UpdateItem(r), UNCHANGED <<reminder, reminded>>
    PROVE  BasketTypes'
<1>1. PICK k \in Keys, n \in 1 .. MaxQty :
         Here(lines, k) /\ Start("update", r, Job("set", <<<<k, n>>>>, k, lines[k], 0))
  BY DEF UpdateItem
<1> DEFINE q == Job("set", <<<<k, n>>>>, k, lines[k], 0)
<1>2. <<<<k, n>>>> \in Adds
  BY DEF Adds
<1>3. q \in Task
  BY <1>2, JobTypes DEF Steps, BasketTypes, Lines
<1>4. TaskOK(q)
  BY <1>1 DEF TaskOK, Job, Here
<1> QED BY <1>1, <1>3, <1>4, StartTypes

LEMMA RemoveItemTypes ==
    ASSUME BasketTypes, NEW r \in Requests, RemoveItem(r), UNCHANGED <<reminder, reminded>>
    PROVE  BasketTypes'
<1>1. PICK k \in Keys :
         Here(lines, k) /\ Start("remove", r, Job("drop", <<>>, k, lines[k], lines[k].qty))
  BY DEF RemoveItem
<1> DEFINE q == Job("drop", <<>>, k, lines[k], lines[k].qty)
<1>2. <<>> \in Adds
  BY DEF Adds
<1>3. q \in Task
  BY <1>2, JobTypes DEF Steps, BasketTypes, Lines, Line
<1>4. TaskOK(q)
  BY <1>1 DEF TaskOK, Job, Here
<1> QED BY <1>1, <1>3, <1>4, StartTypes

\* What is known of a request on its way.
LEMMA TaskAt ==
    ASSUME BasketTypes, NEW r \in Requests, req[r].pc \in Steps
    PROVE  req[r] \in Task /\ TaskOK(req[r])
<1>1. req[r] # Idle
  BY DEF Idle, Steps
<1> QED BY <1>1 DEF BasketTypes

\* The request leaves what it wrote and goes on, or ends.
LEMMA GoTypes ==
    ASSUME BasketTypes, NEW r \in Requests, NEW q \in Task \cup {Idle},
           q # Idle => TaskOK(q),
           req' = [req EXCEPT ![r] = q],
           UNCHANGED <<cart, lines, nextId, reminder, reminded, asked>>,
           job' \in {"none", "delayed", "active", "failed"}, muddled' \in BOOLEAN
    PROVE  BasketTypes'
BY DEF BasketTypes, Here

LEMMA AbortTypes ==
    ASSUME BasketTypes, NEW r \in Requests, req[r].pc \in Steps, Abort(r),
           UNCHANGED <<cart, lines, nextId, job, reminder, reminded, asked>>
    PROVE  BasketTypes'
<1>1. muddled' \in BOOLEAN
  BY TaskAt DEF Abort, BasketTypes, Task
<1> QED BY <1>1, GoTypes DEF Abort, End, BasketTypes

LEMMA FindTypes ==
    ASSUME BasketTypes, NEW r \in Requests, Find(r), UNCHANGED <<reminder, reminded>>
    PROVE  BasketTypes'
<1>1. req[r].pc = "find" /\ UNCHANGED <<cart, lines, nextId, job, asked>>
  BY DEF Find
<1>2. req[r] \in Task /\ TaskOK(req[r])
  BY <1>1, TaskAt DEF Steps
<1>3. CASE Abort(r)
  BY <1>1, <1>3, AbortTypes DEF Steps
<1>4. CASE Goto(r, "create") /\ UNCHANGED muddled
  <2>1. [req[r] EXCEPT !.pc = "create"] \in Task /\ TaskOK([req[r] EXCEPT !.pc = "create"])
    BY <1>1, <1>2 DEF Task, Steps, TaskOK
  <2>2. req' = [req EXCEPT ![r] = [req[r] EXCEPT !.pc = "create"]]
    BY <1>4 DEF Goto
  <2> QED BY <1>1, <1>4, <2>1, <2>2, GoTypes DEF BasketTypes
<1>5. CASE req' = [req EXCEPT ![r].pc = "put", ![r].seen = lines] /\ UNCHANGED muddled
  <2> DEFINE q == [req[r] EXCEPT !.pc = "put", !.seen = lines]
  <2>1. q \in Task /\ TaskOK(q)
    BY <1>1, <1>2 DEF Task, Steps, TaskOK, BasketTypes
  <2>2. req' = [req EXCEPT ![r] = q]
    BY <1>2, <1>5 DEF Task
  <2> HIDE DEF q
  <2> QED BY <1>1, <1>5, <2>1, <2>2, GoTypes DEF BasketTypes
<1> QED BY <1>3, <1>4, <1>5 DEF Find

LEMMA EmptyLines == [k \in Keys |-> NoLine] \in Lines
BY LineTypes DEF Lines

LEMMA CreateCartTypes ==
    ASSUME BasketTypes, NEW r \in Requests, CreateCart(r), UNCHANGED <<reminder, reminded>>
    PROVE  BasketTypes'
<1>1. req[r].pc = "create" /\ UNCHANGED <<lines, nextId, job, asked>>
  BY DEF CreateCart
<1>2. req[r] \in Task /\ TaskOK(req[r])
  BY <1>1, TaskAt DEF Steps
<1>3. CASE cart = "none"
  <2> DEFINE q == [req[r] EXCEPT !.pc = "put", !.seen = [k \in Keys |-> NoLine]]
  <2>1. q \in Task /\ TaskOK(q)
    BY <1>1, <1>2, EmptyLines DEF Task, Steps, TaskOK
  <2>2. req' = [req EXCEPT ![r] = q] /\ cart' = "active" /\ UNCHANGED muddled
    BY <1>2, <1>3 DEF Task, CreateCart
  <2> HIDE DEF q
  <2> QED BY <1>1, <2>1, <2>2 DEF BasketTypes, Here
<1>4. CASE cart # "none"
  BY <1>1, <1>4, AbortTypes DEF CreateCart, Steps
<1> QED BY <1>3, <1>4

LEMMA HeadOfAdds == \A g \in Adds : g # <<>> => g[1][1] \in Keys /\ g[1][2] \in Nat \ {0} /\ Tail(g) \in Adds
BY DEF Adds

LEMMA PutTypes ==
    ASSUME BasketTypes, NEW r \in Requests, Put(r), UNCHANGED <<reminder, reminded>>
    PROVE  BasketTypes'
<1> DEFINE k == req[r].left[1][1]
           n == req[r].left[1][2]
           was == req[r].seen[k]
           new == [id |-> IF was.id = 0 THEN nextId + 1 ELSE was.id,
                   qty |-> was.qty + n, price |-> PriceAt(k, was.qty + n)]
           q == [req[r] EXCEPT !.pc = "read", !.left = Tail(req[r].left), !.moved = req[r].drop > 0]
<1>1. req[r].pc = "put" /\ UNCHANGED <<cart, job>>
  BY DEF Put
<1>2. req[r] \in Task /\ TaskOK(req[r])
  BY <1>1, TaskAt DEF Steps
<1>3. k \in Keys /\ n \in Nat \ {0} /\ Tail(req[r].left) \in Adds
  BY <1>1, <1>2, HeadOfAdds DEF Task, TaskOK
<1>4. was \in Line
  BY <1>2, <1>3 DEF Task, Lines
<1>5. CASE was.id # lines[k].id
  BY <1>1, <1>5, AbortTypes DEF Put, Steps
<1>6. CASE was.id = lines[k].id
  <2>1. /\ lines' = [lines EXCEPT ![k] = new]
        /\ nextId' = IF was.id = 0 THEN nextId + 1 ELSE nextId
        /\ asked' = IF req[r].drop = 0 THEN asked + n ELSE asked
        /\ req' = [req EXCEPT ![r].pc = "read", ![r].left = Tail(req[r].left),
                              ![r].moved = req[r].drop > 0]
        /\ UNCHANGED muddled
    BY <1>6 DEF Put
  <2>2. q \in Task /\ TaskOK(q)
    <3> DEFINE b == req[r].drop > 0
    <3>1. b \in BOOLEAN
      OBVIOUS
    <3> HIDE DEF b
    <3>2. [req[r] EXCEPT !.pc = "read", !.left = Tail(req[r].left), !.moved = b] \in Task
      BY <1>2, <1>3, <3>1 DEF Task, Steps
    <3>3. q \in Task
      BY <3>2 DEF b
    <3> QED BY <1>1, <1>2, <3>3 DEF Task, TaskOK
  <2>3. req' = [req EXCEPT ![r] = q]
    BY <1>2, <2>1 DEF Task
  <2>4. new \in Line /\ new.id > 0 /\ new.qty > 0 /\ new.price > 0
    <3> HIDE DEF k, n, was
    <3> QED BY <1>3, <1>4, PriceTypes DEF Line, BasketTypes
  <2>5. nextId' \in Nat /\ asked' \in Int
    <3> HIDE DEF k, was, n
    <3> QED BY <1>3, <1>4, <2>1 DEF BasketTypes
  <2> HIDE DEF q, new, k, n, was
  <2>6. lines' \in Lines /\ \A x \in Keys : IF Here(lines', x) THEN lines'[x].qty > 0 /\ lines'[x].price > 0
                                           ELSE lines'[x] = NoLine
    BY <1>3, <2>1, <2>4 DEF BasketTypes, Lines, Here
  <2> QED BY <1>1, <2>1, <2>2, <2>3, <2>5, <2>6 DEF BasketTypes
<1> QED BY <1>5, <1>6

LEMMA SetLineTypes ==
    ASSUME BasketTypes, NEW r \in Requests, SetLine(r), UNCHANGED <<reminder, reminded>>
    PROVE  BasketTypes'
<1> DEFINE k == req[r].key
           n == req[r].left[1][2]
           q == [req[r] EXCEPT !.pc = "read", !.left = <<>>]
<1>1. req[r].pc = "set" /\ UNCHANGED <<cart, nextId, job>>
  BY DEF SetLine
<1>2. req[r] \in Task /\ TaskOK(req[r])
  BY <1>1, TaskAt DEF Steps
<1>3. k \in Keys /\ n \in Nat \ {0} /\ req[r].item \in Line /\ req[r].item.id # 0
  BY <1>1, <1>2, HeadOfAdds DEF Task, TaskOK
<1>4. CASE lines[k].id # req[r].item.id
  BY <1>1, <1>4, AbortTypes DEF SetLine, Steps
<1>5. CASE lines[k].id = req[r].item.id
  <2>1. /\ lines' = [lines EXCEPT ![k].qty = n, ![k].price = PriceAt(k, n)]
        /\ asked' = asked + n - req[r].item.qty
        /\ req' = [req EXCEPT ![r].pc = "read", ![r].left = <<>>]
        /\ UNCHANGED muddled
    BY <1>5 DEF SetLine
  <2>2. q \in Task /\ TaskOK(q)
    <3>1. <<>> \in Adds
      BY DEF Adds
    <3> QED BY <1>1, <1>2, <3>1 DEF Task, TaskOK, Steps
  <2>3. req' = [req EXCEPT ![r] = q]
    BY <1>2, <2>1 DEF Task
  <2>4. asked' \in Int
    <3> HIDE DEF n
    <3> QED BY <1>3, <2>1 DEF BasketTypes, Line
  <2> HIDE DEF q, k, n
  <2>5. lines' \in Lines /\ \A x \in Keys : IF Here(lines', x) THEN lines'[x].qty > 0 /\ lines'[x].price > 0
                                           ELSE lines'[x] = NoLine
    <3>1. lines' = [lines EXCEPT ![k] = [lines[k] EXCEPT !.qty = n, !.price = PriceAt(k, n)]]
      BY <1>3, <2>1 DEF BasketTypes, Lines, Line
    <3>2. [lines[k] EXCEPT !.qty = n, !.price = PriceAt(k, n)] \in Line
      BY <1>3, PriceTypes DEF BasketTypes, Lines, Line
    <3> QED BY <1>3, <1>5, <3>1, <3>2, PriceTypes DEF BasketTypes, Lines, Line, Here
  <2> QED BY <1>1, <2>1, <2>2, <2>3, <2>4, <2>5 DEF BasketTypes
<1> QED BY <1>4, <1>5

LEMMA RestType == \A item \in Line, drop \in Nat : Rest(item, drop) \in Nat
BY DEF Rest, Line

LEMMA DropTypes ==
    ASSUME BasketTypes, NEW r \in Requests, Drop(r), UNCHANGED <<reminder, reminded>>
    PROVE  BasketTypes'
<1> DEFINE k == req[r].key
           rest == Rest(req[r].item, req[r].drop)
           q == [req[r] EXCEPT !.pc = "read", !.drop = 0]
           new == IF rest = 0 THEN NoLine
                  ELSE [id |-> lines[k].id, qty |-> rest, price |-> lines[k].price]
<1>1. req[r].pc = "drop" /\ UNCHANGED <<cart, nextId, job>>
  BY DEF Drop
<1>2. req[r] \in Task /\ TaskOK(req[r])
  BY <1>1, TaskAt DEF Steps
<1>3. k \in Keys /\ rest \in Nat /\ req[r].item \in Line /\ req[r].item.id # 0
  BY <1>1, <1>2, RestType DEF Task, TaskOK
<1>4. CASE lines[k].id # req[r].item.id
  BY <1>1, <1>4, AbortTypes DEF Drop, Steps
<1>5. CASE lines[k].id = req[r].item.id
  <2>1. /\ lines' = [lines EXCEPT ![k] = new]
        /\ asked' = IF req[r].moved THEN asked ELSE asked - req[r].item.qty
        /\ req' = [req EXCEPT ![r].pc = "read", ![r].drop = 0]
        /\ UNCHANGED muddled
    BY <1>5 DEF Drop
  <2>2. q \in Task /\ TaskOK(q)
    BY <1>1, <1>2 DEF Task, TaskOK, Steps
  <2>3. req' = [req EXCEPT ![r] = q]
    BY <1>2, <2>1 DEF Task
  <2>4. asked' \in Int
    BY <1>3, <2>1 DEF BasketTypes, Line
  <2>5. new = NoLine \/ (new \in Line /\ new.id # 0 /\ new.qty > 0 /\ new.price > 0)
    <3> HIDE DEF rest, k
    <3> QED BY <1>3, <1>5 DEF BasketTypes, Lines, Line, Here
  <2> HIDE DEF q, k, new
  <2>6. lines' \in Lines /\ \A x \in Keys : IF Here(lines', x) THEN lines'[x].qty > 0 /\ lines'[x].price > 0
                                           ELSE lines'[x] = NoLine
    <3>1. new \in Line /\ (new.id = 0 => new = NoLine)
      BY <2>5, LineTypes
    <3> QED BY <1>3, <2>1, <2>5, <3>1 DEF BasketTypes, Lines, Here, NoLine
  <2> QED BY <1>1, <2>1, <2>2, <2>3, <2>4, <2>6 DEF BasketTypes
<1> QED BY <1>4, <1>5

LEMMA ReadLinesTypes ==
    ASSUME BasketTypes, NEW r \in Requests, ReadLines(r), UNCHANGED <<reminder, reminded>>
    PROVE  BasketTypes'
<1> DEFINE q == [req[r] EXCEPT !.pc = "price", !.seen = lines]
<1>1. req[r].pc = "read" /\ UNCHANGED <<cart, lines, nextId, job, asked, muddled>>
  BY DEF ReadLines
<1>2. req[r] \in Task /\ TaskOK(req[r])
  BY <1>1, TaskAt DEF Steps
<1>3. q \in Task /\ TaskOK(q)
  BY <1>1, <1>2 DEF Task, TaskOK, Steps, BasketTypes
<1>4. req' = [req EXCEPT ![r] = q]
  BY <1>2 DEF Task, ReadLines
<1> HIDE DEF q
<1> QED BY <1>1, <1>3, <1>4, GoTypes DEF BasketTypes

\* What a repricing writes.
Rewritten(ls, seen, there) ==
    [k \in Keys |-> IF k \in there
                    THEN [id |-> ls[k].id, qty |-> ls[k].qty, price |-> PriceAt(k, Units(seen, Caps))]
                    ELSE ls[k]]

LEMMA RepriceTypes ==
    ASSUME BasketTypes, NEW r \in Requests, Reprice(r), UNCHANGED <<reminder, reminded>>
    PROVE  BasketTypes'
<1> DEFINE seen == req[r].seen
           write == IF req[r].key \in Caps THEN Moves(seen) ELSE {}
           there == {k \in write : lines[k].id = seen[k].id}
<1>1. req[r].pc = "price" /\ UNCHANGED <<cart, nextId, job, asked>>
  BY DEF Reprice
<1>2. req[r] \in Task /\ TaskOK(req[r])
  BY <1>1, TaskAt DEF Steps
<1>3. lines' = Rewritten(lines, seen, there)
  BY DEF Reprice, Rewritten
<1>4. \A k \in there : k \in Keys /\ Here(lines, k)
  BY DEF Moves, Known, Here
<1> HIDE DEF there, write, seen
<1>5. lines' \in Lines /\ \A x \in Keys : IF Here(lines', x) THEN lines'[x].qty > 0 /\ lines'[x].price > 0
                                         ELSE lines'[x] = NoLine
  BY <1>3, <1>4, PriceTypes DEF BasketTypes, Lines, Line, Here, Rewritten
<1>6. CASE Abort(r)
  <2>1. req' = [req EXCEPT ![r] = Idle] /\ muddled' \in BOOLEAN
    BY <1>2, <1>6 DEF Abort, End, Task, BasketTypes
  <2> QED BY <1>1, <1>5, <2>1 DEF BasketTypes
<1>7. CASE Goto(r, "remind") /\ UNCHANGED muddled
  <2>1. [req[r] EXCEPT !.pc = "remind"] \in Task /\ TaskOK([req[r] EXCEPT !.pc = "remind"])
    BY <1>1, <1>2 DEF Task, Steps, TaskOK
  <2>2. req' = [req EXCEPT ![r] = [req[r] EXCEPT !.pc = "remind"]]
    BY <1>7 DEF Goto
  <2> QED BY <1>1, <1>5, <1>7, <2>1, <2>2 DEF BasketTypes
<1>8. CASE End(r) /\ UNCHANGED muddled
  BY <1>1, <1>5, <1>8 DEF End, BasketTypes
<1> QED BY <1>6, <1>7, <1>8 DEF Reprice

LEMMA RemindTypes ==
    ASSUME BasketTypes, NEW r \in Requests, Remind(r), UNCHANGED <<reminder, reminded>>
    PROVE  BasketTypes'
<1>1. req[r].pc = "remind" /\ UNCHANGED <<cart, lines, nextId, asked, muddled>>
  BY DEF Remind
<1>2. req[r] \in Task /\ TaskOK(req[r])
  BY <1>1, TaskAt DEF Steps
<1>3. job' \in {"none", "delayed", "active", "failed"} /\ muddled' \in BOOLEAN
  BY <1>1 DEF Remind, BasketTypes
<1>4. CASE req[r].left # <<>> /\ Goto(r, "find")
  <2>1. [req[r] EXCEPT !.pc = "find"] \in Task /\ TaskOK([req[r] EXCEPT !.pc = "find"])
    BY <1>1, <1>2, <1>4 DEF Task, Steps, TaskOK
  <2> QED BY <1>1, <1>3, <1>4, <2>1, GoTypes DEF Goto
<1>5. CASE req[r].drop > 0 /\ Goto(r, "drop")
  <2>1. [req[r] EXCEPT !.pc = "drop"] \in Task /\ TaskOK([req[r] EXCEPT !.pc = "drop"])
    BY <1>1, <1>2, <1>5 DEF Task, Steps, TaskOK
  <2> QED BY <1>1, <1>3, <1>5, <2>1, GoTypes DEF Goto
<1>6. CASE End(r)
  BY <1>1, <1>3, <1>6, GoTypes DEF End
<1> QED BY <1>4, <1>5, <1>6 DEF Remind

\* The steps of the module, sorted by what they do to the basket.
LEMMA StepCases ==
    ASSUME [Next]_vars
    PROVE  \/ \E r \in Requests : Edit(r) /\ UNCHANGED <<orderVars, closing, session>>
           \/ (Fire \/ Flip \/ Mail \/ Finish \/ Stall \/ Break) /\ UNCHANGED <<orderVars, closing, session>>
           \/ (SpendCart \/ CompleteCart \/ DropReminder)
           \/ UNCHANGED basketCore /\ \/ UNCHANGED <<closing, session>>
                                      \/ \E o \in Numbers : Settle(o)
                                      \/ CloseSession
<1>1. CASE UNCHANGED vars
  BY <1>1 DEF vars, basketVars, basketCore
<1>2. CASE BasketNext /\ UNCHANGED <<orderVars, closing, session>>
  <2>1. CASE Sell /\ UNCHANGED <<reminder, reminded, stalls>>
    BY <1>2, <2>1 DEF Sell, basketCore
  <2> QED BY <1>2, <2>1 DEF BasketNext
<1>3. CASE \E t \in Tabs : Handler(t)
  BY <1>3 DEF Handler, basketCore
<1>4. CASE \E o \in Numbers : Pay(o)
  BY <1>4 DEF Pay, basketCore, basketVars
<1>5. ASSUME NEW o \in Numbers, Settle(o) PROVE UNCHANGED basketCore
  BY <1>5 DEF Settle, basketCore, basketVars
<1>6. ASSUME CloseSession PROVE UNCHANGED basketCore
  BY <1>6 DEF CloseSession, basketCore, basketVars
<1> QED BY <1>1, <1>2, <1>3, <1>4, <1>5, <1>6 DEF Next

LEMMA BasketTypesStep == BasketTypes /\ [Next]_vars => BasketTypes'
<1> SUFFICES ASSUME BasketTypes, [Next]_vars PROVE BasketTypes'
  OBVIOUS
<1>1. ASSUME NEW r \in Requests, Edit(r) PROVE BasketTypes'
  <2>1. UNCHANGED <<reminder, reminded>>
    BY <1>1 DEF Edit
  <2> QED
    BY <1>1, <2>1, AddItemTypes, PersonaliseItemTypes, MoveDesignTypes, UpdateItemTypes, RemoveItemTypes,
       FindTypes, CreateCartTypes, PutTypes, SetLineTypes, DropTypes, ReadLinesTypes, RepriceTypes,
       RemindTypes DEF Edit
<1>2. CASE Fire \/ Flip \/ Mail \/ Finish \/ Stall \/ Break
  BY <1>2 DEF BasketTypes, Here, Fire, Flip, Mail, Finish, Stall, Break, cartVars
<1>3. CASE SpendCart \/ CompleteCart \/ DropReminder
  BY <1>3 DEF BasketTypes, Here, SpendCart, CompleteCart, DropReminder
<1> QED BY <1>1, <1>2, <1>3, StepCases, BasketTypesStable

-----------------------------------------------------------------------------
(* The reminder. *)

\* The mail is written between the flip, which needs an active cart, and the
\* end of the attempt: a cart that was flipped never becomes active again.
ReminderInv ==
    /\ cart \in {"none", "active"} => reminded = 0 /\ reminder \notin {"mail", "done"}
    /\ reminder = "mail" => reminded = 0
    /\ reminded <= 1
    /\ closing \in {"job", "session", "stopped", "done"} => cart = "completed"

LEMMA InitReminder == Init => ReminderInv
BY DEF Init, BasketInit, ReminderInv

LEMMA EditCart ==
    ASSUME BasketTypes, NEW r \in Requests, Edit(r)
    PROVE  cart' = cart \/ (cart = "none" /\ cart' = "active")
BY DEF Edit, AddItem, PersonaliseItem, MoveDesign, UpdateItem, RemoveItem, Start, Find, CreateCart, Put,
       SetLine, Drop, ReadLines, Reprice, Remind

LEMMA ReminderStep == BasketTypes /\ ReminderInv /\ [Next]_vars => ReminderInv'
<1> SUFFICES ASSUME BasketTypes, ReminderInv, [Next]_vars PROVE ReminderInv'
  OBVIOUS
<1>1. ASSUME NEW r \in Requests, Edit(r), UNCHANGED <<orderVars, closing, session>> PROVE ReminderInv'
  <2>1. UNCHANGED <<reminder, reminded, closing>>
    BY <1>1 DEF Edit
  <2> QED BY <1>1, <2>1, EditCart DEF ReminderInv
<1>2. CASE (Fire \/ Flip \/ Mail \/ Finish \/ Stall \/ Break) /\ UNCHANGED <<orderVars, closing, session>>
  BY <1>2 DEF ReminderInv, BasketTypes, Fire, Flip, Abandon, Mail, Finish, Stall, Break, cartVars
<1>3. CASE SpendCart \/ CompleteCart \/ DropReminder
  BY <1>3 DEF ReminderInv, BasketTypes, SpendCart, CompleteCart, DropReminder
<1>4. CASE UNCHANGED basketCore /\ UNCHANGED <<closing, session>>
  BY <1>4 DEF ReminderInv, basketCore
<1>5. CASE UNCHANGED basketCore /\ \E o \in Numbers : Settle(o)
  BY <1>5 DEF ReminderInv, basketCore, Settle
<1>6. CASE UNCHANGED basketCore /\ CloseSession
  BY <1>6 DEF ReminderInv, basketCore, CloseSession
<1> QED BY <1>1, <1>2, <1>3, <1>4, <1>5, <1>6, StepCases

\* The owner of a cart is reminded at most once, whatever crashes, and a cart
\* that a payment closed is reopened by nothing (CartAbandonmentProcessor,
\* CartCheckoutCompletionListener).
THEOREM RemindsOnce == Spec => []RemindedOnce
<1>1. Init => BasketTypes /\ ReminderInv
  BY InitBasketTypes, InitReminder
<1>2. BasketTypes /\ ReminderInv /\ [Next]_vars => (BasketTypes /\ ReminderInv)'
  BY BasketTypesStep, ReminderStep
<1>3. BasketTypes /\ ReminderInv => RemindedOnce
  BY DEF ReminderInv, RemindedOnce
<1> QED BY <1>1, <1>2, <1>3, PTL DEF Spec

-----------------------------------------------------------------------------
(* The orders: types. *)

Limits ==
    /\ IsFiniteSet(Designs) /\ IsFiniteSet(Others)
    /\ Plain \notin Designs \cup Others /\ Designs \cap Others = {}
    /\ Fee \in Nat
    /\ MaxOrders \in Nat

Order == [st : {"none", "draft", "awaiting_payment", "paid", "cancelled"}, lines : Lines, sub : Nat,
          method : Methods \cup {NoChoice}, ship : Nat, total : Nat,
          country : Countries \cup {NoChoice}, point : Countries \cup {NoChoice}, pi : BOOLEAN]
Intent == [st : {"none", "open", "paid"}, amount : Nat]

Builder == [pc : Building, seen : Lines, country : Countries, o : Numbers \cup {0}]
Shipper == [pc : {"ship"}, o : Numbers, method : Methods, seen : Order]
Picker == [pc : {"resolve", "point"}, o : Numbers, point : Countries]
Awaiter == [pc : {"await"}, o : Numbers]
Payer == [pc : {"mint", "attach"}, o : Numbers, pi : BOOLEAN, total : Nat]
Handlers == Builder \cup Shipper \cup Picker \cup Awaiter \cup Payer

OrderTypes ==
    /\ orders \in [Numbers -> Order]
    /\ stripe \in [Numbers -> Intent]
    /\ tab \in [Tabs -> Handlers \cup {Idle}]
    /\ \A t \in Tabs : tab[t].pc \in {"cancel", "resume"} => tab[t].o \in Numbers
    /\ closing \in {"no", "spend", "cart", "job", "session", "stopped", "done"}
    /\ session \in {"open", "complete"}
    /\ drifted \subseteq Numbers
    /\ stale \subseteq Numbers
    /\ raced \in BOOLEAN

LEMMA KeysFinite == Limits => IsFiniteSet(Keys)
<1> SUFFICES ASSUME Limits PROVE IsFiniteSet(Keys)
  OBVIOUS
<1>1. IsFiniteSet({Plain})
  BY FS_Singleton
<1>2. IsFiniteSet({Plain} \cup Designs)
  BY <1>1, FS_Union DEF Limits
<1> QED BY <1>2, FS_Union DEF Limits, Keys, Caps

LEMMA SubtotalNat == Limits => \A ls \in Lines : Subtotal(ls) \in Nat
<1> SUFFICES ASSUME Limits, NEW ls \in Lines PROVE Subtotal(ls) \in Nat
  OBVIOUS
<1>1. \A k \in Keys : ls[k].qty \in Nat /\ ls[k].price \in Nat
  BY DEF Lines, Line, Tier, Full
<1>2. \A k \in Keys : ls[k].qty * ls[k].price \in Nat
  BY <1>1
<1> DEFINE F == [k \in Keys |-> ls[k].qty * ls[k].price]
<1>3. \A k \in Keys : F[k] \in Nat
  BY <1>2
<1> HIDE DEF F
<1>4. SumOver(F, Keys) \in Nat
  BY <1>3, KeysFinite, SumOverNat
<1> QED BY <1>4, KeysFinite, SubtotalIs DEF F

\* Lines of the same quantities and prices have one subtotal.
LEMMA SubtotalSame ==
    ASSUME Limits, NEW ls \in Lines, NEW ms \in Lines, Same(ls, ms)
    PROVE  Subtotal(ls) = Subtotal(ms)
<1> DEFINE F(xs) == [k \in Keys |-> xs[k].qty * xs[k].price]
<1>1. F(ls) = F(ms)
  BY DEF Same
<1>2. Subtotal(ls) = SumOver(F(ls), Keys) /\ Subtotal(ms) = SumOver(F(ms), Keys)
  BY KeysFinite, SubtotalIs
<1> HIDE DEF F
<1> QED BY <1>1, <1>2

LEMMA QuoteNat == Limits => \A sub : Quote(sub) \in Nat
BY DEF Limits, Quote

LEMMA InitOrderTypes == Limits /\ Init => OrderTypes
<1> SUFFICES ASSUME Limits, Init PROVE OrderTypes
  OBVIOUS
<1>1. Blank \in Order
  BY EmptyLines DEF Blank, Order
<1>2. [st |-> "none", amount |-> 0] \in Intent
  BY DEF Intent
<1>3. orders \in [Numbers -> Order] /\ stripe \in [Numbers -> Intent]
  BY <1>1, <1>2 DEF Init
<1>4. tab \in [Tabs -> Handlers \cup {Idle}] /\ \A t \in Tabs : tab[t].pc = "idle"
  BY DEF Init, Idle
<1> QED BY <1>3, <1>4 DEF Init, OrderTypes

\* The kind of a running handler, by its step.
LEMMA HandlerAt ==
    ASSUME OrderTypes, NEW t \in Tabs
    PROVE  /\ tab[t].pc \in Building => tab[t] \in Builder
           /\ tab[t].pc = "ship" => tab[t] \in Shipper
           /\ tab[t].pc \in {"resolve", "point"} => tab[t] \in Picker
           /\ tab[t].pc = "await" => tab[t] \in Awaiter
           /\ tab[t].pc \in {"mint", "attach"} => tab[t] \in Payer
BY DEF OrderTypes, Handlers, Builder, Shipper, Picker, Awaiter, Payer, Building, Idle

\* A handler goes on, or ends, with the rows it wrote.
LEMMA TabTypes ==
    ASSUME OrderTypes, NEW t \in Tabs, NEW h \in Handlers \cup {Idle},
           h.pc \in {"cancel", "resume"} => h.o \in Numbers,
           tab' = [tab EXCEPT ![t] = h],
           orders' \in [Numbers -> Order], stripe' \in [Numbers -> Intent],
           drifted' \subseteq Numbers, stale' \subseteq Numbers, raced' \in BOOLEAN,
           UNCHANGED <<closing, session>>
    PROVE  OrderTypes'
BY DEF OrderTypes

LEMMA IdleStops == Idle \in Handlers \cup {Idle} /\ Idle.pc \notin {"cancel", "resume"}
BY DEF Idle

LEMMA InitiateTypes ==
    ASSUME BasketTypes, OrderTypes, NEW t \in Tabs, Initiate(t), UNCHANGED <<closing, session>>
    PROVE  OrderTypes'
<1>1. PICK c \in Countries : tab' = [tab EXCEPT ![t] = [pc |-> "open", seen |-> lines, country |-> c, o |-> 0]]
  BY DEF Initiate, Call, Run
<1> DEFINE h == [pc |-> "open", seen |-> lines, country |-> c, o |-> 0]
<1>2. h \in Handlers
  BY DEF Handlers, Builder, Building, BasketTypes
<1>3. raced' \in BOOLEAN
  BY DEF Initiate, OrderTypes
<1> QED BY <1>1, <1>2, <1>3, TabTypes DEF Initiate, OrderTypes

LEMMA OpenTypes ==
    ASSUME OrderTypes, NEW t \in Tabs, Open(t), UNCHANGED <<closing, session>>
    PROVE  OrderTypes'
<1>1. tab[t].pc = "open" /\ tab[t] \in Builder
  BY HandlerAt DEF Open, At, Building
<1>2. CASE Step(t, "place")
  <2>1. [tab[t] EXCEPT !.pc = "place"] \in Handlers
    BY <1>1 DEF Handlers, Builder, Building
  <2> QED BY <1>1, <1>2, <2>1, TabTypes DEF Open, Step, OrderTypes, Builder
<1>3. ASSUME NEW o \in Existing,
             tab' = [tab EXCEPT ![t].o = o, ![t].pc = IF Rebuilt(o, tab[t].seen) THEN "cancel" ELSE "resume"]
      PROVE  OrderTypes'
  <2> DEFINE h == [tab[t] EXCEPT !.o = o, !.pc = IF Rebuilt(o, tab[t].seen) THEN "cancel" ELSE "resume"]
  <2>1. o \in Numbers
    BY DEF Existing, OpenOrders
  <2>2. h \in Handlers /\ h.o = o
    BY <1>1, <2>1 DEF Handlers, Builder, Building
  <2>3. tab' = [tab EXCEPT ![t] = h]
    BY <1>1, <1>3 DEF OrderTypes, Builder
  <2> HIDE DEF h
  <2> QED BY <2>1, <2>2, <2>3, TabTypes DEF Open, OrderTypes
<1> QED BY <1>2, <1>3 DEF Open

LEMMA CancelTypes ==
    ASSUME OrderTypes, NEW t \in Tabs, Cancel(t), UNCHANGED <<closing, session>>
    PROVE  OrderTypes'
<1>1. tab[t].pc = "cancel" /\ tab[t] \in Builder /\ tab[t].o \in Numbers
  BY HandlerAt DEF Cancel, At, Building, OrderTypes
<1>2. orders' \in [Numbers -> Order]
  BY <1>1 DEF Cancel, OrderTypes, Order
<1>3. CASE Step(t, "place")
  <2>1. [tab[t] EXCEPT !.pc = "place"] \in Handlers
    BY <1>1 DEF Handlers, Builder, Building
  <2> QED BY <1>1, <1>2, <1>3, <2>1, TabTypes DEF Cancel, Step, OrderTypes, Builder
<1>4. CASE Leave(t)
  BY <1>2, <1>4, IdleStops, TabTypes DEF Cancel, Leave, OrderTypes
<1> QED BY <1>3, <1>4 DEF Cancel

LEMMA LeaveTypes ==
    ASSUME OrderTypes, NEW t \in Tabs, Leave(t),
           orders' \in [Numbers -> Order], stripe' \in [Numbers -> Intent],
           drifted' \subseteq Numbers, stale' \subseteq Numbers, raced' \in BOOLEAN,
           UNCHANGED <<closing, session>>
    PROVE  OrderTypes'
BY IdleStops, TabTypes DEF Leave

LEMMA PlaceTypes ==
    ASSUME Limits, OrderTypes, NEW t \in Tabs, Place(t), UNCHANGED <<closing, session>>
    PROVE  OrderTypes'
<1>1. tab[t].pc = "place" /\ tab[t] \in Builder
  BY HandlerAt DEF Place, At, Building
<1> DEFINE ls == tab[t].seen
           new == [Blank EXCEPT !.st = "draft", !.lines = ls, !.sub = Subtotal(ls),
                                !.total = Subtotal(ls), !.country = tab[t].country]
<1>2. ls \in Lines /\ Subtotal(ls) \in Nat /\ tab[t].country \in Countries
  BY <1>1, SubtotalNat DEF Builder
<1>3. new \in Order
  BY <1>2 DEF Blank, Order, Methods
<1>4. orders' \in [Numbers -> Order]
  <2>1. orders' = orders \/ \E o \in Numbers : orders' = [orders EXCEPT ![o] = new]
    BY DEF Place
  <2> HIDE DEF new
  <2> QED BY <1>3, <2>1 DEF OrderTypes
<1> QED BY <1>4, LeaveTypes DEF Place, OrderTypes

LEMMA PricedTypes ==
    ASSUME OrderTypes, NEW o \in Numbers, NEW total, Priced(o, total)
    PROVE  stale' \subseteq Numbers
BY DEF Priced, OrderTypes

LEMMA ResumeTypes ==
    ASSUME Limits, OrderTypes, NEW t \in Tabs, Resume(t), UNCHANGED <<closing, session>>
    PROVE  OrderTypes'
<1> DEFINE o == tab[t].o
           sub == Subtotal(tab[t].seen)
<1>1. tab[t].pc = "resume" /\ tab[t] \in Builder /\ o \in Numbers
  BY HandlerAt DEF Resume, At, Building, OrderTypes
<1>2. sub \in Nat /\ tab[t].country \in Countries
  BY <1>1, SubtotalNat DEF Builder
<1>3. /\ orders' = [orders EXCEPT ![o].sub = sub, ![o].total = sub, ![o].ship = 0,
                       ![o].method = NoChoice, ![o].point = NoChoice, ![o].country = tab[t].country]
      /\ drifted' = drifted \cup {o} \/ drifted' = drifted
      /\ Priced(o, sub)
      /\ Leave(t) /\ UNCHANGED <<stripe, raced>>
  BY DEF Resume
<1> HIDE DEF sub, o
<1>4. orders' \in [Numbers -> Order]
  <2> DEFINE row == [orders[o] EXCEPT !.sub = sub, !.total = sub, !.ship = 0, !.method = NoChoice,
                                      !.point = NoChoice, !.country = tab[t].country]
  <2>1. orders[o] \in Order
    BY <1>1 DEF OrderTypes
  <2>2. row \in Order
    BY <1>2, <2>1 DEF Order
  <2>3. orders' = [orders EXCEPT ![o] = row]
    BY <1>1, <1>3 DEF OrderTypes
  <2> HIDE DEF row
  <2> QED BY <2>2, <2>3 DEF OrderTypes
<1>5. stale' \subseteq Numbers
  BY <1>1, <1>3, PricedTypes
<1> QED BY <1>1, <1>3, <1>4, <1>5, LeaveTypes DEF OrderTypes

\* A request of the customer starts a handler of its own.
LEMMA CallTypes ==
    ASSUME OrderTypes, NEW t \in Tabs, NEW h \in Shipper \cup Picker \cup Awaiter \cup Payer, Call(t, h),
           UNCHANGED <<orders, stripe, drifted, stale, raced, closing, session>>
    PROVE  OrderTypes'
BY TabTypes DEF OrderTypes, Call, Run, Handlers, Shipper, Picker, Awaiter, Payer

LEMMA StartTypesOfHandlers ==
    ASSUME OrderTypes, NEW t \in Tabs,
           StartShipping(t) \/ StartPickup(t) \/ StartReady(t) \/ StartIntent(t),
           UNCHANGED <<closing, session>>
    PROVE  OrderTypes'
<1>0. OpenOrders \subseteq Numbers
  BY DEF OpenOrders
<1>1. CASE StartShipping(t)
  <2>1. PICK o \in OpenOrders, m \in Methods :
           Call(t, [pc |-> "ship", o |-> o, method |-> m, seen |-> orders[o]])
    BY <1>1 DEF StartShipping
  <2>2. [pc |-> "ship", o |-> o, method |-> m, seen |-> orders[o]] \in Shipper
    BY <1>0 DEF Shipper, OrderTypes
  <2> QED BY <1>1, <2>1, <2>2, CallTypes DEF StartShipping
<1>2. CASE StartPickup(t)
  <2>1. PICK o \in OpenOrders, p \in Countries : Call(t, [pc |-> "resolve", o |-> o, point |-> p])
    BY <1>2 DEF StartPickup
  <2>2. [pc |-> "resolve", o |-> o, point |-> p] \in Picker
    BY <1>0 DEF Picker
  <2> QED BY <1>2, <2>1, <2>2, CallTypes DEF StartPickup
<1>3. CASE StartReady(t)
  <2>1. PICK o \in Numbers : Call(t, [pc |-> "await", o |-> o])
    BY <1>3 DEF StartReady
  <2>2. [pc |-> "await", o |-> o] \in Awaiter
    BY DEF Awaiter
  <2> QED BY <1>3, <2>1, <2>2, CallTypes DEF StartReady
<1>4. CASE StartIntent(t)
  <2>1. PICK o \in Numbers :
           Call(t, [pc |-> "mint", o |-> o, pi |-> orders[o].pi, total |-> orders[o].total])
    BY <1>4 DEF StartIntent
  <2>2. [pc |-> "mint", o |-> o, pi |-> orders[o].pi, total |-> orders[o].total] \in Payer
    BY DEF Payer, OrderTypes, Order
  <2> QED BY <1>4, <2>1, <2>2, CallTypes DEF StartIntent
<1> QED BY <1>1, <1>2, <1>3, <1>4

LEMMA UpdateShippingTypes ==
    ASSUME Limits, OrderTypes, NEW t \in Tabs, UpdateShipping(t), UNCHANGED <<closing, session>>
    PROVE  OrderTypes'
<1> DEFINE o == tab[t].o
           price == Quote(tab[t].seen.sub)
           total == tab[t].seen.sub + price
<1>1. tab[t] \in Shipper
  BY HandlerAt DEF UpdateShipping, At
<1>2. o \in Numbers /\ price \in Nat /\ total \in Nat /\ tab[t].method \in Methods
  <2>1. tab[t].seen.sub \in Nat /\ price \in Nat
    BY <1>1, QuoteNat DEF Shipper, Order
  <2> QED BY <1>1, <2>1 DEF Shipper
<1>3. PICK p \in {orders[o].point, NoChoice} :
         orders' = [orders EXCEPT ![o].method = tab[t].method, ![o].ship = price, ![o].total = total,
                                  ![o].point = p]
  BY DEF UpdateShipping
<1>4. Priced(o, total) /\ Leave(t) /\ UNCHANGED <<stripe, drifted, raced>>
  BY DEF UpdateShipping
<1> HIDE DEF o, price, total
<1>5. orders' \in [Numbers -> Order]
  <2> DEFINE row == [orders[o] EXCEPT !.method = tab[t].method, !.ship = price, !.total = total, !.point = p]
  <2>1. orders[o] \in Order
    BY <1>2 DEF OrderTypes
  <2>2. p \in Countries \cup {NoChoice}
    BY <2>1 DEF Order
  <2>3. row \in Order
    BY <1>2, <2>1, <2>2 DEF Order
  <2>4. orders' = [orders EXCEPT ![o] = row]
    BY <1>2, <1>3 DEF OrderTypes
  <2> HIDE DEF row
  <2> QED BY <2>3, <2>4 DEF OrderTypes
<1>6. stale' \subseteq Numbers
  BY <1>2, <1>4, PricedTypes
<1> QED BY <1>4, <1>5, <1>6, LeaveTypes DEF OrderTypes

LEMMA PickupTypes ==
    ASSUME OrderTypes, NEW t \in Tabs, ResolvePoint(t) \/ SelectPickupPoint(t), UNCHANGED <<closing, session>>
    PROVE  OrderTypes'
<1>1. tab[t] \in Picker
  BY HandlerAt DEF ResolvePoint, SelectPickupPoint, At
<1>2. CASE ResolvePoint(t)
  <2>1. [tab[t] EXCEPT !.pc = "point"] \in Handlers
    BY <1>1 DEF Handlers, Picker
  <2>2. Step(t, "point") \/ Leave(t)
    BY <1>2 DEF ResolvePoint
  <2>3. UNCHANGED <<orders, stripe, drifted, stale, raced>>
    BY <1>2 DEF ResolvePoint
  <2>4. CASE Step(t, "point")
    <3> DEFINE h == [tab[t] EXCEPT !.pc = "point"]
    <3>1. tab' = [tab EXCEPT ![t] = h] /\ h.pc = "point"
      BY <1>1, <2>4 DEF Step, Picker
    <3> HIDE DEF h
    <3> QED BY <2>1, <2>3, <3>1, TabTypes DEF OrderTypes, h
  <2>5. CASE Leave(t)
    BY <2>3, <2>5, LeaveTypes DEF OrderTypes
  <2> QED BY <2>2, <2>4, <2>5
<1>3. CASE SelectPickupPoint(t)
  <2>1. orders' \in [Numbers -> Order]
    BY <1>1, <1>3 DEF SelectPickupPoint, OrderTypes, Order, Picker
  <2> QED BY <1>3, <2>1, LeaveTypes DEF SelectPickupPoint, OrderTypes
<1> QED BY <1>2, <1>3

LEMMA ReadyForPaymentTypes ==
    ASSUME OrderTypes, NEW t \in Tabs, ReadyForPayment(t), UNCHANGED <<closing, session>>
    PROVE  OrderTypes'
<1>1. tab[t].o \in Numbers
  BY HandlerAt DEF ReadyForPayment, At, Awaiter
<1>2. orders' \in [Numbers -> Order]
  BY <1>1 DEF ReadyForPayment, OrderTypes, Order
<1>3. raced' \in BOOLEAN
  BY DEF ReadyForPayment, OrderTypes
<1> QED BY <1>2, <1>3, LeaveTypes DEF ReadyForPayment, OrderTypes

LEMMA MintTypes ==
    ASSUME OrderTypes, NEW t \in Tabs, Mint(t), UNCHANGED <<closing, session>>
    PROVE  OrderTypes'
<1> DEFINE o == tab[t].o
           total == tab[t].total
<1>1. tab[t] \in Payer /\ o \in Numbers /\ total \in Nat
  BY HandlerAt DEF Mint, At, Payer
<1>2. UNCHANGED <<orders, drifted, raced>>
  BY DEF Mint
<1>3. stripe' \in [Numbers -> Intent] /\ stale' \subseteq Numbers
  <2>1. stripe[o] \in Intent
    BY <1>1 DEF OrderTypes
  <2>2. [st |-> "open", amount |-> total] \in Intent /\ Resynced(o, total) \in Intent
    BY <1>1, <2>1 DEF Intent, Resynced
  <2>3. \/ \E p \in {[st |-> "open", amount |-> total], stripe[o], Resynced(o, total)} :
              stripe' = [stripe EXCEPT ![o] = p]
        \/ stripe' = stripe
    BY DEF Mint
  <2>4. stale' = stale \/ stale' = stale \ {o} \/ stale' = stale \cup {o}
    BY DEF Mint
  <2> QED BY <1>1, <2>1, <2>2, <2>3, <2>4 DEF OrderTypes
<1>4. Step(t, "attach") \/ Leave(t)
  BY DEF Mint
<1>5. CASE Step(t, "attach")
  <2> DEFINE h == [tab[t] EXCEPT !.pc = "attach"]
  <2>1. h \in Payer /\ h.pc = "attach" /\ tab' = [tab EXCEPT ![t] = h]
    BY <1>1, <1>5 DEF Payer, Step
  <2> HIDE DEF h
  <2> QED BY <1>2, <1>3, <2>1, TabTypes DEF OrderTypes, Handlers
<1>6. CASE Leave(t)
  BY <1>2, <1>3, <1>6, LeaveTypes DEF OrderTypes
<1> QED BY <1>4, <1>5, <1>6

LEMMA AttachIntentTypes ==
    ASSUME OrderTypes, NEW t \in Tabs, AttachIntent(t), UNCHANGED <<closing, session>>
    PROVE  OrderTypes'
<1>1. tab[t].o \in Numbers
  BY HandlerAt DEF AttachIntent, At, Payer
<1>2. orders' \in [Numbers -> Order]
  <2> DEFINE o == tab[t].o
             row == [orders[o] EXCEPT !.pi = TRUE]
  <2>1. orders[o] \in Order
    BY <1>1 DEF OrderTypes
  <2>2. row \in Order
    BY <2>1 DEF Order
  <2>3. orders' = [orders EXCEPT ![o] = row]
    BY DEF AttachIntent
  <2> HIDE DEF row, o
  <2> QED BY <2>2, <2>3 DEF OrderTypes
<1> QED BY <1>2, LeaveTypes DEF AttachIntent, OrderTypes

LEMMA OrderTypesStep == Limits /\ BasketTypes /\ OrderTypes /\ [Next]_vars => OrderTypes'
<1> SUFFICES ASSUME Limits, BasketTypes, OrderTypes, [Next]_vars PROVE OrderTypes'
  OBVIOUS
<1>1. CASE UNCHANGED <<orderVars, closing, session>>
  BY <1>1 DEF OrderTypes, orderVars
<1>2. ASSUME NEW t \in Tabs, Handler(t) PROVE OrderTypes'
  <2>1. UNCHANGED <<closing, session>>
    BY <1>2 DEF Handler
  <2> QED
    BY <1>2, <2>1, InitiateTypes, OpenTypes, CancelTypes, PlaceTypes, ResumeTypes, StartTypesOfHandlers,
       UpdateShippingTypes, PickupTypes, ReadyForPaymentTypes, MintTypes, AttachIntentTypes DEF Handler
<1>3. ASSUME NEW o \in Numbers, Pay(o) PROVE OrderTypes'
  BY <1>3 DEF Pay, OrderTypes, Intent
<1>4. ASSUME NEW o \in Numbers, Settle(o) PROVE OrderTypes'
  BY <1>4 DEF Settle, OrderTypes, Order
<1>5. CASE SpendCart \/ CompleteCart \/ DropReminder \/ CloseSession
  BY <1>5 DEF SpendCart, CompleteCart, DropReminder, CloseSession, OrderTypes, orderVars
<1> QED BY <1>1, <1>2, <1>3, <1>4, <1>5 DEF Next, vars

\* Every variable keeps its type (the rows of CartItem, Order and the
\* PaymentIntent, and what a handler carries from one write to the next).
THEOREM CheckoutTypes == ASSUME Limits PROVE Spec => []TypeOK
<1>1. Init => BasketTypes /\ OrderTypes
  BY InitBasketTypes, InitOrderTypes
<1>2. BasketTypes /\ OrderTypes /\ [Next]_vars => (BasketTypes /\ OrderTypes)'
  BY BasketTypesStep, OrderTypesStep
<1>3. BasketTypes /\ OrderTypes => TypeOK
  BY DEF BasketTypes, OrderTypes, TypeOK, BasketTypeOK, Lines, Order
<1> QED BY <1>1, <1>2, <1>3, PTL DEF Spec

-----------------------------------------------------------------------------
(* The figures of an order. *)

\* The steps of the module, sorted by what they do to the orders.
LEMMA OrderCases ==
    ASSUME [Next]_vars
    PROVE  \/ UNCHANGED orderVars
           \/ \E t \in Tabs :
                \/ Initiate(t) \/ Open(t) \/ Cancel(t) \/ Place(t) \/ Resume(t)
                \/ StartShipping(t) \/ UpdateShipping(t)
                \/ StartPickup(t) \/ ResolvePoint(t) \/ SelectPickupPoint(t)
                \/ StartReady(t) \/ ReadyForPayment(t)
                \/ StartIntent(t) \/ Mint(t) \/ AttachIntent(t)
           \/ \E o \in Numbers : Pay(o) \/ Settle(o)
BY DEF Next, vars, Handler, SpendCart, CompleteCart, DropReminder, CloseSession

Existed(o) == orders[o].st # "none"
\* An order is placed once: its lines are never written again.
RowStays(o) ==
    /\ orders'[o].lines = orders[o].lines
    /\ orders[o].pi => orders'[o].pi
    /\ orders'[o].st # "none"
Figures(row) == <<row.lines, row.sub, row.ship, row.total>>
FiguresStay ==
    \A o \in Numbers : /\ Figures(orders'[o]) = Figures(orders[o])
                       /\ Existed(o)' = Existed(o)
                       /\ orders[o].pi => orders'[o].pi

RowAddsUp(o) ==
    /\ orders[o].sub = Subtotal(orders[o].lines)
    /\ orders[o].total = orders[o].sub + orders[o].ship
    /\ Verified(orders[o].lines)
TabRight(t) ==
    /\ tab[t].pc \in {"cancel", "resume", "ship", "resolve", "point", "await", "mint", "attach"} =>
         Existed(tab[t].o)
    /\ tab[t].pc = "resume" => orders[tab[t].o].pi \/ Same(tab[t].seen, orders[tab[t].o].lines)
    /\ tab[t].pc = "ship" /\ tab[t].o \notin drifted =>
         tab[t].seen.sub = Subtotal(orders[tab[t].o].lines)

\* Strengthened by what a running handler knows of its order: a resumed order
\* has its payment started or still has the lines of the basket read, and a
\* shipping change adds the delivery to the subtotal of the lines.
LineInv ==
    /\ \A o \in Numbers : Existed(o) /\ o \notin drifted => RowAddsUp(o)
    /\ \A t \in Tabs : TabRight(t)

LEMMA InitLine == Init => LineInv
BY DEF Init, LineInv, Existed, Blank, TabRight, Idle

\* An order that a running handler holds has its number.
LEMMA HeldNumber ==
    ASSUME OrderTypes, NEW t \in Tabs,
           tab[t].pc \in {"cancel", "resume", "ship", "resolve", "point", "await", "mint", "attach"}
    PROVE  tab[t].o \in Numbers
BY HandlerAt DEF OrderTypes, Builder, Shipper, Picker, Awaiter, Payer, Building

LEMMA TabRightStays ==
    ASSUME OrderTypes, NEW t \in Tabs, TabRight(t), tab'[t] = tab[t], drifted \subseteq drifted',
           \A o \in Numbers : Existed(o) => RowStays(o)
    PROVE  TabRight(t)'
<1>1. CASE tab[t].pc \in {"cancel", "resume", "ship", "resolve", "point", "await", "mint", "attach"}
  <2>1. tab[t].o \in Numbers /\ Existed(tab[t].o) /\ RowStays(tab[t].o)
    BY <1>1, HeldNumber DEF TabRight
  <2> QED BY <2>1 DEF TabRight, RowStays, Existed
<1>2. CASE tab[t].pc \notin {"cancel", "resume", "ship", "resolve", "point", "await", "mint", "attach"}
  BY <1>2 DEF TabRight
<1> QED BY <1>1, <1>2

\* A step that leaves every figure, and gives the tab a handler that is right.
LEMMA LineQuiet ==
    ASSUME OrderTypes, LineInv, NEW t \in Tabs, FiguresStay, drifted' = drifted,
           \A x \in Tabs \ {t} : tab'[x] = tab[x], TabRight(t)'
    PROVE  LineInv'
<1>1. \A o \in Numbers : Existed(o) => RowStays(o)
  BY DEF FiguresStay, Figures, RowStays, Existed
<1>2. \A x \in Tabs \ {t} : TabRight(x)'
  BY <1>1, TabRightStays DEF LineInv
<1>3. \A o \in Numbers : Existed(o)' /\ o \notin drifted' => RowAddsUp(o)'
  BY DEF LineInv, FiguresStay, Figures, RowAddsUp
<1> QED BY <1>2, <1>3 DEF LineInv

\* A step that gives the tab a handler that holds no order.
LEMMA NoOrderRight ==
    ASSUME NEW t \in Tabs, tab'[t].pc \in {"idle", "open", "place"}
    PROVE  TabRight(t)'
BY DEF TabRight

LEMMA TabAfter ==
    ASSUME OrderTypes, NEW t \in Tabs, NEW h, tab' = [tab EXCEPT ![t] = h]
    PROVE  tab'[t] = h /\ \A x \in Tabs \ {t} : tab'[x] = tab[x]
BY DEF OrderTypes

LEMMA LeftTab ==
    ASSUME OrderTypes, NEW t \in Tabs, Leave(t)
    PROVE  tab'[t] = Idle /\ tab'[t].pc = "idle" /\ \A x \in Tabs \ {t} : tab'[x] = tab[x]
BY DEF OrderTypes, Leave, Idle

LEMMA SteppedTab ==
    ASSUME OrderTypes, NEW t \in Tabs, NEW pc, Step(t, pc)
    PROVE  /\ \A x \in Tabs \ {t} : tab'[x] = tab[x]
           /\ tab[t] \in Builder =>
                tab'[t].pc = pc /\ tab'[t].o = tab[t].o /\ tab'[t].seen = tab[t].seen
           /\ tab[t] \in Picker => tab'[t].pc = pc /\ tab'[t].o = tab[t].o
           /\ tab[t] \in Payer =>
                tab'[t].pc = pc /\ tab'[t].o = tab[t].o /\ tab'[t].pi = tab[t].pi /\ tab'[t].total = tab[t].total
<1>1. tab' = [tab EXCEPT ![t] = [tab[t] EXCEPT !.pc = pc]]
  BY DEF Step
<1>2. tab'[t] = [tab[t] EXCEPT !.pc = pc] /\ \A x \in Tabs \ {t} : tab'[x] = tab[x]
  BY <1>1, TabAfter
<1> QED BY <1>2 DEF Builder, Picker, Payer

LEMMA OpenLines ==
    ASSUME OrderTypes, LineInv, NEW t \in Tabs, Open(t)
    PROVE  LineInv'
<1>1. tab[t].pc = "open" /\ tab[t] \in Builder /\ FiguresStay /\ drifted' = drifted
  BY HandlerAt DEF Open, At, Building, FiguresStay, Existed
<1>2. CASE Step(t, "place")
  <2>1. tab'[t].pc = "place" /\ \A x \in Tabs \ {t} : tab'[x] = tab[x]
    BY <1>1, <1>2 DEF Step, OrderTypes, Builder
  <2> QED BY <1>1, <2>1, LineQuiet, NoOrderRight
<1>3. ASSUME NEW o \in Existing,
             tab' = [tab EXCEPT ![t].o = o, ![t].pc = IF Rebuilt(o, tab[t].seen) THEN "cancel" ELSE "resume"]
      PROVE  LineInv'
  <2> DEFINE h == [tab[t] EXCEPT !.o = o, !.pc = IF Rebuilt(o, tab[t].seen) THEN "cancel" ELSE "resume"]
  <2>1. o \in Numbers /\ Existed(o)
    BY DEF Existing, OpenOrders, IsOpen, Existed
  <2>2. tab' = [tab EXCEPT ![t] = h]
    BY <1>1, <1>3 DEF OrderTypes, Builder
  <2>3. h.o = o /\ h.seen = tab[t].seen /\ h.pc = IF Rebuilt(o, tab[t].seen) THEN "cancel" ELSE "resume"
    BY <1>1 DEF Builder
  <2> HIDE DEF h
  <2>4. tab'[t] = h /\ \A x \in Tabs \ {t} : tab'[x] = tab[x]
    BY <2>2, TabAfter
  <2>5. UNCHANGED orders
    BY DEF Open
  <2>6. TabRight(t)'
    BY <2>1, <2>3, <2>4, <2>5 DEF TabRight, Rebuilt, Existed
  <2> QED BY <1>1, <2>4, <2>6, LineQuiet
<1> QED BY <1>2, <1>3 DEF Open

LEMMA CancelLines ==
    ASSUME OrderTypes, LineInv, NEW t \in Tabs, Cancel(t)
    PROVE  LineInv'
<1>1. tab[t].pc = "cancel" /\ tab[t] \in Builder /\ tab[t].o \in Numbers /\ Existed(tab[t].o)
  BY HandlerAt DEF Cancel, At, Building, OrderTypes, LineInv, TabRight
<1>2. FiguresStay /\ drifted' = drifted
  BY <1>1 DEF Cancel, OrderTypes, Order, FiguresStay, Figures, Existed
<1>3. tab'[t].pc \in {"idle", "place"} /\ \A x \in Tabs \ {t} : tab'[x] = tab[x]
  <2>1. CASE Leave(t)
    BY <2>1, LeftTab
  <2>2. CASE Step(t, "place")
    BY <1>1, <2>2, SteppedTab
  <2> QED BY <2>1, <2>2 DEF Cancel
<1> QED BY <1>2, <1>3, LineQuiet, NoOrderRight

\* A handler that writes its order, if it does, elsewhere than in its figures,
\* and is done.
LEMMA LeaveLines ==
    ASSUME OrderTypes, LineInv, NEW t \in Tabs, FiguresStay, drifted' = drifted, Leave(t)
    PROVE  LineInv'
BY LeftTab, LineQuiet, NoOrderRight

LEMMA StartLines ==
    ASSUME OrderTypes, LineInv, NEW t \in Tabs,
           Initiate(t) \/ StartShipping(t) \/ StartPickup(t) \/ StartReady(t) \/ StartIntent(t)
    PROVE  LineInv'
<1>1. FiguresStay /\ drifted' = drifted /\ UNCHANGED orders
  BY DEF Initiate, StartShipping, StartPickup, StartReady, StartIntent, FiguresStay, Existed
<1>2. ASSUME NEW h, Call(t, h) PROVE tab'[t] = h /\ \A x \in Tabs \ {t} : tab'[x] = tab[x]
  BY <1>2, TabAfter DEF Call, Run
<1>3. CASE Initiate(t)
  <2>1. tab'[t].pc = "open" /\ \A x \in Tabs \ {t} : tab'[x] = tab[x]
    BY <1>2, <1>3 DEF Initiate
  <2> QED BY <1>1, <2>1, LineQuiet, NoOrderRight
<1>4. CASE StartShipping(t)
  <2>1. PICK o \in OpenOrders, m \in Methods :
           Call(t, [pc |-> "ship", o |-> o, method |-> m, seen |-> orders[o]])
    BY <1>4 DEF StartShipping
  <2>2. o \in Numbers /\ Existed(o)
    BY DEF OpenOrders, IsOpen, Existed
  <2>3. /\ tab'[t].pc = "ship" /\ tab'[t].o = o /\ tab'[t].seen = orders[o]
        /\ \A x \in Tabs \ {t} : tab'[x] = tab[x]
    BY <1>2, <2>1
  <2>4. TabRight(t)'
    BY <1>1, <2>2, <2>3 DEF TabRight, LineInv, RowAddsUp, Existed
  <2> QED BY <1>1, <2>3, <2>4, LineQuiet
<1>5. CASE StartPickup(t)
  <2>1. PICK o \in OpenOrders, p \in Countries : Call(t, [pc |-> "resolve", o |-> o, point |-> p])
    BY <1>5 DEF StartPickup
  <2>2. o \in Numbers /\ Existed(o)
    BY DEF OpenOrders, IsOpen, Existed
  <2>3. /\ tab'[t].pc = "resolve" /\ tab'[t].o = o
        /\ \A x \in Tabs \ {t} : tab'[x] = tab[x]
    BY <1>2, <2>1
  <2>4. TabRight(t)'
    BY <1>1, <2>2, <2>3 DEF TabRight, Existed
  <2> QED BY <1>1, <2>3, <2>4, LineQuiet
<1>6. CASE StartReady(t)
  <2>1. PICK o \in Numbers : orders[o].st = "draft" /\ Call(t, [pc |-> "await", o |-> o])
    BY <1>6 DEF StartReady
  <2>3. /\ tab'[t].pc = "await" /\ tab'[t].o = o
        /\ \A x \in Tabs \ {t} : tab'[x] = tab[x]
    BY <1>2, <2>1
  <2>4. TabRight(t)'
    BY <1>1, <2>1, <2>3 DEF TabRight, Existed
  <2> QED BY <1>1, <2>3, <2>4, LineQuiet
<1>7. CASE StartIntent(t)
  <2>1. PICK o \in Numbers :
           /\ orders[o].st = "awaiting_payment"
           /\ Call(t, [pc |-> "mint", o |-> o, pi |-> orders[o].pi, total |-> orders[o].total])
    BY <1>7 DEF StartIntent
  <2>3. /\ tab'[t].pc = "mint" /\ tab'[t].o = o
        /\ \A x \in Tabs \ {t} : tab'[x] = tab[x]
    BY <1>2, <2>1
  <2>4. TabRight(t)'
    BY <1>1, <2>1, <2>3 DEF TabRight, Existed
  <2> QED BY <1>1, <2>3, <2>4, LineQuiet
<1> QED BY <1>3, <1>4, <1>5, <1>6, <1>7

LEMMA GoOnLines ==
    ASSUME OrderTypes, LineInv, NEW t \in Tabs,
           ResolvePoint(t) \/ SelectPickupPoint(t) \/ ReadyForPayment(t) \/ Mint(t) \/ AttachIntent(t)
    PROVE  LineInv'
<1>1. /\ tab[t].pc \in {"resolve", "point", "await", "mint", "attach"}
      /\ tab[t].o \in Numbers /\ Existed(tab[t].o) /\ drifted' = drifted
  <2>1. tab[t].pc \in {"resolve", "point", "await", "mint", "attach"} /\ drifted' = drifted
    BY DEF ResolvePoint, SelectPickupPoint, ReadyForPayment, Mint, AttachIntent, At
  <2> QED BY <2>1, HeldNumber DEF LineInv, TabRight
<1>2. FiguresStay
  <2>1. CASE SelectPickupPoint(t)
    BY <1>1, <2>1 DEF SelectPickupPoint, OrderTypes, Order, FiguresStay, Figures, Existed
  <2>2. CASE ReadyForPayment(t)
    BY <1>1, <2>2 DEF ReadyForPayment, OrderTypes, Order, FiguresStay, Figures, Existed
  <2>3. CASE AttachIntent(t)
    BY <1>1, <2>3 DEF AttachIntent, OrderTypes, Order, FiguresStay, Figures, Existed
  <2>4. CASE ResolvePoint(t) \/ Mint(t)
    BY <2>4 DEF ResolvePoint, Mint, FiguresStay, Existed
  <2> QED BY <2>1, <2>2, <2>3, <2>4
<1>3. CASE Leave(t)
  BY <1>1, <1>2, <1>3, LeaveLines
<1>4. ASSUME NEW pc \in {"point", "attach"}, tab[t].pc # "await", Step(t, pc) PROVE LineInv'
  <2>1. tab[t] \in Picker \cup Payer
    BY <1>1, <1>4, HandlerAt
  <2>2. tab'[t].pc = pc /\ tab'[t].o = tab[t].o /\ \A x \in Tabs \ {t} : tab'[x] = tab[x]
    BY <1>4, <2>1, SteppedTab
  <2>4. TabRight(t)'
    BY <1>1, <1>2, <1>4, <2>2 DEF TabRight, Existed, FiguresStay
  <2> QED BY <1>1, <1>2, <2>2, <2>4, LineQuiet
<1>5. Leave(t) \/ \E pc \in {"point", "attach"} : tab[t].pc # "await" /\ Step(t, pc)
  BY DEF ResolvePoint, SelectPickupPoint, ReadyForPayment, Mint, AttachIntent, At
<1> QED BY <1>3, <1>4, <1>5

\* A step that writes the figures of one order and is done.
LEMMA LineWritten ==
    ASSUME OrderTypes, LineInv, NEW t \in Tabs, NEW o \in Numbers, NEW row,
           orders' = [orders EXCEPT ![o] = row], drifted \subseteq drifted', Leave(t),
           Existed(o) => /\ row.lines = orders[o].lines
                         /\ orders[o].pi => row.pi,
           row.st # "none",
           o \notin drifted' => /\ row.sub = Subtotal(row.lines)
                                /\ row.total = row.sub + row.ship
                                /\ Verified(row.lines)
    PROVE  LineInv'
<1>1. orders'[o] = row /\ \A p \in Numbers \ {o} : orders'[p] = orders[p]
  BY DEF OrderTypes
<1>2. \A p \in Numbers : Existed(p) => RowStays(p)
  BY <1>1 DEF RowStays, Existed
<1>3. \A x \in Tabs : TabRight(x)'
  BY <1>2, LeftTab, NoOrderRight, TabRightStays DEF LineInv
<1>4. \A p \in Numbers \ {o} : Existed(p)' /\ p \notin drifted' => RowAddsUp(p)'
  BY <1>1 DEF LineInv, Existed, RowAddsUp
<1>5. o \notin drifted' => RowAddsUp(o)'
  BY <1>1 DEF RowAddsUp
<1> QED BY <1>3, <1>4, <1>5 DEF LineInv

LEMMA PlaceLines ==
    ASSUME Limits, OrderTypes, LineInv, NEW t \in Tabs, Place(t)
    PROVE  LineInv'
<1>1. tab[t] \in Builder
  BY HandlerAt DEF Place, At, Building
<1> DEFINE ls == tab[t].seen
           new == [Blank EXCEPT !.st = "draft", !.lines = ls, !.sub = Subtotal(ls),
                                !.total = Subtotal(ls), !.country = tab[t].country]
<1>2. Leave(t) /\ UNCHANGED drifted
  BY DEF Place
<1>3. CASE UNCHANGED orders
  <2>1. FiguresStay
    BY <1>3 DEF FiguresStay, Existed
  <2> QED BY <1>2, <2>1, LeaveLines
<1>4. ASSUME NEW o \in Numbers, \A p \in Numbers : (p < o) = (orders[p].st # "none"),
             Placeable(ls), orders' = [orders EXCEPT ![o] = new]
      PROVE  LineInv'
  <2>1. ~ Existed(o)
    <3>1. ~ (o < o)
      BY DEF Numbers
    <3> QED BY <1>4, <3>1 DEF Existed
  <2>2. Subtotal(ls) \in Nat
    BY <1>1, SubtotalNat DEF Builder
  <2>3. /\ new.st = "draft" /\ new.lines = ls /\ new.sub = Subtotal(ls)
        /\ new.total = new.sub + new.ship /\ Verified(new.lines)
    BY <1>4, <2>2 DEF Blank, Placeable
  <2> HIDE DEF new, ls
  <2> QED BY <1>2, <1>4, <2>1, <2>3, LineWritten
<1> QED BY <1>3, <1>4 DEF Place

LEMMA ResumeLines ==
    ASSUME Limits, OrderTypes, LineInv, NEW t \in Tabs, Resume(t)
    PROVE  LineInv'
<1> DEFINE o == tab[t].o
           sub == Subtotal(tab[t].seen)
           row == [orders[o] EXCEPT !.sub = sub, !.total = sub, !.ship = 0, !.method = NoChoice,
                                    !.point = NoChoice, !.country = tab[t].country]
<1>1. tab[t].pc = "resume" /\ tab[t] \in Builder /\ o \in Numbers /\ Existed(o)
  BY HandlerAt DEF Resume, At, Building, OrderTypes, LineInv, TabRight
<1>2. orders[o] \in Order /\ orders[o].lines \in Lines /\ tab[t].seen \in Lines
  BY <1>1 DEF OrderTypes, Order, Builder
<1>3. orders' = [orders EXCEPT ![o] = row]
  BY <1>1, <1>2 DEF Resume, OrderTypes
<1>4. /\ Leave(t)
      /\ drifted' = IF orders[o].pi /\ ~ Same(tab[t].seen, orders[o].lines)
                    THEN drifted \cup {o} ELSE drifted
  BY DEF Resume
<1>5. row.lines = orders[o].lines /\ row.pi = orders[o].pi /\ row.st = orders[o].st
      /\ row.sub = sub /\ row.total = sub /\ row.ship = 0
  BY <1>2 DEF Order
<1>6. ASSUME o \notin drifted'
      PROVE  sub = Subtotal(orders[o].lines) /\ Verified(orders[o].lines)
  <2>1. o \notin drifted /\ Same(tab[t].seen, orders[o].lines)
    BY <1>1, <1>4, <1>6 DEF LineInv, TabRight
  <2>2. RowAddsUp(o)
    BY <1>1, <2>1 DEF LineInv
  <2> QED BY <1>2, <2>1, <2>2, SubtotalSame DEF RowAddsUp
<1>7. sub \in Nat
  BY <1>2, SubtotalNat
<1> HIDE DEF row, sub, o
<1>8. row.total = row.sub + row.ship
  BY <1>5, <1>7
<1>9. drifted \subseteq drifted' /\ row.st # "none"
  BY <1>1, <1>4, <1>5 DEF Existed
<1>10. o \notin drifted' => /\ row.sub = Subtotal(row.lines)
                            /\ row.total = row.sub + row.ship
                            /\ Verified(row.lines)
  BY <1>5, <1>6, <1>8
<1>11. row.lines = orders[o].lines /\ (orders[o].pi => row.pi)
  BY <1>5
<1> QED BY <1>1, <1>3, <1>4, <1>9, <1>10, <1>11, LineWritten

LEMMA UpdateShippingLines ==
    ASSUME Limits, OrderTypes, LineInv, NEW t \in Tabs, UpdateShipping(t)
    PROVE  LineInv'
<1> DEFINE o == tab[t].o
           price == Quote(tab[t].seen.sub)
           total == tab[t].seen.sub + price
<1>1. tab[t].pc = "ship" /\ tab[t] \in Shipper /\ o \in Numbers /\ Existed(o)
  BY HandlerAt DEF UpdateShipping, At, Shipper, LineInv, TabRight
<1>2. orders[o] \in Order
  BY <1>1 DEF OrderTypes
<1>3. PICK p : orders' = [orders EXCEPT ![o].method = tab[t].method, ![o].ship = price, ![o].total = total,
                                        ![o].point = p]
  BY DEF UpdateShipping
<1>4. Leave(t) /\ UNCHANGED drifted
  BY DEF UpdateShipping
<1> DEFINE row == [orders[o] EXCEPT !.method = tab[t].method, !.ship = price, !.total = total, !.point = p]
<1>5. orders' = [orders EXCEPT ![o] = row]
  BY <1>1, <1>2, <1>3 DEF OrderTypes
<1>6. /\ row.lines = orders[o].lines /\ row.pi = orders[o].pi /\ row.st = orders[o].st
      /\ row.sub = orders[o].sub /\ row.total = total /\ row.ship = price
  BY <1>2 DEF Order
<1>7. ASSUME o \notin drifted'
      PROVE  RowAddsUp(o) /\ tab[t].seen.sub = orders[o].sub
  <2>1. o \notin drifted
    BY <1>4, <1>7
  <2>2. RowAddsUp(o)
    BY <1>1, <2>1 DEF LineInv
  <2>3. tab[t].seen.sub = Subtotal(orders[o].lines)
    BY <1>1, <2>1 DEF LineInv, TabRight
  <2> QED BY <2>2, <2>3 DEF RowAddsUp
<1> HIDE DEF row
<1>8. row.st # "none"
  BY <1>1, <1>6 DEF Existed
<1>9. o \notin drifted' => /\ row.sub = Subtotal(row.lines)
                           /\ row.total = row.sub + row.ship
                           /\ Verified(row.lines)
  BY <1>6, <1>7 DEF RowAddsUp
<1>10. row.lines = orders[o].lines /\ (orders[o].pi => row.pi)
  BY <1>6
<1> HIDE DEF o
<1> QED BY <1>1, <1>4, <1>5, <1>8, <1>9, <1>10, LineWritten

LEMMA LineStep == Limits /\ OrderTypes /\ LineInv /\ [Next]_vars => LineInv'
<1> SUFFICES ASSUME Limits, OrderTypes, LineInv, [Next]_vars PROVE LineInv'
  OBVIOUS
<1>1. CASE UNCHANGED orderVars
  BY <1>1 DEF orderVars, LineInv, Existed, RowAddsUp, TabRight
<1>2. ASSUME NEW o \in Numbers, Pay(o) PROVE LineInv'
  BY <1>2 DEF Pay, LineInv, Existed, RowAddsUp, TabRight
<1>3. ASSUME NEW o \in Numbers, Settle(o) PROVE LineInv'
  <2>1. UNCHANGED <<tab, drifted>>
    BY <1>3 DEF Settle
  <2>2. \A p \in Numbers : Existed(p) => RowStays(p)
    BY <1>3 DEF Settle, OrderTypes, Order, RowStays, Existed
  <2>3. FiguresStay
    BY <1>3 DEF Settle, IsOpen, OrderTypes, Order, FiguresStay, Figures, Existed
  <2>4. \A t \in Tabs : TabRight(t)'
    BY <2>1, <2>2, TabRightStays DEF LineInv
  <2>5. \A p \in Numbers : Existed(p)' /\ p \notin drifted' => RowAddsUp(p)'
    BY <2>1, <2>3 DEF LineInv, FiguresStay, Figures, RowAddsUp
  <2> QED BY <2>4, <2>5 DEF LineInv
<1> QED
  BY <1>1, <1>2, <1>3, OrderCases, OpenLines, CancelLines, StartLines, GoOnLines, PlaceLines,
     ResumeLines, UpdateShippingLines

\* Whatever edits and tabs overlap, an order charges for the lines it holds
\* (CheckoutService.initiate, updateShipping, verifyCartItemPrices).
THEOREM OrdersAddUp == ASSUME Limits PROVE Spec => []LinesAddUp
<1>1. Init => BasketTypes /\ OrderTypes /\ LineInv
  BY InitBasketTypes, InitOrderTypes, InitLine
<1>2. BasketTypes /\ OrderTypes /\ LineInv /\ [Next]_vars => (BasketTypes /\ OrderTypes /\ LineInv)'
  BY BasketTypesStep, OrderTypesStep, LineStep
<1>3. BasketTypes /\ OrderTypes /\ LineInv => LinesAddUp
  BY DEF LineInv, RowAddsUp, Existed, LinesAddUp
<1> QED BY <1>1, <1>2, <1>3, PTL DEF Spec

-----------------------------------------------------------------------------
(* The amount of the payment form. *)

AmountRight(o) ==
    /\ stripe[o].st # "none" => Existed(o) /\ (o \notin stale => stripe[o].amount = orders[o].total)
    /\ orders[o].st = "paid" => stripe[o].st = "paid"
AmountInv == \A o \in Numbers : AmountRight(o)

LEMMA InitAmount == Init => AmountInv
BY DEF Init, Blank, AmountInv, AmountRight

\* A step that leaves the totals, the intents and what is stale.
LEMMA AmountQuiet ==
    ASSUME AmountInv, UNCHANGED <<stripe, stale>>,
           \A o \in Numbers : /\ orders'[o].total = orders[o].total
                              /\ Existed(o) => Existed(o)'
                              /\ orders'[o].st = "paid" => orders[o].st = "paid"
    PROVE  AmountInv'
BY DEF AmountInv, AmountRight

\* A step that writes one order beside an intent priced, or marked stale.
LEMMA AmountWritten ==
    ASSUME OrderTypes, AmountInv, NEW o \in Numbers, NEW row,
           orders' = [orders EXCEPT ![o] = row], UNCHANGED stripe, Priced(o, row.total),
           row.st # "none", row.st = "paid" => orders[o].st = "paid"
    PROVE  AmountInv'
<1>1. orders'[o] = row /\ \A p \in Numbers \ {o} : orders'[p] = orders[p]
  BY DEF OrderTypes
<1>2. ASSUME NEW p \in Numbers \ {o} PROVE AmountRight(p)'
  BY <1>1, <1>2 DEF AmountInv, AmountRight, Priced, Existed
<1>3. AmountRight(o)'
  BY <1>1 DEF AmountInv, AmountRight, Priced, Shown, Existed
<1> QED BY <1>2, <1>3 DEF AmountInv

LEMMA PlaceAmount ==
    ASSUME OrderTypes, AmountInv, NEW t \in Tabs, Place(t)
    PROVE  AmountInv'
<1> DEFINE ls == tab[t].seen
           new == [Blank EXCEPT !.st = "draft", !.lines = ls, !.sub = Subtotal(ls),
                                !.total = Subtotal(ls), !.country = tab[t].country]
<1>1. CASE UNCHANGED orders
  BY <1>1, AmountQuiet DEF Place, Existed
<1>2. ASSUME NEW o \in Numbers, \A p \in Numbers : (p < o) = (orders[p].st # "none"),
             orders' = [orders EXCEPT ![o] = new]
      PROVE  AmountInv'
  <2>1. orders[o].st = "none"
    <3>1. ~ (o < o)
      BY DEF Numbers
    <3> QED BY <1>2, <3>1
  <2>2. new.st = "draft"
    BY DEF Blank
  <2>3. UNCHANGED <<stripe, stale>>
    BY DEF Place
  <2> HIDE DEF new, ls
  <2>4. orders'[o] = new /\ \A p \in Numbers \ {o} : orders'[p] = orders[p]
    BY <1>2 DEF OrderTypes
  <2> QED BY <2>1, <2>2, <2>3, <2>4 DEF AmountInv, AmountRight, Existed
<1> QED BY <1>1, <1>2 DEF Place

LEMMA ResumeAmount ==
    ASSUME OrderTypes, LineInv, AmountInv, NEW t \in Tabs, Resume(t)
    PROVE  AmountInv'
<1> DEFINE o == tab[t].o
           sub == Subtotal(tab[t].seen)
           row == [orders[o] EXCEPT !.sub = sub, !.total = sub, !.ship = 0, !.method = NoChoice,
                                    !.point = NoChoice, !.country = tab[t].country]
<1>1. o \in Numbers /\ Existed(o)
  BY HeldNumber DEF Resume, At, LineInv, TabRight
<1>2. orders[o] \in Order
  BY <1>1 DEF OrderTypes
<1>3. orders' = [orders EXCEPT ![o] = row] /\ UNCHANGED stripe
  BY <1>1, <1>2 DEF Resume, OrderTypes
<1>4. row.st = orders[o].st /\ row.total = sub
  BY <1>2 DEF Order
<1>5. Priced(o, sub)
  BY DEF Resume
<1> HIDE DEF row, o, sub
<1> QED BY <1>1, <1>3, <1>4, <1>5, AmountWritten DEF Existed

LEMMA UpdateShippingAmount ==
    ASSUME OrderTypes, LineInv, AmountInv, NEW t \in Tabs, UpdateShipping(t)
    PROVE  AmountInv'
<1> DEFINE o == tab[t].o
           price == Quote(tab[t].seen.sub)
           total == tab[t].seen.sub + price
<1>1. o \in Numbers /\ Existed(o)
  BY HeldNumber DEF UpdateShipping, At, LineInv, TabRight
<1>2. orders[o] \in Order
  BY <1>1 DEF OrderTypes
<1>3. PICK p : orders' = [orders EXCEPT ![o].method = tab[t].method, ![o].ship = price, ![o].total = total,
                                        ![o].point = p]
  BY DEF UpdateShipping
<1>4. Priced(o, total) /\ UNCHANGED stripe
  BY DEF UpdateShipping
<1> DEFINE row == [orders[o] EXCEPT !.method = tab[t].method, !.ship = price, !.total = total, !.point = p]
<1>5. orders' = [orders EXCEPT ![o] = row]
  BY <1>1, <1>2, <1>3 DEF OrderTypes
<1>6. row.st = orders[o].st /\ row.total = total
  BY <1>2 DEF Order
<1> HIDE DEF row, o, total
<1> QED BY <1>1, <1>4, <1>5, <1>6, AmountWritten DEF Existed

\* A step that prices one intent at what the form shows.
LEMMA AmountPriced ==
    ASSUME OrderTypes, AmountInv, NEW o \in Numbers, Existed(o), NEW row, UNCHANGED orders,
           stripe' = [stripe EXCEPT ![o] = row], stripe[o].st = "paid" => row.st = "paid",
           stale' = IF row.amount = orders[o].total THEN stale \ {o} ELSE stale \cup {o}
    PROVE  AmountInv'
<1>1. stripe'[o] = row /\ \A p \in Numbers \ {o} : stripe'[p] = stripe[p]
  BY DEF OrderTypes
<1>2. AmountRight(o)'
  BY <1>1 DEF AmountInv, AmountRight, Existed
<1>3. \A p \in Numbers \ {o} : AmountRight(p)'
  BY <1>1 DEF AmountInv, AmountRight, Existed
<1> QED BY <1>2, <1>3 DEF AmountInv

LEMMA MintAmount ==
    ASSUME OrderTypes, LineInv, AmountInv, NEW t \in Tabs, Mint(t)
    PROVE  AmountInv'
<1> DEFINE o == tab[t].o
           total == tab[t].total
<1>1. o \in Numbers /\ Existed(o) /\ UNCHANGED orders
  BY HeldNumber DEF Mint, At, LineInv, TabRight
<1>2. CASE UNCHANGED <<stripe, stale>>
  BY <1>1, <1>2, AmountQuiet DEF Existed
<1>3. ASSUME NEW row, stripe' = [stripe EXCEPT ![o] = row], row.amount = total,
             stripe[o].st = "paid" => row.st = "paid",
             stale' = IF total = orders[o].total THEN stale \ {o} ELSE stale \cup {o}
      PROVE  AmountInv'
  <2> HIDE DEF o, total
  <2> QED BY <1>1, <1>3, AmountPriced
<1>4. stripe[o] \in Intent
  BY <1>1 DEF OrderTypes
<1>5. \/ UNCHANGED <<stripe, stale>>
      \/ /\ \E row \in {[st |-> "open", amount |-> total], stripe[o], Resynced(o, total)} :
              /\ stripe' = [stripe EXCEPT ![o] = row]
              /\ row.amount = total
              /\ stripe[o].st = "paid" => row.st = "paid"
         /\ stale' = IF total = orders[o].total THEN stale \ {o} ELSE stale \cup {o}
  <2>1. Resynced(o, total).amount = total /\ Resynced(o, total).st = stripe[o].st
    BY <1>4 DEF Resynced, Intent
  <2>2. CASE /\ stripe[o].st = "none" \/ stripe[o].amount = total
             /\ stripe' = [stripe EXCEPT ![o] = IF stripe[o].st = "none" THEN [st |-> "open", amount |-> total]
                                                ELSE stripe[o]]
             /\ stale' = IF total = orders[o].total THEN stale \ {o} ELSE stale \cup {o}
    <3>1. CASE stripe[o].st = "none"
      BY <2>2, <3>1
    <3>2. CASE stripe[o].st # "none"
      BY <2>2, <3>2
    <3> QED BY <3>1, <3>2
  <2> QED BY <2>1, <2>2 DEF Mint
<1> QED BY <1>2, <1>3, <1>5

LEMMA AmountStep == OrderTypes /\ LineInv /\ AmountInv /\ [Next]_vars => AmountInv'
<1> SUFFICES ASSUME OrderTypes, LineInv, AmountInv, [Next]_vars PROVE AmountInv'
  OBVIOUS
<1>1. CASE UNCHANGED <<orders, stripe, stale>>
  BY <1>1 DEF AmountInv, AmountRight, Existed
<1>2. ASSUME NEW t \in Tabs, Cancel(t) \/ SelectPickupPoint(t) \/ ReadyForPayment(t) \/ AttachIntent(t)
      PROVE  AmountInv'
  <2>1. tab[t].o \in Numbers
    BY <1>2, HeldNumber DEF Cancel, SelectPickupPoint, ReadyForPayment, AttachIntent, At
  <2>2. \A o \in Numbers : /\ orders'[o].total = orders[o].total
                           /\ Existed(o) => Existed(o)'
                           /\ orders'[o].st = "paid" => orders[o].st = "paid"
    BY <1>2, <2>1 DEF Cancel, SelectPickupPoint, ReadyForPayment, AttachIntent, OrderTypes, Order, Existed
  <2> QED BY <1>2, <2>2, AmountQuiet DEF Cancel, SelectPickupPoint, ReadyForPayment, AttachIntent
<1>3. ASSUME NEW o \in Numbers, Pay(o) PROVE AmountInv'
  BY <1>3 DEF Pay, OrderTypes, Intent, AmountInv, AmountRight, Existed
<1>4. ASSUME NEW o \in Numbers, Settle(o) PROVE AmountInv'
  BY <1>4 DEF Settle, IsOpen, OrderTypes, Order, AmountInv, AmountRight, Existed
<1>5. UNCHANGED orderVars => UNCHANGED <<orders, stripe, stale>>
  BY DEF orderVars
<1>6. ASSUME NEW t \in Tabs,
             Initiate(t) \/ Open(t) \/ StartShipping(t) \/ StartPickup(t) \/ ResolvePoint(t) \/ StartReady(t)
               \/ StartIntent(t)
      PROVE  UNCHANGED <<orders, stripe, stale>>
  BY <1>6 DEF Initiate, Open, StartShipping, StartPickup, ResolvePoint, StartReady, StartIntent
<1> QED
  BY <1>1, <1>2, <1>3, <1>4, <1>5, <1>6, OrderCases, PlaceAmount, ResumeAmount, UpdateShippingAmount,
     MintAmount

\* A customer is charged the total of the order, unless it moved after the
\* form was last priced (ShopPaymentService.mintOrReuseIntent).
THEOREM ChargesAsShown == ASSUME Limits PROVE Spec => []ChargedAsShown
<1>1. Init => BasketTypes /\ OrderTypes /\ LineInv /\ AmountInv
  BY InitBasketTypes, InitOrderTypes, InitLine, InitAmount
<1>2. BasketTypes /\ OrderTypes /\ LineInv /\ AmountInv /\ [Next]_vars
        => (BasketTypes /\ OrderTypes /\ LineInv /\ AmountInv)'
  BY BasketTypesStep, OrderTypesStep, LineStep, AmountStep
<1>3. BasketTypes /\ OrderTypes /\ LineInv /\ AmountInv => ChargedAsShown
  BY DEF AmountInv, AmountRight, ChargedAsShown
<1> QED BY <1>1, <1>2, <1>3, PTL DEF Spec

-----------------------------------------------------------------------------
(* One open order. *)

\* At most one request builds an order, and from the moment it found none open,
\* or closed the one there was, none is.
OpenInv ==
    /\ \A x, y \in Tabs : tab[x].pc \in Building /\ tab[y].pc \in Building => x = y
    /\ \A o, p \in OpenOrders : o = p
    /\ \A t \in Tabs : tab[t].pc = "place" => OpenOrders = {}

LEMMA InitOpen == Init => OpenInv
BY DEF Init, OpenInv, Blank, Idle, Building, OpenOrders, IsOpen

\* A step of a handler that opens no order, and leads no tab to build one.
LEMMA OpenQuiet ==
    ASSUME OpenInv, OpenOrders' \subseteq OpenOrders,
           \A x \in Tabs : /\ tab'[x].pc \in Building => tab[x].pc \in Building
                           /\ tab'[x].pc = "place" => tab[x].pc = "place" \/ OpenOrders' = {}
    PROVE  OpenInv'
BY DEF OpenInv

LEMMA LeaveOpen ==
    ASSUME OrderTypes, OpenInv, NEW t \in Tabs, OpenOrders' \subseteq OpenOrders, Leave(t)
    PROVE  OpenInv'
BY LeftTab, OpenQuiet DEF Building

LEMMA SameOpen ==
    ASSUME \A o \in Numbers : orders'[o].st = orders[o].st
    PROVE  OpenOrders' = OpenOrders
BY DEF OpenOrders, IsOpen

LEMMA InitiateOpen ==
    ASSUME OrderTypes, OpenInv, NEW t \in Tabs, Initiate(t), ~ raced'
    PROVE  OpenInv'
<1>1. PICK c \in Countries : tab' = [tab EXCEPT ![t] = [pc |-> "open", seen |-> lines, country |-> c, o |-> 0]]
  BY DEF Initiate, Call, Run
<1> DEFINE h == [pc |-> "open", seen |-> lines, country |-> c, o |-> 0]
<1>2. tab'[t].pc = "open" /\ \A x \in Tabs \ {t} : tab'[x] = tab[x]
  <2>1. tab' = [tab EXCEPT ![t] = h] /\ h.pc = "open"
    BY <1>1
  <2> HIDE DEF h
  <2> QED BY <2>1, TabAfter
<1>3. \A x \in Tabs : tab[x].pc \notin Building
  BY DEF Initiate
<1>4. OpenOrders' = OpenOrders
  BY SameOpen DEF Initiate
<1> QED BY <1>2, <1>3, <1>4 DEF OpenInv

LEMMA OpenOpen ==
    ASSUME OrderTypes, OpenInv, NEW t \in Tabs, Open(t)
    PROVE  OpenInv'
<1>1. tab[t].pc = "open" /\ tab[t] \in Builder
  BY HandlerAt DEF Open, At, Building
<1>2. OpenOrders' = OpenOrders
  BY SameOpen DEF Open
<1>3. CASE Existing = {} /\ Step(t, "place")
  <2>1. \A x \in Tabs \ {t} : tab'[x] = tab[x]
    BY <1>3, SteppedTab
  <2> QED BY <1>1, <1>2, <1>3, <2>1, OpenQuiet DEF Existing, Building
<1>4. ASSUME NEW o \in Existing,
             tab' = [tab EXCEPT ![t].o = o, ![t].pc = IF Rebuilt(o, tab[t].seen) THEN "cancel" ELSE "resume"]
      PROVE  OpenInv'
  <2> DEFINE h == [tab[t] EXCEPT !.o = o, !.pc = IF Rebuilt(o, tab[t].seen) THEN "cancel" ELSE "resume"]
  <2>1. tab' = [tab EXCEPT ![t] = h] /\ h.pc # "place"
    BY <1>1, <1>4 DEF OrderTypes, Builder
  <2> HIDE DEF h
  <2>2. tab'[t] = h /\ \A x \in Tabs \ {t} : tab'[x] = tab[x]
    BY <2>1, TabAfter
  <2> QED BY <1>1, <1>2, <2>1, <2>2, OpenQuiet DEF Building
<1> QED BY <1>3, <1>4 DEF Open

LEMMA CancelOpen ==
    ASSUME OrderTypes, OpenInv, NEW t \in Tabs, Cancel(t)
    PROVE  OpenInv'
<1> DEFINE o == tab[t].o
<1>1. tab[t].pc = "cancel" /\ tab[t] \in Builder /\ o \in Numbers
  BY HandlerAt, HeldNumber DEF Cancel, At, Building
<1>2. CASE IsOpen(o)
  <2>1. orders' = [orders EXCEPT ![o].st = "cancelled"] /\ Step(t, "place")
    BY <1>2 DEF Cancel
  <2>2. OpenOrders' = OpenOrders \ {o}
    BY <1>1, <2>1 DEF OpenOrders, IsOpen, OrderTypes, Order
  <2>3. o \in OpenOrders
    BY <1>1, <1>2 DEF OpenOrders
  <2>4. OpenOrders' = {}
    BY <2>2, <2>3 DEF OpenInv
  <2>5. tab'[t].pc = "place" /\ \A x \in Tabs \ {t} : tab'[x] = tab[x]
    BY <1>1, <2>1, SteppedTab
  <2> HIDE DEF o
  <2> QED BY <1>1, <2>4, <2>5, OpenQuiet DEF Building
<1>3. CASE ~ IsOpen(o)
  <2>1. UNCHANGED orders /\ Leave(t)
    BY <1>3 DEF Cancel
  <2> QED BY <2>1, SameOpen, LeaveOpen
<1> QED BY <1>2, <1>3

LEMMA PlaceOpen ==
    ASSUME OrderTypes, OpenInv, NEW t \in Tabs, Place(t)
    PROVE  OpenInv'
<1>1. tab[t].pc = "place" /\ OpenOrders = {}
  BY DEF Place, At, OpenInv
<1>2. tab'[t].pc = "idle" /\ \A x \in Tabs \ {t} : tab'[x] = tab[x]
  BY LeftTab DEF Place
<1>3. \A x \in Tabs : tab'[x].pc \notin Building
  BY <1>1, <1>2 DEF OpenInv, Building
<1>4. orders' = orders \/ \E o \in Numbers : \E row : orders' = [orders EXCEPT ![o] = row]
  BY DEF Place
<1>5. \A o, p \in OpenOrders' : o = p
  <2>1. CASE orders' = orders
    BY <1>1, <2>1, SameOpen
  <2>2. ASSUME NEW o \in Numbers, NEW row, orders' = [orders EXCEPT ![o] = row]
        PROVE  \A p \in OpenOrders' : p = o
    <3>1. \A p \in Numbers \ {o} : orders'[p] = orders[p]
      BY <2>2 DEF OrderTypes
    <3> QED BY <1>1, <3>1 DEF OpenOrders, IsOpen
  <2> QED BY <1>4, <2>1, <2>2
<1> QED BY <1>3, <1>5 DEF OpenInv, Building

\* A handler that only writes other fields of its order, and is done.
LEMMA OtherOpen ==
    ASSUME OrderTypes, OpenInv, NEW t \in Tabs,
           Resume(t) \/ UpdateShipping(t) \/ SelectPickupPoint(t) \/ AttachIntent(t)
    PROVE  OpenInv'
<1>1. tab[t].o \in Numbers /\ Leave(t)
  BY HeldNumber DEF Resume, UpdateShipping, SelectPickupPoint, AttachIntent, At
<1>2. \A o \in Numbers : orders'[o].st = orders[o].st
  <2>1. CASE Resume(t)
    <3> DEFINE o == tab[t].o
               sub == Subtotal(tab[t].seen)
               row == [orders[o] EXCEPT !.sub = sub, !.total = sub, !.ship = 0, !.method = NoChoice,
                                        !.point = NoChoice, !.country = tab[t].country]
    <3>1. orders[o] \in Order
      BY <1>1 DEF OrderTypes
    <3>2. orders' = [orders EXCEPT ![o] = row] /\ row.st = orders[o].st
      BY <1>1, <2>1, <3>1 DEF Resume, OrderTypes, Order
    <3> HIDE DEF row
    <3> QED BY <1>1, <3>2 DEF OrderTypes
  <2>2. CASE UpdateShipping(t)
    BY <1>1, <2>2 DEF UpdateShipping, OrderTypes, Order
  <2>3. CASE SelectPickupPoint(t) \/ AttachIntent(t)
    BY <1>1, <2>3 DEF SelectPickupPoint, AttachIntent, OrderTypes, Order
  <2> QED BY <2>1, <2>2, <2>3
<1> QED BY <1>1, <1>2, SameOpen, LeaveOpen

LEMMA ReadyForPaymentOpen ==
    ASSUME OrderTypes, OpenInv, NEW t \in Tabs, ReadyForPayment(t), ~ raced'
    PROVE  OpenInv'
<1>1. tab[t].o \in Numbers /\ Leave(t) /\ orders[tab[t].o].st = "draft"
  BY HeldNumber DEF ReadyForPayment, At
<1>2. OpenOrders' \subseteq OpenOrders
  BY <1>1 DEF ReadyForPayment, OpenOrders, IsOpen, OrderTypes, Order
<1> QED BY <1>1, <1>2, LeaveOpen

\* A handler that writes no order, and builds none.
LEMMA AsideOpen ==
    ASSUME OrderTypes, OpenInv, NEW t \in Tabs,
           \/ StartShipping(t) \/ StartPickup(t) \/ StartReady(t) \/ StartIntent(t)
           \/ ResolvePoint(t) \/ Mint(t)
    PROVE  OpenInv'
<1>1. OpenOrders' = OpenOrders
  BY SameOpen DEF StartShipping, StartPickup, StartReady, StartIntent, ResolvePoint, Mint
<1>2. ASSUME NEW h, Call(t, h), h.pc \in {"ship", "resolve", "await", "mint"} PROVE OpenInv'
  <2>1. tab'[t] = h /\ \A x \in Tabs \ {t} : tab'[x] = tab[x]
    BY <1>2, TabAfter DEF Call, Run
  <2> QED BY <1>1, <1>2, <2>1, OpenQuiet DEF Building
<1>3. CASE StartShipping(t) \/ StartPickup(t) \/ StartReady(t) \/ StartIntent(t)
  BY <1>2, <1>3 DEF StartShipping, StartPickup, StartReady, StartIntent
<1>4. CASE Leave(t)
  BY <1>1, <1>4, LeaveOpen
<1>5. CASE (ResolvePoint(t) /\ Step(t, "point")) \/ (Mint(t) /\ Step(t, "attach"))
  <2>1. tab[t] \in Picker \cup Payer
    BY <1>5, HandlerAt DEF ResolvePoint, Mint, At
  <2>2. tab'[t].pc \in {"point", "attach"} /\ \A x \in Tabs \ {t} : tab'[x] = tab[x]
    BY <1>5, <2>1, SteppedTab
  <2> QED BY <1>1, <2>2, OpenQuiet DEF Building
<1> QED BY <1>3, <1>4, <1>5 DEF ResolvePoint, Mint

LEMMA OpenStep == OrderTypes /\ (~ raced => OpenInv) /\ [Next]_vars => (~ raced => OpenInv)'
<1> SUFFICES ASSUME OrderTypes, ~ raced => OpenInv, [Next]_vars, ~ raced' PROVE OpenInv'
  OBVIOUS
<1>1. OpenInv
  <2>1. \A t \in Tabs : Initiate(t) \/ ReadyForPayment(t) => (raced => raced')
    BY DEF Initiate, ReadyForPayment, OrderTypes
  <2> QED BY <2>1, OrderCases DEF orderVars, Open, Cancel, Place, Resume, StartShipping, UpdateShipping,
             StartPickup, ResolvePoint, SelectPickupPoint, StartReady, StartIntent, Mint, AttachIntent,
             Pay, Settle
<1>2. CASE UNCHANGED orderVars
  BY <1>1, <1>2 DEF orderVars, OpenInv, OpenOrders, IsOpen
<1>3. ASSUME NEW o \in Numbers, Pay(o) PROVE OpenInv'
  BY <1>1, <1>3 DEF Pay, OpenInv, OpenOrders, IsOpen
<1>4. ASSUME NEW o \in Numbers, Settle(o) PROVE OpenInv'
  <2>1. UNCHANGED tab /\ OpenOrders' \subseteq OpenOrders
    BY <1>4 DEF Settle, OrderTypes, Order, OpenOrders, IsOpen
  <2> QED BY <1>1, <2>1, OpenQuiet
<1> QED
  BY <1>1, <1>2, <1>3, <1>4, OrderCases, InitiateOpen, OpenOpen, CancelOpen, PlaceOpen, OtherOpen,
     ReadyForPaymentOpen, AsideOpen

\* A refreshed or repeated checkout resumes its order: one order of a cart is
\* open at a time (CheckoutService.initiate).
THEOREM OneOrderOpen == ASSUME Limits PROVE Spec => []OneOpenOrder
<1>1. Init => BasketTypes /\ OrderTypes /\ (~ raced => OpenInv)
  BY InitBasketTypes, InitOrderTypes, InitOpen
<1>2. BasketTypes /\ OrderTypes /\ (~ raced => OpenInv) /\ [Next]_vars
        => (BasketTypes /\ OrderTypes /\ (~ raced => OpenInv))'
  BY BasketTypesStep, OrderTypesStep, OpenStep
<1>3. (~ raced => OpenInv) => OneOpenOrder
  <2> SUFFICES ASSUME OpenInv PROVE Cardinality(OpenOrders) <= 1
    BY DEF OneOpenOrder
  <2>1. CASE OpenOrders = {}
    BY <2>1, FS_EmptySet
  <2>2. ASSUME NEW o \in OpenOrders PROVE Cardinality(OpenOrders) <= 1
    <3>1. OpenOrders = {o}
      BY <2>2 DEF OpenInv
    <3> QED BY <3>1, FS_Singleton
  <2> QED BY <2>1, <2>2
<1> QED BY <1>1, <1>2, <1>3, PTL DEF Spec

-----------------------------------------------------------------------------
(* The basket at rest. *)

LEMMA UnitsNat ==
    ASSUME Limits, NEW ls \in Lines, NEW S \in SUBSET Keys
    PROVE  Units(ls, S) \in Nat
<1> DEFINE F == [k \in S |-> ls[k].qty]
<1>1. IsFiniteSet(S)
  BY KeysFinite, FS_Subset
<1>2. \A k \in S : F[k] \in Nat
  BY DEF Lines, Line
<1>3. Units(ls, S) = SumOver(F, S)
  BY <1>1, UnitsIs
<1> HIDE DEF F
<1> QED BY <1>1, <1>2, <1>3, SumOverNat

LEMMA UnitsSame ==
    ASSUME Limits, NEW ls, NEW ms, NEW S \in SUBSET Keys, \A k \in S : ls[k].qty = ms[k].qty
    PROVE  Units(ls, S) = Units(ms, S)
<1> DEFINE F(xs) == [k \in S |-> xs[k].qty]
<1>1. IsFiniteSet(S)
  BY KeysFinite, FS_Subset
<1>2. F(ls) = F(ms)
  OBVIOUS
<1>3. Units(ls, S) = SumOver(F(ls), S) /\ Units(ms, S) = SumOver(F(ms), S)
  BY <1>1, UnitsIs
<1> HIDE DEF F
<1> QED BY <1>2, <1>3

\* The units of the lines, when one line has changed.
LEMMA UnitsChange ==
    ASSUME Limits, NEW ls \in Lines, NEW ms \in Lines, NEW S \in SUBSET Keys, NEW k \in S,
           \A x \in S \ {k} : ls[x].qty = ms[x].qty
    PROVE  Units(ms, S) = Units(ls, S) - ls[k].qty + ms[k].qty
<1> DEFINE F(xs) == [x \in S |-> xs[x].qty]
           rest(xs) == SumOver(F(xs), S \ {k})
<1>1. IsFiniteSet(S) /\ IsFiniteSet(S \ {k})
  BY KeysFinite, FS_Subset
<1>2. (\A x \in S : F(ls)[x] \in Nat) /\ (\A x \in S : F(ms)[x] \in Nat)
  BY DEF Lines, Line
<1>3. Units(ls, S) = SumOver(F(ls), S) /\ Units(ms, S) = SumOver(F(ms), S)
  BY <1>1, UnitsIs
<1>4. \A x \in S \ {k} : F(ls)[x] = F(ms)[x]
  OBVIOUS
<1>5. F(ls)[k] = ls[k].qty /\ F(ms)[k] = ms[k].qty
  OBVIOUS
<1> HIDE DEF F
<1>6. SumOver(F(ls), S) = ls[k].qty + rest(ls)
  BY <1>1, <1>2, <1>5, SumOverRemove
<1>7. SumOver(F(ms), S) = ms[k].qty + rest(ms)
  BY <1>1, <1>2, <1>5, SumOverRemove
<1>8. rest(ls) = rest(ms)
  BY <1>1, <1>4, SumOverSame
<1>9. rest(ls) \in Nat
  BY <1>1, <1>2, SumOverNat
<1>10. ls[k].qty \in Nat /\ ms[k].qty \in Nat
  BY DEF Lines, Line
<1> HIDE DEF rest
<1> QED BY <1>3, <1>6, <1>7, <1>8, <1>9, <1>10

\* A sum over indices, moved by one.
LEMMA SumOverShift ==
    ASSUME NEW n \in Nat, NEW f, NEW e, \A i \in 1 .. n : f[i] = e[i + 1] /\ f[i] \in Nat
    PROVE  SumOver(f, 1 .. n) = SumOver(e, 2 .. (n + 1))
<1> DEFINE Moved(T) == {i + 1 : i \in T}
           Bad == {T \in SUBSET (1 .. n) : SumOver(f, T) # SumOver(e, Moved(T))}
<1>1. Bad = {}
  <2> SUFFICES ASSUME Bad # {} PROVE FALSE
    OBVIOUS
  <2>1. PICK M \in Bad : \A U \in SUBSET M : U # M => U \notin Bad
    <3>1. Bad \in SUBSET SUBSET (1 .. n) /\ IsFiniteSet(1 .. n)
      BY FS_Interval
    <3> HIDE DEF Bad
    <3> QED BY <3>1, SubsetMinimal
  <2>2. IsFiniteSet(M) /\ IsFiniteSet(Moved(M))
    <3>1. IsFiniteSet(1 .. n) /\ IsFiniteSet(2 .. (n + 1))
      BY FS_Interval
    <3>2. Moved(M) \subseteq 2 .. (n + 1) /\ M \subseteq 1 .. n
      OBVIOUS
    <3> HIDE DEF Moved, Bad
    <3> QED BY <3>1, <3>2, FS_Subset
  <2>3. CASE M = {}
    <3>1. Moved(M) = {}
      BY <2>3
    <3>2. SumOver(f, M) = 0 /\ SumOver(e, Moved(M)) = 0
      BY <2>3, <3>1, SumOverEmpty
    <3> QED BY <2>1, <3>2
  <2>4. ASSUME NEW x \in M PROVE FALSE
    <3> DEFINE W == M \ {x}
    <3>1. x \in Int /\ x + 1 \in Moved(M) /\ Moved(M) \ {x + 1} = Moved(W)
      BY <2>4
    <3>2. SumOver(f, W) = SumOver(e, Moved(W))
      BY <2>1, <2>4
    <3>3. (\A i \in M : f[i] \in Nat) /\ \A i \in Moved(M) : e[i] \in Nat
      OBVIOUS
    <3>4. SumOver(f, M) = f[x] + SumOver(f, W)
      BY <2>2, <2>4, <3>3, SumOverRemove
    <3> HIDE DEF Moved
    <3>5. SumOver(e, Moved(M)) = e[x + 1] + SumOver(e, Moved(M) \ {x + 1})
      BY <2>2, <3>1, <3>3, SumOverRemove
    <3>6. f[x] = e[x + 1]
      BY <2>4
    <3> QED BY <2>1, <3>1, <3>2, <3>4, <3>5, <3>6
  <2> QED BY <2>3, <2>4
<1>2. Moved(1 .. n) = 2 .. (n + 1)
  <2>1. \A j \in 2 .. (n + 1) : j - 1 \in 1 .. n /\ j = (j - 1) + 1
    OBVIOUS
  <2> QED BY <2>1
<1>3. 1 .. n \in SUBSET (1 .. n)
  OBVIOUS
<1> HIDE DEF Moved
<1> QED BY <1>1, <1>2, <1>3

LEMMA WantedTail ==
    ASSUME NEW g \in Adds, g # <<>>
    PROVE  Wanted(g) = g[1][2] + Wanted(Tail(g))
<1> DEFINE n == Len(g) - 1
           f == [i \in 1 .. n |-> Tail(g)[i][2]]
           e == [i \in 1 .. (n + 1) |-> g[i][2]]
<1>1. n \in Nat /\ DOMAIN g = 1 .. (n + 1) /\ DOMAIN Tail(g) = 1 .. n
  BY DEF Adds
<1>2. \A i \in 1 .. n : Tail(g)[i] = g[i + 1]
  BY DEF Adds
<1>3. \A i \in 1 .. (n + 1) : g[i][2] \in Nat
  BY <1>1 DEF Adds
<1>4. IsFiniteSet(1 .. n) /\ IsFiniteSet(1 .. (n + 1))
  BY <1>1, FS_Interval
<1>5. Wanted(g) = SumOver(e, 1 .. (n + 1))
  BY <1>1, <1>4, WantedIs
<1>6. Wanted(Tail(g)) = SumOver(f, 1 .. n)
  BY <1>1, <1>4, WantedIs
<1>7. \A i \in 1 .. n : f[i] = e[i + 1] /\ f[i] \in Nat
  BY <1>1, <1>2, <1>3
<1>8. (\A i \in 1 .. (n + 1) : e[i] \in Nat) /\ 1 \in 1 .. (n + 1) /\ e[1] = g[1][2]
  BY <1>1, <1>3
<1>9. (1 .. (n + 1)) \ {1} = 2 .. (n + 1)
  BY <1>1
<1> HIDE DEF f, e, n
<1>10. SumOver(f, 1 .. n) = SumOver(e, 2 .. (n + 1))
  BY <1>1, <1>7, SumOverShift
<1>11. SumOver(e, 1 .. (n + 1)) = e[1] + SumOver(e, (1 .. (n + 1)) \ {1})
  BY <1>4, <1>8, SumOverRemove
<1> QED BY <1>5, <1>6, <1>8, <1>9, <1>10, <1>11

LEMMA WantedNone == Wanted(<<>>) = 0
<1>1. DOMAIN <<>> = {}
  OBVIOUS
<1> QED BY <1>1, WantedIs, SumOverEmpty, FS_EmptySet

\* Other products have one price, a cap the price of the caps together.
OthersRight(ls) == \A k \in Others : Here(ls, k) => ls[k].price = Full
CapsRight(ls) == \A k \in Caps : Here(ls, k) => ls[k].price = PriceAt(k, Units(ls, Caps))

\* Units a move has added and not yet taken away.
Owed(q) == IF q.moved /\ q.drop > 0 THEN q.drop - Wanted(q.left) ELSE 0

\* What a request on its way may rely on, when no other request overlaps: it
\* will take away the units it moves and no others.
Moving(q, ls) ==
    /\ q.drop > 0 \/ q.pc \in {"set", "drop"} =>
         ls[q.key].id = q.item.id /\ ls[q.key].qty = q.item.qty /\ q.drop <= q.item.qty
    /\ \A i \in DOMAIN q.left : /\ q.drop > 0 => q.left[i][1] # q.key
                                /\ (q.left[i][1] \in Caps) = (q.key \in Caps)
    /\ ~ q.moved /\ q.drop > 0 /\ q.pc \in {"find", "create", "put"} => Wanted(q.left) = q.drop
    /\ q.pc = "set" => q.drop = 0
    /\ q.pc = "drop" => q.drop > 0 /\ q.left = <<>> /\ (~ q.moved => q.drop = q.item.qty)
    /\ q.pc \in {"read", "price", "remind"} /\ q.drop > 0 => q.moved

\* c, ls, a: the cart, the lines and the units asked for.
Right(q, c, ls, a) ==
    /\ Units(ls, Keys) = a + Owed(q)
    /\ q.pc \notin {"read", "price"} \/ q.key \notin Caps => CapsRight(ls)
    /\ q.pc \in {"put", "price"} => q.seen = ls
    /\ q.pc \in {"put", "set", "drop", "read", "price", "remind"} => c # "none"
    /\ Moving(q, ls)

AtRest(ls, a) == Units(ls, Keys) = a /\ CapsRight(ls)

QuietInv ==
    /\ cart = "none" => \A k \in Keys : lines[k] = NoLine
    /\ \A x, y \in Requests : req[x] # Idle /\ req[y] # Idle => x = y
    /\ (\A r \in Requests : req[r] = Idle) => AtRest(lines, asked)
    /\ \A r \in Requests : req[r] # Idle => Right(req[r], cart, lines, asked)

LEMMA InitQuiet == Limits /\ Init => OthersRight(lines) /\ QuietInv
<1> SUFFICES ASSUME Limits, Init PROVE OthersRight(lines) /\ QuietInv
  OBVIOUS
<1>1. (\A k \in Keys : lines[k] = NoLine) /\ asked = 0 /\ (\A r \in Requests : req[r] = Idle)
  BY DEF Init, BasketInit
<1>2. \A k \in Keys : ~ Here(lines, k) /\ lines[k].qty = 0
  BY <1>1 DEF Here, NoLine
<1>3. Units(lines, Keys) = 0
  <2> DEFINE F == [k \in Keys |-> lines[k].qty]
             Bad == {T \in SUBSET Keys : SumOver(F, T) # 0}
  <2>1. Units(lines, Keys) = SumOver(F, Keys)
    BY KeysFinite, UnitsIs
  <2>2. Bad = {}
    <3> SUFFICES ASSUME Bad # {} PROVE FALSE
      OBVIOUS
    <3>1. PICK M \in Bad : \A U \in SUBSET M : U # M => U \notin Bad
      <4>1. Bad \in SUBSET SUBSET Keys
        OBVIOUS
      <4> HIDE DEF Bad
      <4> QED BY <4>1, KeysFinite, SubsetMinimal
    <3>2. IsFiniteSet(M) /\ M # {}
      BY <3>1, KeysFinite, FS_Subset, SumOverEmpty
    <3>3. First(M) \in M
      BY <3>2, FirstOf
    <3>4. SumOver(F, M \ {First(M)}) = 0 /\ F[First(M)] = 0
      BY <1>2, <3>1, <3>3
    <3>5. SumOver(F, M) = F[First(M)] + SumOver(F, M \ {First(M)})
      BY <3>2, SumOverFirst
    <3> QED BY <3>1, <3>4, <3>5
  <2> QED BY <2>1, <2>2
<1> QED BY <1>1, <1>2, <1>3 DEF OthersRight, QuietInv, AtRest, CapsRight, Keys

\* The next state, where one request is on its way or has just ended.
LEMMA AloneQuiet ==
    ASSUME BasketTypes, QuietInv, NEW r \in Requests, req[r] # Idle, NEW q,
           req' = [req EXCEPT ![r] = q],
           cart' = "none" => \A k \in Keys : lines'[k] = NoLine,
           q = Idle => AtRest(lines', asked'),
           q # Idle => Right(q, cart', lines', asked')
    PROVE  QuietInv'
<1>1. \A x \in Requests \ {r} : req[x] = Idle
  BY DEF QuietInv
<1>2. req'[r] = q /\ \A x \in Requests \ {r} : req'[x] = Idle
  BY <1>1 DEF BasketTypes
<1> QED BY <1>2 DEF QuietInv

LEMMA StartQuiet ==
    ASSUME BasketTypes, QuietInv, NEW r \in Requests, NEW kind, NEW q, q # Idle, Start(kind, r, q), ~ muddled',
           AtRest(lines, asked) => Right(q, cart, lines, asked)
    PROVE  QuietInv'
<1>1. \A x \in Requests : req[x] = Idle
  BY DEF Start
<1>2. AtRest(lines, asked)
  BY <1>1 DEF QuietInv
<1>3. req'[r] = q /\ \A x \in Requests \ {r} : req'[x] = Idle
  BY <1>1 DEF Start, BasketTypes
<1>4. UNCHANGED <<cart, lines, asked>>
  BY DEF Start
<1> QED BY <1>2, <1>3, <1>4 DEF QuietInv

LEMMA OwedNothing == \A q : ~ q.moved => Owed(q) = 0
BY DEF Owed

\* A request that stops before it has written leaves the basket as it was.
LEMMA AbortQuiet ==
    ASSUME Limits, BasketTypes, QuietInv, NEW r \in Requests, req[r] # Idle, Abort(r), ~ muddled',
           UNCHANGED <<cart, lines, asked>>, req[r].pc \notin {"read", "price"}
    PROVE  QuietInv'
<1>1. ~ req[r].moved /\ req' = [req EXCEPT ![r] = Idle]
  BY DEF Abort, End
<1>2. Right(req[r], cart, lines, asked)
  BY DEF QuietInv
<1>3. Owed(req[r]) = 0
  BY <1>1, OwedNothing
<1>4. AtRest(lines, asked)
  BY <1>2, <1>3 DEF Right, AtRest, BasketTypes
<1>5. cart' = "none" => \A k \in Keys : lines'[k] = NoLine
  BY DEF QuietInv
<1> QED BY <1>1, <1>4, <1>5, AloneQuiet

LEMMA JobFields ==
    \A pc, left, k, item, drop :
        LET q == Job(pc, left, k, item, drop) IN
        /\ q # Idle
        /\ q.pc = pc /\ q.left = left /\ q.key = k /\ q.item = item /\ q.drop = drop /\ q.moved = FALSE
<1> SUFFICES ASSUME NEW pc, NEW left, NEW k, NEW item, NEW drop
             PROVE  LET q == Job(pc, left, k, item, drop) IN
                    /\ q # Idle
                    /\ q.pc = pc /\ q.left = left /\ q.key = k /\ q.item = item /\ q.drop = drop
                    /\ q.moved = FALSE
  OBVIOUS
<1> DEFINE q == Job(pc, left, k, item, drop)
<1>1. q.pc = pc /\ q.left = left /\ q.key = k /\ q.item = item /\ q.drop = drop /\ q.moved = FALSE
  BY DEF Job
<1>2. DOMAIN q = {"pc", "left", "key", "item", "drop", "seen", "moved"} /\ DOMAIN Idle = {"pc"}
  BY DEF Job, Idle
<1>3. q # Idle
  BY <1>2
<1> QED BY <1>1, <1>3

\* A request that starts has still to write.
LEMMA FreshRight ==
    ASSUME BasketTypes, AtRest(lines, asked), NEW q, q.moved = FALSE, q.pc \in {"find", "set", "drop"},
           q.pc \in {"set", "drop"} => cart # "none", Moving(q, lines)
    PROVE  Right(q, cart, lines, asked)
BY OwedNothing DEF Right, AtRest, BasketTypes

LEMMA AddItemQuiet ==
    ASSUME BasketTypes, QuietInv, NEW r \in Requests, AddItem(r), ~ muddled'
    PROVE  QuietInv'
<1>1. PICK k \in Keys, n \in 1 .. MaxQty : Start("add", r, Job("find", <<<<k, n>>>>, k, NoLine, 0))
  BY DEF AddItem
<1> DEFINE q == Job("find", <<<<k, n>>>>, k, NoLine, 0)
<1>2. /\ q # Idle
      /\ q.pc = "find" /\ q.left = <<<<k, n>>>> /\ q.key = k /\ q.drop = 0 /\ q.moved = FALSE
  BY JobFields
<1> HIDE DEF q
<1>3. Moving(q, lines)
  BY <1>2 DEF Moving
<1>4. AtRest(lines, asked) => Right(q, cart, lines, asked)
  BY <1>2, <1>3, FreshRight
<1> QED BY <1>1, <1>2, <1>4, StartQuiet DEF q

LEMMA PersonaliseItemQuiet ==
    ASSUME Limits, BasketTypes, QuietInv, NEW r \in Requests, PersonaliseItem(r), ~ muddled'
    PROVE  QuietInv'
<1>0. PICK groups \in UNION {[1 .. m -> Designs \X (1 .. MaxQty)] : m \in 1 .. Cardinality(Designs)} :
         /\ Here(lines, Plain)
         /\ Wanted(groups) <= lines[Plain].qty
         /\ Start("personalise", r, Job("find", groups, Plain, lines[Plain], Wanted(groups)))
  BY DEF PersonaliseItem, Wanted
<1>1. PICK m \in 1 .. Cardinality(Designs) : groups \in [1 .. m -> Designs \X (1 .. MaxQty)]
  OBVIOUS
<1> DEFINE q == Job("find", groups, Plain, lines[Plain], Wanted(groups))
<1>2. /\ q # Idle
      /\ q.pc = "find" /\ q.left = groups /\ q.key = Plain /\ q.item = lines[Plain]
      /\ q.drop = Wanted(groups) /\ q.moved = FALSE
  BY JobFields
<1>3. \A i \in DOMAIN groups : groups[i][1] \in Designs /\ groups[i][1] # Plain
  BY <1>1 DEF Limits
<1> HIDE DEF q
<1>4. Moving(q, lines)
  BY <1>0, <1>1, <1>2, <1>3 DEF Moving, Caps
<1>5. AtRest(lines, asked) => Right(q, cart, lines, asked)
  BY <1>2, <1>4, FreshRight
<1> QED BY <1>0, <1>1, <1>2, <1>5, StartQuiet DEF q

LEMMA MoveDesignQuiet ==
    ASSUME Limits, BasketTypes, QuietInv, NEW r \in Requests, MoveDesign(r), ~ muddled'
    PROVE  QuietInv'
<1>1. PICK d \in Designs, to \in Caps :
         /\ to # d
         /\ Here(lines, d)
         /\ Start("redesign", r, Job("find", <<<<to, lines[d].qty>>>>, d, lines[d], lines[d].qty))
  BY DEF MoveDesign
<1> DEFINE g == <<<<to, lines[d].qty>>>>
           q == Job("find", g, d, lines[d], lines[d].qty)
<1>2. /\ q # Idle
      /\ q.pc = "find" /\ q.left = g /\ q.key = d /\ q.item = lines[d]
      /\ q.drop = lines[d].qty /\ q.moved = FALSE
  BY JobFields
<1>3. d \in Keys /\ to \in Keys /\ lines[d].qty \in Nat \ {0}
  BY <1>1 DEF Keys, Caps, BasketTypes, Lines, Line
<1>4. Wanted(g) = lines[d].qty
  <2>1. g \in Adds /\ g # <<>> /\ Tail(g) = <<>> /\ g[1][2] = lines[d].qty
    BY <1>3 DEF Adds
  <2> HIDE DEF g
  <2>2. Wanted(g) = g[1][2] + Wanted(Tail(g))
    BY <2>1, WantedTail
  <2>3. Wanted(Tail(g)) = 0
    BY <2>1, WantedNone
  <2> QED BY <1>3, <2>1, <2>2, <2>3
<1>5. \A i \in DOMAIN g : g[i][1] = to
  OBVIOUS
<1> HIDE DEF q, g
<1>6. Moving(q, lines)
  BY <1>1, <1>2, <1>3, <1>4, <1>5 DEF Moving, Caps
<1>7. AtRest(lines, asked) => Right(q, cart, lines, asked)
  BY <1>2, <1>6, FreshRight
<1> QED BY <1>1, <1>2, <1>7, StartQuiet DEF q, g

LEMMA UpdateItemQuiet ==
    ASSUME BasketTypes, QuietInv, NEW r \in Requests, UpdateItem(r), ~ muddled'
    PROVE  QuietInv'
<1>1. PICK k \in Keys, n \in 1 .. MaxQty :
         Here(lines, k) /\ Start("update", r, Job("set", <<<<k, n>>>>, k, lines[k], 0))
  BY DEF UpdateItem
<1> DEFINE q == Job("set", <<<<k, n>>>>, k, lines[k], 0)
<1>2. /\ q # Idle
      /\ q.pc = "set" /\ q.left = <<<<k, n>>>> /\ q.key = k /\ q.item = lines[k] /\ q.drop = 0
      /\ q.moved = FALSE
  BY JobFields
<1>0. cart # "none" /\ 0 <= lines[k].qty
  BY DEF UpdateItem, BasketTypes, Lines, Line
<1> HIDE DEF q
<1>3. Moving(q, lines)
  BY <1>0, <1>2 DEF Moving
<1>4. AtRest(lines, asked) => Right(q, cart, lines, asked)
  BY <1>0, <1>2, <1>3, FreshRight
<1> QED BY <1>1, <1>2, <1>4, StartQuiet DEF q

LEMMA RemoveItemQuiet ==
    ASSUME BasketTypes, QuietInv, NEW r \in Requests, RemoveItem(r), ~ muddled'
    PROVE  QuietInv'
<1>1. PICK k \in Keys :
         Here(lines, k) /\ Start("remove", r, Job("drop", <<>>, k, lines[k], lines[k].qty))
  BY DEF RemoveItem
<1> DEFINE q == Job("drop", <<>>, k, lines[k], lines[k].qty)
<1>2. /\ q # Idle
      /\ q.pc = "drop" /\ q.left = <<>> /\ q.key = k /\ q.item = lines[k] /\ q.drop = lines[k].qty
      /\ q.moved = FALSE
  BY JobFields
<1>3. cart # "none" /\ lines[k].qty \in Nat \ {0} /\ DOMAIN <<>> = {}
  BY <1>1 DEF RemoveItem, BasketTypes, Lines, Line
<1> HIDE DEF q
<1>4. Moving(q, lines)
  BY <1>2, <1>3 DEF Moving
<1>5. AtRest(lines, asked) => Right(q, cart, lines, asked)
  BY <1>2, <1>3, <1>4, FreshRight
<1> QED BY <1>1, <1>2, <1>5, StartQuiet DEF q

\* The request goes on, having written nothing, to a step that may rely on what
\* it relied on.
LEMMA FindQuiet ==
    ASSUME Limits, BasketTypes, QuietInv, NEW r \in Requests, Find(r), ~ muddled'
    PROVE  QuietInv'
<1>1. req[r].pc = "find" /\ UNCHANGED <<cart, lines, asked>>
  BY DEF Find
<1>2. req[r] \in Task /\ req[r] # Idle
  BY <1>1, TaskAt DEF Steps, Idle
<1>3. Right(req[r], cart, lines, asked)
  BY <1>2 DEF QuietInv
<1>4. cart' = "none" => \A k \in Keys : lines'[k] = NoLine
  BY <1>1 DEF QuietInv
<1>5. CASE Abort(r)
  BY <1>1, <1>2, <1>5, AbortQuiet
<1>6. CASE Goto(r, "create")
  <2> DEFINE q == [req[r] EXCEPT !.pc = "create"]
  <2>1. /\ q.pc = "create" /\ q.left = req[r].left /\ q.key = req[r].key /\ q.item = req[r].item
        /\ q.drop = req[r].drop /\ q.moved = req[r].moved
    BY <1>2 DEF Task
  <2>2. req' = [req EXCEPT ![r] = q] /\ q # Idle
    BY <1>6, <2>1 DEF Goto, Idle
  <2> HIDE DEF q
  <2>3. Owed(q) = Owed(req[r])
    BY <2>1 DEF Owed
  <2>4. Moving(q, lines)
    BY <1>1, <1>3, <2>1 DEF Right, Moving
  <2>5. Right(q, cart, lines, asked)
    BY <1>1, <1>3, <2>1, <2>3, <2>4 DEF Right
  <2> QED BY <1>1, <1>2, <1>4, <2>2, <2>5, AloneQuiet
<1>7. CASE req' = [req EXCEPT ![r].pc = "put", ![r].seen = lines] /\ cart = "active"
  <2> DEFINE q == [req[r] EXCEPT !.pc = "put", !.seen = lines]
  <2>1. /\ q.pc = "put" /\ q.left = req[r].left /\ q.key = req[r].key /\ q.item = req[r].item
        /\ q.drop = req[r].drop /\ q.moved = req[r].moved /\ q.seen = lines
    BY <1>2 DEF Task
  <2>2. req' = [req EXCEPT ![r] = q] /\ q # Idle
    BY <1>2, <1>7, <2>1 DEF Task, Idle
  <2> HIDE DEF q
  <2>3. Owed(q) = Owed(req[r])
    BY <2>1 DEF Owed
  <2>4. Moving(q, lines)
    BY <1>1, <1>3, <2>1 DEF Right, Moving
  <2>5. Right(q, cart, lines, asked)
    BY <1>1, <1>3, <1>7, <2>1, <2>3, <2>4 DEF Right
  <2> QED BY <1>1, <1>2, <1>4, <2>2, <2>5, AloneQuiet
<1> QED BY <1>5, <1>6, <1>7 DEF Find

LEMMA CreateCartQuiet ==
    ASSUME Limits, BasketTypes, QuietInv, NEW r \in Requests, CreateCart(r), ~ muddled'
    PROVE  QuietInv'
<1>1. req[r].pc = "create" /\ UNCHANGED <<lines, asked>>
  BY DEF CreateCart
<1>2. req[r] \in Task /\ req[r] # Idle
  BY <1>1, TaskAt DEF Steps, Idle
<1>3. Right(req[r], cart, lines, asked)
  BY <1>2 DEF QuietInv
<1>4. CASE cart # "none"
  BY <1>1, <1>2, <1>4, AbortQuiet DEF CreateCart
<1>5. CASE cart = "none"
  <2> DEFINE empty == [k \in Keys |-> NoLine]
             q == [req[r] EXCEPT !.pc = "put", !.seen = empty]
  <2>1. /\ q.pc = "put" /\ q.left = req[r].left /\ q.key = req[r].key /\ q.item = req[r].item
        /\ q.drop = req[r].drop /\ q.moved = req[r].moved /\ q.seen = empty
    BY <1>2 DEF Task
  <2>2. req' = [req EXCEPT ![r] = q] /\ q # Idle /\ cart' = "active"
    BY <1>2, <1>5, <2>1 DEF CreateCart, Task, Idle
  <2>3. empty = lines
    BY <1>5 DEF QuietInv, BasketTypes, Lines
  <2> HIDE DEF q, empty
  <2>4. Owed(q) = Owed(req[r])
    BY <2>1 DEF Owed
  <2>5. Moving(q, lines)
    BY <1>1, <1>3, <2>1 DEF Right, Moving
  <2>6. Right(q, cart', lines, asked)
    BY <1>1, <1>3, <2>1, <2>2, <2>3, <2>4, <2>5 DEF Right
  <2>7. cart' # "none"
    BY <2>2
  <2> QED BY <1>1, <1>2, <2>2, <2>6, <2>7, AloneQuiet
<1> QED BY <1>4, <1>5

LEMMA ReadLinesQuiet ==
    ASSUME BasketTypes, QuietInv, NEW r \in Requests, ReadLines(r)
    PROVE  QuietInv'
<1>1. req[r].pc = "read" /\ UNCHANGED <<cart, lines, asked>>
  BY DEF ReadLines
<1>2. req[r] \in Task /\ req[r] # Idle
  BY <1>1, TaskAt DEF Steps, Idle
<1>3. Right(req[r], cart, lines, asked)
  BY <1>2 DEF QuietInv
<1>4. cart' = "none" => \A k \in Keys : lines'[k] = NoLine
  BY <1>1 DEF QuietInv
<1> DEFINE q == [req[r] EXCEPT !.pc = "price", !.seen = lines]
<1>5. /\ q.pc = "price" /\ q.left = req[r].left /\ q.key = req[r].key /\ q.item = req[r].item
      /\ q.drop = req[r].drop /\ q.moved = req[r].moved /\ q.seen = lines
  BY <1>2 DEF Task
<1>6. req' = [req EXCEPT ![r] = q] /\ q # Idle
  BY <1>2, <1>5 DEF ReadLines, Task, Idle
<1> HIDE DEF q
<1>7. Owed(q) = Owed(req[r])
  BY <1>5 DEF Owed
<1>8. Moving(q, lines)
  BY <1>1, <1>3, <1>5 DEF Right, Moving
<1>9. Right(q, cart, lines, asked)
  BY <1>1, <1>3, <1>5, <1>7, <1>8 DEF Right
<1> QED BY <1>1, <1>2, <1>4, <1>6, <1>9, AloneQuiet

LEMMA RemindQuiet ==
    ASSUME BasketTypes, QuietInv, NEW r \in Requests, Remind(r)
    PROVE  QuietInv'
<1>1. req[r].pc = "remind" /\ UNCHANGED <<cart, lines, asked>>
  BY DEF Remind
<1>2. req[r] \in Task /\ req[r] # Idle
  BY <1>1, TaskAt DEF Steps, Idle
<1>3. Right(req[r], cart, lines, asked)
  BY <1>2 DEF QuietInv
<1>4. cart' = "none" => \A k \in Keys : lines'[k] = NoLine
  BY <1>1 DEF QuietInv
<1>5. ASSUME NEW pc \in {"find", "drop"}, Goto(r, pc),
             pc = "drop" => req[r].left = <<>> /\ req[r].drop > 0
      PROVE  QuietInv'
  <2> DEFINE q == [req[r] EXCEPT !.pc = pc]
  <2>1. /\ q.pc = pc /\ q.left = req[r].left /\ q.key = req[r].key /\ q.item = req[r].item
        /\ q.drop = req[r].drop /\ q.moved = req[r].moved
    BY <1>2 DEF Task
  <2>2. req' = [req EXCEPT ![r] = q] /\ q # Idle
    BY <1>5, <2>1 DEF Goto, Idle
  <2> HIDE DEF q
  <2>3. Owed(q) = Owed(req[r])
    BY <2>1 DEF Owed
  <2>4. Moving(q, lines)
    BY <1>1, <1>3, <1>5, <2>1 DEF Right, Moving
  <2>5. Right(q, cart, lines, asked)
    BY <1>1, <1>3, <2>1, <2>3, <2>4 DEF Right
  <2> QED BY <1>1, <1>2, <1>4, <2>2, <2>5, AloneQuiet
<1>6. CASE req[r].drop = 0 /\ End(r)
  <2>1. Owed(req[r]) = 0
    BY <1>6 DEF Owed
  <2>2. AtRest(lines, asked)
    BY <1>1, <1>3, <2>1 DEF Right, AtRest, BasketTypes
  <2>3. req' = [req EXCEPT ![r] = Idle]
    BY <1>6 DEF End
  <2> QED BY <1>1, <1>2, <1>4, <2>2, <2>3, AloneQuiet
<1>7. req[r].drop \in Nat
  BY <1>2 DEF Task
<1> QED BY <1>5, <1>6, <1>7 DEF Remind

\* A step that writes one line.
LEMMA LineChange ==
    ASSUME Limits, NEW ls \in Lines, NEW ms \in Lines, NEW k \in Keys,
           \A x \in Keys \ {k} : ms[x] = ls[x]
    PROVE  /\ Units(ms, Keys) = Units(ls, Keys) - ls[k].qty + ms[k].qty
           /\ Units(ls, Keys) \in Nat /\ ls[k].qty \in Nat /\ ms[k].qty \in Nat
           /\ k \notin Caps /\ CapsRight(ls) => CapsRight(ms)
<1>1. Units(ms, Keys) = Units(ls, Keys) - ls[k].qty + ms[k].qty
  BY UnitsChange
<1>2. Units(ls, Keys) \in Nat
  BY UnitsNat
<1>3. ls[k].qty \in Nat /\ ms[k].qty \in Nat
  BY DEF Lines, Line
<1>4. ASSUME k \notin Caps, CapsRight(ls) PROVE CapsRight(ms)
  <2>1. Caps \in SUBSET Keys /\ \A x \in Caps : ms[x] = ls[x]
    BY <1>4 DEF Keys
  <2>2. Units(ls, Caps) = Units(ms, Caps)
    <3>1. \A x \in Caps : ls[x].qty = ms[x].qty
      BY <2>1
    <3> QED BY <2>1, <3>1, UnitsSame
  <2> QED BY <1>4, <2>1, <2>2 DEF CapsRight, Here
<1> QED BY <1>1, <1>2, <1>3, <1>4

LEMMA OthersPrice == Limits => \A k \in Others : \A n : k \notin Caps /\ PriceAt(k, n) = Full
BY DEF Limits, Caps, PriceAt

\* The units an add brings, and those still owed.
LEMMA OwedTail ==
    ASSUME NEW q, q.left \in Adds, q.left # <<>>, q.drop \in Nat, q.moved \in BOOLEAN,
           ~ q.moved /\ q.drop > 0 => Wanted(q.left) = q.drop,
           NEW p, p.left = Tail(q.left), p.drop = q.drop, p.moved = (q.drop > 0)
    PROVE  /\ Owed(p) \in Int /\ Owed(q) \in Int
           /\ Owed(p) = IF q.drop = 0 THEN Owed(q) ELSE Owed(q) + q.left[1][2]
<1> DEFINE n == q.left[1][2]
<1>1. Wanted(q.left) = n + Wanted(Tail(q.left))
  BY WantedTail
<1>2. n \in Nat /\ Tail(q.left) \in Adds
  BY HeadOfAdds
<1>3. Wanted(Tail(q.left)) \in Nat /\ Wanted(q.left) \in Nat
  BY <1>2, WantedNat
<1>4. CASE q.drop = 0
  <2>1. Owed(q) = 0 /\ Owed(p) = 0
    BY <1>4 DEF Owed
  <2> QED BY <1>4, <2>1
<1>5. CASE q.drop > 0
  <2> DEFINE w == Wanted(q.left)
             v == Wanted(Tail(q.left))
             d == q.drop
  <2>1. p.moved /\ p.drop > 0 /\ Wanted(p.left) = v
    BY <1>5
  <2>2. Owed(p) = d - v
    BY <2>1 DEF Owed
  <2>3. Owed(q) = d - w
    <3>1. CASE q.moved
      BY <1>5, <3>1 DEF Owed
    <3>2. CASE ~ q.moved
      <4>1. Owed(q) = 0 /\ w = d
        BY <1>5, <3>2 DEF Owed
      <4> QED BY <4>1
    <3> QED BY <3>1, <3>2
  <2>4. w = n + v /\ v \in Nat /\ w \in Nat /\ d \in Nat /\ n \in Nat /\ d # 0
    BY <1>1, <1>2, <1>3, <1>5
  <2> HIDE DEF w, v, d, n
  <2>5. Owed(p) = Owed(q) + n /\ Owed(p) \in Int /\ Owed(q) \in Int
    BY <2>2, <2>3, <2>4
  <2> QED BY <2>4, <2>5 DEF n, d
<1> QED BY <1>4, <1>5

LEMMA PutQuiet ==
    ASSUME Limits, BasketTypes, BasketTypes', OthersRight(lines), QuietInv, NEW r \in Requests, Put(r)
    PROVE  OthersRight(lines') /\ QuietInv'
<1> DEFINE k == req[r].left[1][1]
           n == req[r].left[1][2]
           was == req[r].seen[k]
           new == [id |-> IF was.id = 0 THEN nextId + 1 ELSE was.id,
                   qty |-> was.qty + n, price |-> PriceAt(k, was.qty + n)]
           q == [req[r] EXCEPT !.pc = "read", !.left = Tail(req[r].left), !.moved = req[r].drop > 0]
<1>1. req[r].pc = "put" /\ UNCHANGED cart
  BY DEF Put
<1>2. req[r] \in Task /\ TaskOK(req[r]) /\ req[r] # Idle
  BY <1>1, TaskAt DEF Steps, Idle
<1>3. Right(req[r], cart, lines, asked) /\ req[r].seen = lines /\ cart # "none" /\ Moving(req[r], lines)
  BY <1>1, <1>2 DEF QuietInv, Right
<1>4. k \in Keys /\ n \in Nat \ {0} /\ req[r].left # <<>> /\ req[r].left \in Adds
  BY <1>1, <1>2, HeadOfAdds DEF Task, TaskOK
<1>5. was = lines[k]
  BY <1>3
<1>6. /\ lines' = [lines EXCEPT ![k] = new]
      /\ asked' = IF req[r].drop = 0 THEN asked + n ELSE asked
      /\ req' = [req EXCEPT ![r].pc = "read", ![r].left = Tail(req[r].left),
                            ![r].moved = req[r].drop > 0]
  BY <1>5 DEF Put
<1>7. /\ q.pc = "read" /\ q.left = Tail(req[r].left) /\ q.key = req[r].key /\ q.item = req[r].item
      /\ q.drop = req[r].drop /\ q.moved = (req[r].drop > 0)
  BY <1>2 DEF Task
<1>8. req' = [req EXCEPT ![r] = q] /\ q # Idle
  BY <1>2, <1>6, <1>7 DEF Task, Idle
<1>9. new.qty = lines[k].qty + n /\ new.price = PriceAt(k, new.qty)
  BY <1>5
<1> HIDE DEF q, new, n, was
<1>10. lines' \in Lines /\ lines \in Lines
  BY DEF BasketTypes
<1>11. lines'[k] = new /\ \A x \in Keys \ {k} : lines'[x] = lines[x]
  BY <1>4, <1>6 DEF BasketTypes, Lines
<1>12. OthersRight(lines')
  <2> SUFFICES ASSUME NEW x \in Others, Here(lines', x) PROVE lines'[x].price = Full
    BY DEF OthersRight
  <2>1. CASE x = k
    BY <1>9, <1>11, <2>1, OthersPrice
  <2>2. CASE x # k
    BY <1>11, <2>2 DEF OthersRight, Here, Keys
  <2> QED BY <2>1, <2>2
<1>13. /\ Units(lines', Keys) = Units(lines, Keys) - lines[k].qty + new.qty
       /\ Units(lines, Keys) \in Nat /\ lines[k].qty \in Nat
       /\ k \notin Caps /\ CapsRight(lines) => CapsRight(lines')
  <2> HIDE DEF k
  <2> QED BY <1>4, <1>10, <1>11, LineChange
<1>14. /\ Owed(q) \in Int /\ Owed(req[r]) \in Int
       /\ Owed(q) = IF req[r].drop = 0 THEN Owed(req[r]) ELSE Owed(req[r]) + n
  <2>1. /\ req[r].drop \in Nat /\ req[r].moved \in BOOLEAN
        /\ ~ req[r].moved /\ req[r].drop > 0 => Wanted(req[r].left) = req[r].drop
    BY <1>1, <1>2, <1>3 DEF Task, Moving
  <2> QED BY <1>4, <1>7, <2>1, OwedTail DEF n
<1>15. Units(lines', Keys) = asked' + Owed(q)
  <2>1. Units(lines, Keys) = asked + Owed(req[r]) /\ asked \in Int
    BY <1>3 DEF Right, BasketTypes
  <2>2. Units(lines', Keys) = Units(lines, Keys) + n
    BY <1>4, <1>9, <1>13
  <2> QED BY <1>4, <1>6, <1>14, <2>1, <2>2
<1>16. \A i \in DOMAIN q.left : i + 1 \in DOMAIN req[r].left /\ q.left[i] = req[r].left[i + 1]
  BY <1>4, <1>7 DEF Adds
<1>17. 1 \in DOMAIN req[r].left
  BY <1>4 DEF Adds
<1>18. (k \in Caps) = (req[r].key \in Caps) /\ (req[r].drop > 0 => k # req[r].key)
  BY <1>3, <1>17 DEF Moving
<1>19. Moving(q, lines')
  <2>1. req[r].key \in Keys
    BY <1>2 DEF Task
  <2>2. req[r].drop > 0 => lines'[req[r].key] = lines[req[r].key]
    BY <1>11, <1>18, <2>1
  <2>3. q.drop > 0 => /\ lines'[q.key].id = q.item.id /\ lines'[q.key].qty = q.item.qty
                      /\ q.drop <= q.item.qty
    BY <1>3, <1>7, <2>2 DEF Moving
  <2>4. \A i \in DOMAIN q.left : /\ q.drop > 0 => q.left[i][1] # q.key
                                 /\ (q.left[i][1] \in Caps) = (q.key \in Caps)
    BY <1>3, <1>7, <1>16 DEF Moving
  <2> QED BY <1>7, <2>3, <2>4 DEF Moving
<1>20. q.key \notin Caps => CapsRight(lines')
  BY <1>1, <1>3, <1>7, <1>13, <1>18 DEF Right
<1>21. Right(q, cart', lines', asked')
  BY <1>1, <1>3, <1>7, <1>15, <1>19, <1>20 DEF Right
<1> QED BY <1>1, <1>2, <1>3, <1>8, <1>12, <1>21, AloneQuiet

LEMMA SetLineQuiet ==
    ASSUME Limits, BasketTypes, BasketTypes', OthersRight(lines), QuietInv, NEW r \in Requests, SetLine(r)
    PROVE  OthersRight(lines') /\ QuietInv'
<1> DEFINE k == req[r].key
           n == req[r].left[1][2]
           new == [lines[k] EXCEPT !.qty = n, !.price = PriceAt(k, n)]
           q == [req[r] EXCEPT !.pc = "read", !.left = <<>>]
<1>1. req[r].pc = "set" /\ UNCHANGED cart
  BY DEF SetLine
<1>2. req[r] \in Task /\ TaskOK(req[r]) /\ req[r] # Idle
  BY <1>1, TaskAt DEF Steps, Idle
<1>3. Right(req[r], cart, lines, asked) /\ cart # "none" /\ CapsRight(lines)
  BY <1>1, <1>2 DEF QuietInv, Right
<1>4. k \in Keys /\ n \in Nat \ {0} /\ lines[k] \in Line
  BY <1>1, <1>2, HeadOfAdds DEF Task, TaskOK, BasketTypes, Lines
<1>5. lines[k].id = req[r].item.id /\ lines[k].qty = req[r].item.qty /\ req[r].drop = 0
  BY <1>1, <1>3 DEF Right, Moving
<1>6. /\ lines' = [lines EXCEPT ![k].qty = n, ![k].price = PriceAt(k, n)]
      /\ asked' = asked + n - req[r].item.qty
      /\ req' = [req EXCEPT ![r].pc = "read", ![r].left = <<>>]
  BY <1>5 DEF SetLine
<1>7. lines' = [lines EXCEPT ![k] = new]
  BY <1>4, <1>6 DEF BasketTypes, Lines, Line
<1>8. /\ q.pc = "read" /\ q.left = <<>> /\ q.key = k /\ q.item = req[r].item
      /\ q.drop = 0 /\ q.moved = req[r].moved
  BY <1>2, <1>5 DEF Task
<1>9. req' = [req EXCEPT ![r] = q] /\ q # Idle
  BY <1>2, <1>6, <1>8 DEF Task, Idle
<1>10. new.qty = n /\ new.price = PriceAt(k, n)
  BY <1>4 DEF Line
<1> HIDE DEF q, new, n
<1>11. lines' \in Lines /\ lines \in Lines
  BY DEF BasketTypes
<1>12. lines'[k] = new /\ \A x \in Keys \ {k} : lines'[x] = lines[x]
  BY <1>4, <1>7 DEF BasketTypes, Lines
<1>13. OthersRight(lines')
  <2> SUFFICES ASSUME NEW x \in Others, Here(lines', x) PROVE lines'[x].price = Full
    BY DEF OthersRight
  <2>1. CASE x = k
    BY <1>10, <1>12, <2>1, OthersPrice
  <2>2. CASE x # k
    BY <1>12, <2>2 DEF OthersRight, Here, Keys
  <2> QED BY <2>1, <2>2
<1>14. /\ Units(lines', Keys) = Units(lines, Keys) - lines[k].qty + new.qty
       /\ Units(lines, Keys) \in Nat /\ lines[k].qty \in Nat
       /\ k \notin Caps /\ CapsRight(lines) => CapsRight(lines')
  <2> HIDE DEF k
  <2> QED BY <1>4, <1>11, <1>12, LineChange
<1>15. Owed(q) = 0 /\ Owed(req[r]) = 0
  BY <1>5, <1>8 DEF Owed
<1>16. Units(lines', Keys) = asked' + Owed(q)
  <2>1. Units(lines, Keys) = asked + 0 /\ asked \in Int
    BY <1>3, <1>15 DEF Right, BasketTypes
  <2>2. asked' = asked + n - lines[k].qty
    BY <1>5, <1>6
  <2>3. Units(lines', Keys) = Units(lines, Keys) - lines[k].qty + n
    BY <1>10, <1>14
  <2> HIDE DEF k
  <2> QED BY <1>4, <1>14, <1>15, <2>1, <2>2, <2>3
<1>17. Moving(q, lines')
  <2>1. DOMAIN <<>> = {}
    OBVIOUS
  <2> QED BY <1>8, <2>1 DEF Moving
<1>18. Right(q, cart', lines', asked')
  BY <1>1, <1>3, <1>8, <1>14, <1>16, <1>17 DEF Right
<1> QED BY <1>1, <1>2, <1>3, <1>9, <1>13, <1>18, AloneQuiet

LEMMA DropQuiet ==
    ASSUME Limits, BasketTypes, BasketTypes', OthersRight(lines), QuietInv, NEW r \in Requests, Drop(r)
    PROVE  OthersRight(lines') /\ QuietInv'
<1> DEFINE k == req[r].key
           d == req[r].drop
           rest == Rest(req[r].item, d)
           new == IF rest = 0 THEN NoLine
                  ELSE [id |-> lines[k].id, qty |-> rest, price |-> lines[k].price]
           q == [req[r] EXCEPT !.pc = "read", !.drop = 0]
<1>1. req[r].pc = "drop" /\ UNCHANGED cart
  BY DEF Drop
<1>2. req[r] \in Task /\ req[r] # Idle
  BY <1>1, TaskAt DEF Steps, Idle
<1>3. Right(req[r], cart, lines, asked) /\ cart # "none" /\ CapsRight(lines)
  BY <1>1, <1>2 DEF QuietInv, Right
<1>4. k \in Keys /\ d \in Nat /\ lines[k] \in Line
  BY <1>2 DEF Task, BasketTypes, Lines
<1>5. /\ lines[k].id = req[r].item.id /\ lines[k].qty = req[r].item.qty /\ d <= lines[k].qty
      /\ d > 0 /\ req[r].left = <<>> /\ (~ req[r].moved => d = lines[k].qty)
  BY <1>1, <1>3 DEF Right, Moving
<1>6. /\ lines' = [lines EXCEPT ![k] = new]
      /\ asked' = IF req[r].moved THEN asked ELSE asked - lines[k].qty
      /\ req' = [req EXCEPT ![r].pc = "read", ![r].drop = 0]
  BY <1>5 DEF Drop
<1>7. /\ q.pc = "read" /\ q.left = <<>> /\ q.key = k /\ q.item = req[r].item
      /\ q.drop = 0 /\ q.moved = req[r].moved
  BY <1>2, <1>5 DEF Task
<1>8. req' = [req EXCEPT ![r] = q] /\ q # Idle
  BY <1>2, <1>6, <1>7 DEF Task, Idle
<1>9. rest = lines[k].qty - d /\ lines[k].qty \in Nat
  BY <1>4, <1>5 DEF Rest, Line
<1>10. new.qty = rest /\ (new.id # 0 => new.price = lines[k].price /\ lines[k].id # 0)
  BY DEF NoLine
<1> HIDE DEF q, new, rest
<1>11. lines' \in Lines /\ lines \in Lines
  BY DEF BasketTypes
<1>12. lines'[k] = new /\ \A x \in Keys \ {k} : lines'[x] = lines[x]
  BY <1>4, <1>6 DEF BasketTypes, Lines
<1>13. OthersRight(lines')
  <2> SUFFICES ASSUME NEW x \in Others, Here(lines', x) PROVE lines'[x].price = Full
    BY DEF OthersRight
  <2>1. CASE x = k
    BY <1>10, <1>12, <2>1 DEF OthersRight, Here
  <2>2. CASE x # k
    BY <1>12, <2>2 DEF OthersRight, Here, Keys
  <2> QED BY <2>1, <2>2
<1>14. /\ Units(lines', Keys) = Units(lines, Keys) - lines[k].qty + new.qty
       /\ Units(lines, Keys) \in Nat
       /\ k \notin Caps /\ CapsRight(lines) => CapsRight(lines')
  <2> HIDE DEF k
  <2> QED BY <1>4, <1>11, <1>12, LineChange
<1>15. Owed(q) = 0 /\ Owed(req[r]) = IF req[r].moved THEN d ELSE 0
  <2>1. Wanted(req[r].left) = 0
    BY <1>5, WantedNone
  <2> QED BY <1>4, <1>5, <1>7, <2>1 DEF Owed
<1>16. Units(lines', Keys) = asked' + Owed(q)
  <2>1. Units(lines, Keys) = asked + Owed(req[r]) /\ asked \in Int
    BY <1>3 DEF Right, BasketTypes
  <2>2. Units(lines', Keys) = Units(lines, Keys) - d
    BY <1>4, <1>9, <1>10, <1>14
  <2>3. CASE req[r].moved
    BY <1>4, <1>6, <1>15, <2>1, <2>2, <2>3
  <2>4. CASE ~ req[r].moved
    BY <1>4, <1>5, <1>6, <1>15, <2>1, <2>2, <2>4
  <2> QED BY <2>3, <2>4
<1>17. Moving(q, lines')
  <2>1. DOMAIN <<>> = {}
    OBVIOUS
  <2> QED BY <1>7, <2>1 DEF Moving
<1>18. Right(q, cart', lines', asked')
  BY <1>1, <1>3, <1>7, <1>14, <1>16, <1>17 DEF Right
<1> QED BY <1>1, <1>2, <1>3, <1>8, <1>13, <1>18, AloneQuiet

LEMMA RepriceQuiet ==
    ASSUME Limits, BasketTypes, OthersRight(lines), QuietInv, NEW r \in Requests, Reprice(r)
    PROVE  OthersRight(lines') /\ QuietInv'
<1> DEFINE write == IF req[r].key \in Caps THEN Moves(lines) ELSE {}
           q == [req[r] EXCEPT !.pc = "remind"]
<1>1. req[r].pc = "price" /\ UNCHANGED <<cart, asked>>
  BY DEF Reprice
<1>2. req[r] \in Task /\ req[r] # Idle
  BY <1>1, TaskAt DEF Steps, Idle
<1>3. Right(req[r], cart, lines, asked) /\ req[r].seen = lines /\ cart # "none"
  BY <1>1, <1>2 DEF QuietInv, Right
<1>4. {k \in write : lines[k].id = lines[k].id} = write
  OBVIOUS
<1>5. lines' = Rewritten(lines, lines, write)
  BY <1>3, <1>4 DEF Reprice, Rewritten
<1>6. \/ Goto(r, "remind")
      \/ ~ (req[r].drop > 0) /\ End(r)
  BY <1>3, <1>4 DEF Reprice
<1>7. write \subseteq Caps /\ Caps \in SUBSET Keys
  BY DEF Moves, Keys
<1> HIDE DEF write
<1>8. \A k \in Keys : /\ lines'[k].id = lines[k].id /\ lines'[k].qty = lines[k].qty
                      /\ lines'[k].price = IF k \in write THEN PriceAt(k, Units(lines, Caps)) ELSE lines[k].price
  BY <1>5 DEF Rewritten
<1>9. OthersRight(lines')
  BY <1>7, <1>8, OthersPrice DEF OthersRight, Here, Keys
<1>10. Units(lines', Keys) = Units(lines, Keys)
  BY <1>8, UnitsSame
<1>11. Units(lines', Caps) = Units(lines, Caps)
  BY <1>7, <1>8, UnitsSame
<1>12. CapsRight(lines')
  <2> SUFFICES ASSUME NEW k \in Caps, Here(lines', k)
               PROVE  lines'[k].price = PriceAt(k, Units(lines, Caps))
    BY <1>11 DEF CapsRight
  <2>1. k \in Keys /\ Here(lines, k)
    BY <1>7, <1>8 DEF Here
  <2>2. CASE req[r].key \in Caps
    BY <1>8, <2>1, <2>2 DEF write, Moves, Known
  <2>3. CASE req[r].key \notin Caps
    BY <1>3, <1>8, <2>1, <2>3 DEF write, Right, CapsRight
  <2> QED BY <2>2, <2>3
<1>13. cart' # "none"
  BY <1>1, <1>3
<1>14. CASE Goto(r, "remind")
  <2>1. /\ q.pc = "remind" /\ q.left = req[r].left /\ q.key = req[r].key /\ q.item = req[r].item
        /\ q.drop = req[r].drop /\ q.moved = req[r].moved
    BY <1>2 DEF Task
  <2>2. req' = [req EXCEPT ![r] = q] /\ q # Idle
    BY <1>14, <2>1 DEF Goto, Idle
  <2> HIDE DEF q
  <2>3. Owed(q) = Owed(req[r])
    BY <2>1 DEF Owed
  <2>4. req[r].key \in Keys /\ lines'[req[r].key].id = lines[req[r].key].id
                            /\ lines'[req[r].key].qty = lines[req[r].key].qty
    BY <1>2, <1>8 DEF Task
  <2>5. Moving(q, lines')
    BY <1>1, <1>3, <2>1, <2>4 DEF Right, Moving
  <2>6. Right(q, cart', lines', asked')
    BY <1>1, <1>3, <1>10, <1>12, <1>13, <2>1, <2>3, <2>5 DEF Right
  <2> QED BY <1>2, <1>9, <1>13, <2>2, <2>6, AloneQuiet
<1>15. CASE ~ (req[r].drop > 0) /\ End(r)
  <2>1. Owed(req[r]) = 0
    BY <1>15 DEF Owed
  <2>2. AtRest(lines', asked')
    BY <1>1, <1>3, <1>10, <1>12, <2>1 DEF Right, AtRest, BasketTypes
  <2>3. req' = [req EXCEPT ![r] = Idle]
    BY <1>15 DEF End
  <2> QED BY <1>2, <1>9, <1>13, <2>2, <2>3, AloneQuiet
<1> QED BY <1>6, <1>14, <1>15

\* The invariant of the basket: while requests neither overlapped nor stopped
\* half-way.
BasketInv == ~ muddled => OthersRight(lines) /\ QuietInv

LEMMA MuddledStays ==
    ASSUME BasketTypes, NEW r \in Requests, Edit(r), muddled
    PROVE  muddled'
BY DEF Edit, AddItem, PersonaliseItem, MoveDesign, UpdateItem, RemoveItem, Start, Find, CreateCart, Put,
       SetLine, Drop, ReadLines, Reprice, Remind, Abort, BasketTypes

\* A step that writes no line and no request, and neither opens nor loses the
\* cart.
LEMMA CartQuiet ==
    ASSUME BasketInv, UNCHANGED <<lines, req, asked, muddled>>,
           cart' = "none" => cart = "none", cart # "none" => cart' # "none"
    PROVE  BasketInv'
BY DEF BasketInv, QuietInv, OthersRight, Here, AtRest, Right, Moving, CapsRight

LEMMA EditQuiet ==
    ASSUME Limits, BasketTypes, BasketTypes', OthersRight(lines), QuietInv, NEW r \in Requests, Edit(r), ~ muddled'
    PROVE  OthersRight(lines') /\ QuietInv'
<1>1. CASE \/ AddItem(r) \/ PersonaliseItem(r) \/ MoveDesign(r) \/ UpdateItem(r) \/ RemoveItem(r)
           \/ Find(r) \/ CreateCart(r) \/ ReadLines(r) \/ Remind(r)
  <2>1. UNCHANGED lines
    BY <1>1 DEF AddItem, PersonaliseItem, MoveDesign, UpdateItem, RemoveItem, Start, Find, CreateCart,
                ReadLines, Remind
  <2>2. OthersRight(lines')
    BY <2>1 DEF OthersRight
  <2>3. QuietInv'
    BY <1>1, AddItemQuiet, PersonaliseItemQuiet, MoveDesignQuiet, UpdateItemQuiet, RemoveItemQuiet,
       FindQuiet, CreateCartQuiet, ReadLinesQuiet, RemindQuiet
  <2> QED BY <2>2, <2>3
<1>2. CASE Put(r) \/ SetLine(r) \/ Drop(r) \/ Reprice(r)
  BY <1>2, PutQuiet, SetLineQuiet, DropQuiet, RepriceQuiet
<1> QED BY <1>1, <1>2 DEF Edit

LEMMA BasketStep == Limits /\ BasketTypes /\ BasketTypes' /\ BasketInv /\ [Next]_vars => BasketInv'
<1> SUFFICES ASSUME Limits, BasketTypes, BasketTypes', BasketInv, [Next]_vars PROVE BasketInv'
  OBVIOUS
<1>1. ASSUME NEW r \in Requests, Edit(r) PROVE BasketInv'
  <2> SUFFICES ASSUME ~ muddled' PROVE OthersRight(lines') /\ QuietInv'
    BY DEF BasketInv, OthersRight, Here
  <2>1. OthersRight(lines) /\ QuietInv
    BY <1>1, MuddledStays DEF BasketInv
  <2> QED BY <1>1, <2>1, EditQuiet
<1>2. CASE Fire \/ Flip \/ Mail \/ Finish \/ Stall \/ Break
  BY <1>2, CartQuiet DEF BasketTypes, Fire, Flip, Abandon, Mail, Finish, Stall, Break, cartVars
<1>3. CASE SpendCart \/ CompleteCart \/ DropReminder
  BY <1>3, CartQuiet DEF SpendCart, CompleteCart, DropReminder
<1>4. CASE UNCHANGED basketCore
  BY <1>4, CartQuiet DEF basketCore
<1> QED BY <1>1, <1>2, <1>3, <1>4, StepCases

\* A basket at rest holds the units asked for, at the price of their product
\* (CartService.personaliseItem, updateItem, repriceProductLines).
THEOREM BasketsTrue == ASSUME Limits PROVE Spec => []BasketTrue
<1>1. Init => BasketTypes /\ BasketInv
  BY InitBasketTypes, InitQuiet DEF BasketInv
<1>2. BasketTypes /\ BasketInv /\ [Next]_vars => (BasketTypes /\ BasketInv)'
  BY BasketTypesStep, BasketStep
<1>3. BasketTypes /\ BasketInv => BasketTrue
  <2> SUFFICES ASSUME ~ muddled, \A r \in Requests : req[r] = Idle, OthersRight(lines), QuietInv
               PROVE  /\ Units(lines, Keys) = asked
                      /\ \A k \in Known(lines) : lines[k].price = PriceAt(k, Units(lines, Siblings(k)))
    BY DEF BasketInv, BasketTrue, enrichCart
  <2>1. AtRest(lines, asked)
    BY DEF QuietInv
  <2>2. ASSUME NEW k \in Known(lines) PROVE lines[k].price = PriceAt(k, Units(lines, Siblings(k)))
    <3>1. CASE k \in Caps
      BY <2>1, <2>2, <3>1 DEF AtRest, CapsRight, Known, Siblings
    <3>2. CASE k \in Others
      BY <2>2, <3>2, OthersPrice DEF OthersRight, Known
    <3> QED BY <2>2, <3>1, <3>2 DEF Known, Keys
  <2> QED BY <2>1, <2>2 DEF AtRest
<1> QED BY <1>1, <1>2, <1>3, PTL DEF Spec

=============================================================================
