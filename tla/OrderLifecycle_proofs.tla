------------------------ MODULE OrderLifecycle_proofs ------------------------
(***************************************************************************)
(* Proofs about the atomic order lifecycle, for every set of orders,       *)
(* variants, claims and stock: the buckets are exactly what the live       *)
(* orders account for, and each order is counted at most once.             *)
(***************************************************************************)
EXTENDS OrderLifecycle, FiniteSetTheorems, TLAPS

-----------------------------------------------------------------------------
(* Each bucket movement keeps natural numbers in the buckets. *)
LEMMA LessNat == \A n, m \in Nat : Less(n, m) \in Nat
BY DEF Less

LEMMA MovedType ==
    ASSUME NEW levels \in StockLevels, NEW q \in Claim, NEW prev, NEW next
    PROVE  Moved(levels, q, prev, next) \in StockLevels
<1>t. \A v \in Variants : /\ levels[v].available \in Nat
                            /\ levels[v].reserved \in Nat
                            /\ levels[v].committed \in Nat
                            /\ q[v] \in Nat
                            /\ levels[v].available + q[v] \in Nat
                            /\ levels[v].committed + q[v] \in Nat
  BY DEF StockLevels, Row, Claim
<1>1. Release(levels, q) \in StockLevels
  <2>1. ASSUME NEW v \in Variants PROVE Release(levels, q)[v] \in Row
    <3>1. Less(levels[v].reserved, q[v]) \in Nat
      BY <1>t, LessNat
    <3> QED
      BY <1>t, <3>1 DEF Release, Row
  <2> QED
    BY <2>1 DEF Release, StockLevels
<1>2. Commit(levels, q) \in StockLevels
  <2>1. ASSUME NEW v \in Variants PROVE Commit(levels, q)[v] \in Row
    <3>1. Less(levels[v].reserved, q[v]) \in Nat
      BY <1>t, LessNat
    <3> QED
      BY <1>t, <3>1 DEF Commit, Row
  <2> QED
    BY <2>1 DEF Commit, StockLevels
<1>3. ReleaseCommitted(levels, q) \in StockLevels
  <2>1. ASSUME NEW v \in Variants PROVE ReleaseCommitted(levels, q)[v] \in Row
    <3>1. Less(levels[v].committed, q[v]) \in Nat
      BY <1>t, LessNat
    <3> QED
      BY <1>t, <3>1 DEF ReleaseCommitted, Row
  <2> QED
    BY <2>1 DEF ReleaseCommitted, StockLevels
<1>4. ConfirmSale(levels, q) \in StockLevels
  <2>1. ASSUME NEW v \in Variants PROVE ConfirmSale(levels, q)[v] \in Row
    <3>1. Less(levels[v].committed, q[v]) \in Nat
      BY <1>t, LessNat
    <3> QED
      BY <1>t, <3>1 DEF ConfirmSale, Row
  <2> QED
    BY <2>1 DEF ConfirmSale, StockLevels
<1> QED
  BY <1>1, <1>2, <1>3, <1>4 DEF Moved

LEMMA ReserveType ==
    ASSUME NEW levels \in StockLevels, NEW q \in Claim, CanReserve(levels, q)
    PROVE  Reserve(levels, q) \in StockLevels
BY DEF Reserve, CanReserve, StockLevels, Row, Claim

LEMMA AdjustedType ==
    ASSUME NEW levels \in StockLevels, NEW v \in Variants, NEW d \in Int,
           CanAdjust(levels, v, d)
    PROVE  Adjusted(levels, v, d) \in StockLevels
BY DEF Adjusted, CanAdjust, StockLevels, Row

-----------------------------------------------------------------------------
(* How many units a set of orders holds. *)

Held(S, v) == Cardinality(Units(S, v))

(* The units of one order in one variant are as many as its claim says. *)
LEMMA OneClaim ==
    ASSUME NEW o \in Orders, NEW v \in Variants
    PROVE  /\ Lines[o][v] \in Nat
           /\ IsFiniteSet({o} \X (1 .. Lines[o][v]))
           /\ Cardinality({o} \X (1 .. Lines[o][v])) = Lines[o][v]
<1> DEFINE n == Lines[o][v]
<1>1. n \in Nat
  BY LinesAssumption DEF Claim
<1> HIDE DEF n
<1>2. IsFiniteSet(1 .. n) /\ Cardinality(1 .. n) = n
  <2>1. 1 \in Int /\ n \in Int
    BY <1>1
  <2>2. IsFiniteSet(1 .. n) /\ Cardinality(1 .. n) = IF 1 > n THEN 0 ELSE n - 1 + 1
    BY <2>1, FS_Interval, Zenon
  <2> QED
    BY <1>1, <2>2
<1>3. IsFiniteSet({o}) /\ Cardinality({o}) = 1
  BY FS_Singleton
<1>4. /\ IsFiniteSet({o} \X (1 .. n))
      /\ Cardinality({o} \X (1 .. n)) = 1 * n
  BY ZenonT(40), <1>2, <1>3, FS_Product
<1> QED
  BY <1>1, <1>4 DEF n

(* The units of finitely many orders are finitely many. *)
LEMMA HeldFinite ==
    ASSUME NEW S \in SUBSET Orders, NEW v \in Variants
    PROVE  IsFiniteSet(Units(S, v)) /\ Held(S, v) \in Nat
<1> DEFINE claims == {{o} \X (1 .. Lines[o][v]) : o \in S}
           f == [o \in S |-> {o} \X (1 .. Lines[o][v])]
<1>1. IsFiniteSet(S)
  BY OrdersAssumption, FS_Subset
<1>2. f \in Surjection(S, claims)
  BY DEF Surjection
<1>3. IsFiniteSet(claims)
  BY <1>1, <1>2, FS_Surjection
<1>4. \A c \in claims : IsFiniteSet(c)
  BY OneClaim
<1>5. IsFiniteSet(UNION claims)
  BY <1>3, <1>4, FS_UNION
<1> QED
  BY <1>5, FS_CardinalityType DEF Units, Held

(* An order that joins or leaves a set brings or takes exactly its claim. *)
LEMMA HeldAdd ==
    ASSUME NEW S \in SUBSET Orders, NEW o \in Orders, o \notin S, NEW v \in Variants
    PROVE  Held(S \cup {o}, v) = Held(S, v) + Lines[o][v]
<1> DEFINE c == {o} \X (1 .. Lines[o][v])
<1>1. Units(S \cup {o}, v) = Units(S, v) \cup c
  BY DEF Units
<1>2. Units(S, v) \cap c = {}
  BY DEF Units
<1>3. Cardinality(Units(S, v) \cap c) = 0
  BY <1>2, FS_EmptySet
<1>4. IsFiniteSet(Units(S, v)) /\ Held(S, v) \in Nat
  BY HeldFinite
<1>5. IsFiniteSet(c) /\ Cardinality(c) = Lines[o][v] /\ Lines[o][v] \in Nat
  BY OneClaim
<1>6. Cardinality(Units(S, v) \cup c) =
         Cardinality(Units(S, v)) + Cardinality(c) - Cardinality(Units(S, v) \cap c)
  BY <1>4, <1>5, FS_Union
<1>7. Held(S \cup {o}, v) = Cardinality(Units(S, v) \cup c)
  BY <1>1 DEF Held
<1>8. Held(S, v) = Cardinality(Units(S, v))
  BY DEF Held
<1> HIDE DEF c
<1> QED
  BY <1>3, <1>4, <1>5, <1>6, <1>7, <1>8

\* The orders with some status after the step.
WithNext(X) == {p \in Orders : status'[p] \in X}

(* What the units of the orders with some statuses become when the status  *)
(* of one order changes.                                                   *)
LEMMA HeldMoves ==
    ASSUME status \in [Orders -> Statuses \cup {"none"}],
           NEW o \in Orders, \A p \in Orders : p # o => status'[p] = status[p],
           NEW X, NEW v \in Variants
    PROVE  /\ Held(With(X), v) \in Nat
           /\ Lines[o][v] \in Nat
           /\ status[o] \in X => Held(With(X), v) >= Lines[o][v]
           /\ Held(WithNext(X), v) =
                IF status'[o] \in X
                THEN IF status[o] \in X THEN Held(With(X), v) ELSE Held(With(X), v) + Lines[o][v]
                ELSE IF status[o] \in X THEN Held(With(X), v) - Lines[o][v] ELSE Held(With(X), v)
<1> DEFINE S == With(X)
           T == WithNext(X)
<1>1. S \in SUBSET Orders /\ S \ {o} \in SUBSET Orders /\ T \in SUBSET Orders
  BY DEF With, WithNext
<1>2. T = IF status'[o] \in X THEN S \cup {o} ELSE S \ {o}
  BY DEF With, WithNext
<1>3. o \in S <=> status[o] \in X
  BY DEF With
<1>5. Held(S, v) \in Nat /\ Held(S \ {o}, v) \in Nat /\ Lines[o][v] \in Nat
  BY <1>1, HeldFinite, OneClaim
<1>6. o \notin S => Held(S \cup {o}, v) = Held(S, v) + Lines[o][v]
  BY <1>1, HeldAdd
<1>7. o \in S => Held(S, v) = Held(S \ {o}, v) + Lines[o][v]
  <2>1. ASSUME o \in S PROVE (S \ {o}) \cup {o} = S
    BY <2>1
  <2>2. Held((S \ {o}) \cup {o}, v) = Held(S \ {o}, v) + Lines[o][v]
    BY <1>1, HeldAdd
  <2> QED
    BY <2>1, <2>2
<1>8. (o \in S => S \cup {o} = S) /\ (o \notin S => S \ {o} = S)
  OBVIOUS
<1> HIDE DEF S, T
<1>9. status[o] \in X => Held(S, v) >= Lines[o][v]
  BY <1>3, <1>5, <1>7
<1>10. Held(T, v) =
         IF status'[o] \in X
         THEN IF status[o] \in X THEN Held(S, v) ELSE Held(S, v) + Lines[o][v]
         ELSE IF status[o] \in X THEN Held(S, v) - Lines[o][v] ELSE Held(S, v)
  <2>1. CASE status'[o] \in X
    BY <1>2, <1>3, <1>6, <1>8, <2>1
  <2>2. CASE status'[o] \notin X /\ status[o] \in X
    <3>1. T = S \ {o} /\ o \in S
      BY <1>2, <1>3, <2>2
    <3>2. Held(S \ {o}, v) = Held(S, v) - Lines[o][v]
      BY <1>5, <1>7, <3>1
    <3> QED
      BY <2>2, <3>1, <3>2
  <2>3. CASE status'[o] \notin X /\ status[o] \notin X
    BY <1>2, <1>3, <1>8, <2>3
  <2> QED
    BY <2>1, <2>2, <2>3
<1> QED
  BY <1>5, <1>9, <1>10 DEF S, T

-----------------------------------------------------------------------------
(* Type correctness. *)

LEMMA InitType == Init => TypeOK
BY StockAssumption DEF Init, TypeOK, StockLevels, Row

LEMMA StepType == TypeOK /\ [Next]_vars => TypeOK'
<1> SUFFICES ASSUME TypeOK, [Next]_vars PROVE TypeOK'
  OBVIOUS
<1> USE DEF TypeOK
<1>c. \A o \in Orders : Lines[o] \in Claim
  BY LinesAssumption
<1>1. ASSUME NEW o \in Orders, Place(o) PROVE TypeOK'
  BY <1>1, <1>c, ReserveType DEF Place, Cancellable, Statuses
<1>2. ASSUME NEW o \in Orders, NEW s \in Statuses, Advance(o, s) PROVE TypeOK'
  <2>1. stock' \in StockLevels
    BY <1>2, <1>c, MovedType DEF Advance
  <2> QED
    BY <1>2, <2>1 DEF Advance
<1>3. ASSUME NEW o \in Orders, Restore(o) PROVE TypeOK'
  BY <1>3, <1>c, ReserveType DEF Restore, Statuses
<1>4. ASSUME NEW v \in Variants, NEW d \in Deltas, Adjust(v, d) PROVE TypeOK'
  BY <1>4, DeltasAssumption, AdjustedType DEF Adjust
<1>5. ASSUME UNCHANGED vars PROVE TypeOK'
  BY <1>5 DEF vars
<1> QED
  BY <1>1, <1>2, <1>3, <1>4, <1>5 DEF Next

(* Every variable of the lifecycle keeps its type; in particular no bucket *)
(* ever goes below zero, whatever is bought, restored or corrected.        *)
THEOREM TypeCorrect == Spec => []TypeOK
BY InitType, StepType, PTL DEF Spec

-----------------------------------------------------------------------------
(* Stock accounting.  The bucket movements clamp at zero; the invariant is  *)
(* what makes the clamp never bite: an order's units are in the bucket its  *)
(* status says.                                                             *)

(* The exact effect of a legal transition on one row. *)
LEMMA MovedExactly ==
    ASSUME NEW levels \in StockLevels, NEW q \in Claim, NEW v \in Variants,
           NEW prev \in Statuses, NEW next \in AllowedTransitions[prev],
           prev \in InReserved => levels[v].reserved >= q[v],
           prev \in InCommitted => levels[v].committed >= q[v]
    PROVE  /\ Moved(levels, q, prev, next)[v].reserved =
                IF prev \in InReserved /\ next \notin InReserved
                THEN levels[v].reserved - q[v] ELSE levels[v].reserved
           /\ Moved(levels, q, prev, next)[v].committed =
                IF prev \in InCommitted
                THEN IF next \in InCommitted THEN levels[v].committed
                     ELSE levels[v].committed - q[v]
                ELSE IF next \in InCommitted THEN levels[v].committed + q[v]
                     ELSE levels[v].committed
           /\ prev \notin InReserved => next \notin InReserved
<1>1. /\ levels[v].reserved \in Nat /\ levels[v].committed \in Nat
      /\ q[v] \in Nat
  BY DEF StockLevels, Row, Claim
<1>2. \A n, m \in Nat : n >= m => Less(n, m) = n - m
  BY DEF Less
<1>3. CASE prev \in {"draft", "pending"}
  <2>1. next \in {"awaiting_payment", "cancelled"}
    BY <1>3 DEF AllowedTransitions
  <2> QED
    BY <1>1, <1>2, <1>3, <2>1 DEF Moved, Release, InReserved, InCommitted
<1>4. CASE prev = "awaiting_payment"
  <2>1. next \in {"paid", "cancelled"}
    BY <1>4 DEF AllowedTransitions
  <2> QED
    BY <1>1, <1>2, <1>4, <2>1 DEF Moved, Release, Commit, InReserved, InCommitted
<1>5. CASE prev \in {"paid", "processing"}
  <2>1. /\ next \in {"processing", "shipped", "cancelled", "refunded"}
        /\ prev = "paid" => next # "shipped"
    BY <1>5 DEF AllowedTransitions
  <2> QED
    BY <1>1, <1>2, <1>5, <2>1 DEF Moved, ReleaseCommitted, ConfirmSale, InReserved, InCommitted
<1>6. CASE prev \in {"shipped", "delivered"}
  <2>1. next \in {"delivered", "refunded"}
    BY <1>6 DEF AllowedTransitions
  <2> QED
    BY <1>6, <2>1 DEF Moved, InReserved, InCommitted
<1>7. CASE prev \in {"cancelled", "refunded"}
  BY <1>7 DEF AllowedTransitions
<1> QED
  BY <1>3, <1>4, <1>5, <1>6, <1>7 DEF Statuses

LEMMA InitStock == Init => StockMatchesOrders
<1> SUFFICES ASSUME Init, NEW v \in Variants
             PROVE  /\ stock[v].reserved = Cardinality(Units(With(InReserved), v))
                    /\ stock[v].committed = Cardinality(Units(With(InCommitted), v))
  BY DEF StockMatchesOrders
<1>1. With(InReserved) = {} /\ With(InCommitted) = {}
  BY DEF With, Init, InReserved, InCommitted
<1>2. Units({}, v) = {}
  BY DEF Units
<1>3. stock[v].reserved = 0 /\ stock[v].committed = 0
  BY StockAssumption DEF Init
<1> QED
  BY <1>1, <1>2, <1>3, FS_EmptySet

LEMMA StepStock ==
    TypeOK /\ StockMatchesOrders /\ [Next]_vars => StockMatchesOrders'
<1> SUFFICES ASSUME TypeOK, StockMatchesOrders, [Next]_vars, NEW v \in Variants
             PROVE  /\ stock'[v].reserved = Held(WithNext(InReserved), v)
                    /\ stock'[v].committed = Held(WithNext(InCommitted), v)
  BY DEF StockMatchesOrders, Held, Units, With, WithNext
<1>t. /\ status \in [Orders -> Statuses \cup {"none"}]
      /\ stock \in StockLevels
      /\ \A o \in Orders : Lines[o] \in Claim
  BY LinesAssumption DEF TypeOK
<1>s. /\ stock[v].reserved = Held(With(InReserved), v)
      /\ stock[v].committed = Held(With(InCommitted), v)
  BY DEF StockMatchesOrders, Held
<1>1. ASSUME NEW o \in Orders, status[o] \in {"none", "cancelled"},
             NEW s \in InReserved, status' = [status EXCEPT ![o] = s],
             stock' = Reserve(stock, Lines[o])
      PROVE  /\ stock'[v].reserved = Held(WithNext(InReserved), v)
             /\ stock'[v].committed = Held(WithNext(InCommitted), v)
  <2>1. Held(WithNext(InReserved), v) = Held(With(InReserved), v) + Lines[o][v]
    <3>1. /\ status'[o] \in InReserved /\ status[o] \notin InReserved
          /\ \A p \in Orders : p # o => status'[p] = status[p]
      BY <1>t, <1>1 DEF InReserved
    <3> QED
      BY <1>t, <3>1, HeldMoves
  <2>2. Held(WithNext(InCommitted), v) = Held(With(InCommitted), v)
    <3>1. /\ status'[o] \notin InCommitted /\ status[o] \notin InCommitted
          /\ \A p \in Orders : p # o => status'[p] = status[p]
      BY <1>t, <1>1 DEF InReserved, InCommitted
    <3> QED
      BY <1>t, <3>1, HeldMoves
  <2>3. /\ stock'[v].reserved = stock[v].reserved + Lines[o][v]
        /\ stock'[v].committed = stock[v].committed
    BY <1>1 DEF Reserve
  <2> QED
    BY <1>s, <2>1, <2>2, <2>3
<1>2. ASSUME NEW o \in Orders, Place(o)
      PROVE  /\ stock'[v].reserved = Held(WithNext(InReserved), v)
             /\ stock'[v].committed = Held(WithNext(InCommitted), v)
  BY <1>1, <1>2 DEF Place, Cancellable, InReserved
<1>3. ASSUME NEW o \in Orders, Restore(o)
      PROVE  /\ stock'[v].reserved = Held(WithNext(InReserved), v)
             /\ stock'[v].committed = Held(WithNext(InCommitted), v)
  BY <1>1, <1>3 DEF Restore, InReserved
<1>4. ASSUME NEW o \in Orders, NEW s \in Statuses, Advance(o, s)
      PROVE  /\ stock'[v].reserved = Held(WithNext(InReserved), v)
             /\ stock'[v].committed = Held(WithNext(InCommitted), v)
  <2>1. /\ status[o] \in Statuses /\ s \in AllowedTransitions[status[o]]
        /\ status' = [status EXCEPT ![o] = s]
        /\ stock' = Moved(stock, Lines[o], status[o], s)
    BY <1>4 DEF Advance
  <2>2. \A X :
          /\ Held(With(X), v) \in Nat
          /\ Lines[o][v] \in Nat
          /\ status[o] \in X => Held(With(X), v) >= Lines[o][v]
          /\ Held(WithNext(X), v) =
               IF s \in X
               THEN IF status[o] \in X THEN Held(With(X), v) ELSE Held(With(X), v) + Lines[o][v]
               ELSE IF status[o] \in X THEN Held(With(X), v) - Lines[o][v] ELSE Held(With(X), v)
    <3>1. status'[o] = s /\ \A p \in Orders : p # o => status'[p] = status[p]
      BY <1>t, <2>1
    <3> QED
      BY <1>t, <3>1, HeldMoves
  <2>3. /\ status[o] \in InReserved => stock[v].reserved >= Lines[o][v]
        /\ status[o] \in InCommitted => stock[v].committed >= Lines[o][v]
    BY <1>s, <2>2
  <2>4. /\ stock'[v].reserved =
             IF status[o] \in InReserved /\ s \notin InReserved
             THEN stock[v].reserved - Lines[o][v] ELSE stock[v].reserved
        /\ stock'[v].committed =
             IF status[o] \in InCommitted
             THEN IF s \in InCommitted THEN stock[v].committed
                  ELSE stock[v].committed - Lines[o][v]
             ELSE IF s \in InCommitted THEN stock[v].committed + Lines[o][v]
                  ELSE stock[v].committed
        /\ status[o] \notin InReserved => s \notin InReserved
    BY <1>t, <2>1, <2>3, MovedExactly
  <2>5. stock'[v].reserved = Held(WithNext(InReserved), v)
    BY <1>s, <2>2, <2>4
  <2>6. stock'[v].committed = Held(WithNext(InCommitted), v)
    BY <1>s, <2>2, <2>4
  <2> QED
    BY <2>5, <2>6
<1>5. ASSUME NEW u \in Variants, NEW d \in Deltas, Adjust(u, d)
      PROVE  /\ stock'[v].reserved = Held(WithNext(InReserved), v)
             /\ stock'[v].committed = Held(WithNext(InCommitted), v)
  <2>1. /\ stock'[v].reserved = stock[v].reserved
        /\ stock'[v].committed = stock[v].committed
    BY <1>5, <1>t DEF Adjust, Adjusted, StockLevels, Row
  <2>2. status' = status
    BY <1>5 DEF Adjust
  <2> QED
    BY <1>s, <2>1, <2>2 DEF With, WithNext
<1>6. ASSUME UNCHANGED vars
      PROVE  /\ stock'[v].reserved = Held(WithNext(InReserved), v)
             /\ stock'[v].committed = Held(WithNext(InCommitted), v)
  BY <1>s, <1>6 DEF vars, With, WithNext
<1> QED
  BY <1>2, <1>3, <1>4, <1>5, <1>6 DEF Next

(* The reserved and committed buckets of every variant are exactly the      *)
(* units of the unpaid and of the paid, unshipped orders: no cancellation,  *)
(* refund, restoration or shipment leaks or doubles a unit.                 *)
THEOREM StockCorrect == Spec => []StockMatchesOrders
<1>1. Init => TypeOK /\ StockMatchesOrders
  BY InitType, InitStock
<1>2. TypeOK /\ StockMatchesOrders /\ [Next]_vars => TypeOK' /\ StockMatchesOrders'
  BY StepType, StepStock
<1> QED
  BY <1>1, <1>2, PTL DEF Spec

-----------------------------------------------------------------------------
(* Counting. *)

\* A revivable order is cancelled and was never paid; this is what stops a
\* restored order from being counted again.
RevivableUnpaid == \A o \in revivable : status[o] = "cancelled" /\ uses[o] = 0

CountInv == TypeOK /\ CountedOnce /\ RevivableUnpaid

LEMMA StepCount == CountInv /\ [Next]_vars => CountInv'
<1> SUFFICES ASSUME CountInv, [Next]_vars PROVE CountedOnce' /\ RevivableUnpaid'
  BY StepType DEF CountInv
<1> USE DEF CountInv, TypeOK, CountedOnce, RevivableUnpaid
<1>1. ASSUME NEW o \in Orders, Place(o) PROVE CountedOnce' /\ RevivableUnpaid'
  BY <1>1 DEF Place, Cancellable, InReserved, Refundable
<1>2. ASSUME NEW o \in Orders, Restore(o) PROVE CountedOnce' /\ RevivableUnpaid'
  BY <1>2 DEF Restore, InReserved, Refundable
<1>3. ASSUME NEW o \in Orders, NEW s \in Statuses, Advance(o, s)
      PROVE  CountedOnce' /\ RevivableUnpaid'
  <2>1. /\ status[o] \in InReserved => s \in {"awaiting_payment", "paid", "cancelled"}
        /\ status[o] \in Refundable => s \in Refundable \cup {"cancelled", "refunded"}
        /\ s = "paid" => status[o] \in InReserved
        /\ s \in Refundable /\ s # "paid" => status[o] \in Refundable
        /\ status[o] \notin {"cancelled", "refunded", "none"}
        /\ status[o] \in InReserved \cup Refundable
    BY <1>3 DEF Advance, AllowedTransitions, Statuses, InReserved, Refundable
  <2>2. \A p \in Orders : p # o => status'[p] = status[p] /\ uses'[p] = uses[p]
    BY <1>3 DEF Advance
  <2>3. status'[o] = s /\ uses'[o] = IF s = "paid" THEN uses[o] + 1 ELSE uses[o]
    BY <1>3 DEF Advance
  <2>4. CountedOnce'
    <3> SUFFICES ASSUME NEW p \in Orders
                 PROVE  /\ uses'[p] <= 1
                        /\ status'[p] \in {"none"} \cup InReserved => uses'[p] = 0
                        /\ status'[p] \in Refundable => uses'[p] = 1
      OBVIOUS
    <3>1. CASE p # o
      BY <2>2, <3>1
    <3>2. CASE p = o
      <4>1. /\ uses[o] \in Nat
            /\ status[o] \in InReserved => uses[o] = 0
            /\ status[o] \in Refundable => uses[o] = 1
        OBVIOUS
      <4> QED
        BY <2>1, <2>3, <3>2, <4>1 DEF InReserved, Refundable
    <3> QED
      BY <3>1, <3>2
  <2>5. RevivableUnpaid'
    <3>1. o \notin revivable
      BY <2>1
    <3>2. revivable' \in {revivable, revivable \cup {o}}
      BY <1>3 DEF Advance
    <3>3. o \in revivable' => s = "cancelled" /\ status[o] \in Cancellable
      BY <1>3, <3>1 DEF Advance
    <3>4. o \in revivable' => status'[o] = "cancelled" /\ uses'[o] = 0
      BY <2>3, <3>3 DEF Cancellable, InReserved
    <3> QED
      BY <2>2, <3>1, <3>2, <3>4
  <2> QED
    BY <2>4, <2>5
<1>4. ASSUME NEW v \in Variants, NEW d \in Deltas, Adjust(v, d)
      PROVE  CountedOnce' /\ RevivableUnpaid'
  BY <1>4 DEF Adjust
<1>5. ASSUME UNCHANGED vars PROVE CountedOnce' /\ RevivableUnpaid'
  BY <1>5 DEF vars
<1> QED
  BY <1>1, <1>2, <1>3, <1>4, <1>5 DEF Next

(* Each order adds one to the coupon counter and to the customer's          *)
(* statistics when it is paid, and never again: not after a refund, nor     *)
(* after a cancellation that a late payment undid.                          *)
THEOREM CountCorrect == Spec => []CountedOnce
<1>1. Init => CountInv
  <2>1. Init => CountedOnce /\ RevivableUnpaid
    BY DEF Init, CountedOnce, RevivableUnpaid, InReserved, Refundable
  <2> QED
    BY <2>1, InitType DEF CountInv
<1>2. CountInv => CountedOnce
  BY DEF CountInv
<1> QED
  BY <1>1, <1>2, StepCount, PTL DEF Spec
=============================================================================
