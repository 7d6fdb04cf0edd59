------------------------------ MODULE Shelves ------------------------------
(***************************************************************************)
(* Categories, their filters and the products filed under them             *)
(* (CategoriesService, CategoryFiltersService, ProductsService.update).    *)
(* A product that joins a category is given the default of each of its     *)
(* filters, a filter that is made is given to every product of its         *)
(* category, and a shopper narrows the category by its filters' values.    *)
(* A call is cut where it awaits; a statement or a transaction is a step.  *)
(***************************************************************************)
EXTENDS Integers, FiniteSetsExt

CONSTANTS
    Categories, Products,
    Filters, Values,    \* each filter's values are among these
    Admins, Kinds,      \* what each admin does: "product", "filter", "category"
    MaxCalls            \* bound

None == "none"
Root == "root"
Idle == [do |-> "idle"]

VARIABLES
    parent,    \* category -> its parent, Root, or None once removed
    filter,    \* filter -> its category and whether it is active
    value,     \* filter -> its values, TRUE for a default
    cats,      \* product -> its categories
    primary,   \* product -> its primary category
    pv,        \* ProductFilterValue rows: <<product, filter, value>>
    call, calls,
    \* history
    unfilled,  \* <<p, f>>: no default to give, its value deleted, a call failed
    crossed    \* products whose row was saved beside another call

vars == <<parent, filter, value, cats, primary, pv, call, calls, unfilled, crossed>>

Live == {c \in Categories : parent[c] # None}
Made == {f \in Filters : filter[f].cat # None}
Of(c) == {f \in Made : filter[f].cat = c}
Vals(f) == DOMAIN value[f]
Default(f) == {v \in Vals(f) : value[f][v]}
Has(p, f) == \E v \in Values : <<p, f, v>> \in pv

Init ==
    /\ parent = [c \in Categories |-> Root]
    /\ filter = [f \in Filters |-> [cat |-> None, active |-> FALSE]]
    /\ value = [f \in Filters |-> <<>>]
    /\ cats = [p \in Products |-> {}] /\ primary = [p \in Products |-> None]
    /\ pv = {} /\ call = [a \in Admins |-> Idle] /\ calls = 0
    /\ unfilled = {} /\ crossed = {}

Begin(a, k) == call[a] = Idle /\ k \in Kinds[a] /\ calls < MaxCalls /\ calls' = calls + 1
Becomes(a, c) == call' = [call EXCEPT ![a] = c]
Others(a) == \E b \in Admins \ {a} : call[b] # Idle
tree == <<parent, filter, value>>
rows == <<cats, primary, pv>>

-----------------------------------------------------------------------------
(* ProductsService.update.                                                 *)

\* The primary category is always among the categories of a save.
mergeCategoryIds(ids, prime) == IF prime = None THEN ids ELSE ids \cup {prime}

\* What is sent: categories, or the primary one, or both, and a value the admin
\* picked for a filter of theirs.
update(a, p) ==
    /\ Begin(a, "product")
    /\ \E sendsCats, sendsPrime \in BOOLEAN, ids \in SUBSET Live, prime \in Live \cup {None} :
         /\ sendsCats \/ sendsPrime
         /\ LET final == mergeCategoryIds(IF sendsCats THEN ids ELSE cats[p], IF sendsPrime THEN prime ELSE primary[p]) IN
            \E pick \in {<<>>} \cup UNION {{<<f, v>> : v \in Vals(f)} : f \in UNION {Of(c) : c \in final}} :
              Becomes(a, [do |-> "save", p |-> p, was |-> cats[p], final |-> final,
                          prime |-> IF sendsPrime THEN {prime} ELSE {}, pick |-> pick, give |-> {}])
    /\ crossed' = IF Others(a) THEN crossed \cup {p} ELSE crossed
    /\ UNCHANGED <<tree, rows, unfilled>>
\* A category removed meanwhile fails the save.
Save(a) ==
    LET c == call[a] IN
    /\ c.do = "save"
    /\ IF c.final \cup (c.prime \ {None}) \subseteq Live
       THEN /\ cats' = [cats EXCEPT ![c.p] = c.final]
            /\ primary' = IF c.prime = {} THEN primary ELSE [primary EXCEPT ![c.p] = CHOOSE x \in c.prime : TRUE]
            /\ Becomes(a, [c EXCEPT !.do = "find"])
       ELSE UNCHANGED <<cats, primary>> /\ Becomes(a, Idle)
    /\ crossed' = IF Others(a) THEN crossed \cup {c.p} ELSE crossed
    /\ UNCHANGED <<tree, pv, calls, unfilled>>

\* applyDefaultCategoryFiltersInPlace: the active filters of the categories it
\* gained, with a default; then the rows, but for filters it has a value of.
Gained(c) == UNION {Of(x) : x \in c.final \ c.was}
FindDefaults(a) ==
    LET c == call[a]
        fs == {f \in Gained(c) : filter[f].active /\ Default(f) # {}} IN
    /\ c.do = "find"
    /\ \E pick \in [fs -> Values] :
         /\ \A f \in fs : pick[f] \in Default(f)
         /\ Becomes(a, [c EXCEPT !.do = "give", !.give = {<<c.p, f, pick[f]>> : f \in fs}])
    /\ unfilled' = unfilled \cup {<<c.p, f>> : f \in {g \in Gained(c) : ~ Has(c.p, g)} \ fs}
    /\ UNCHANGED <<tree, rows, calls, crossed>>
Fresh(R) == {r \in R : ~ Has(r[1], r[2])}
Valid(R) == \A r \in R : r[3] \in Vals(r[2])
\* A default deleted meanwhile fails the call.
GiveDefaults(a) ==
    LET c == call[a] IN
    /\ c.do = "give"
    /\ IF Valid(c.give)
       THEN /\ pv' = pv \cup Fresh(c.give)
            /\ Becomes(a, [c EXCEPT !.do = "drop"]) /\ UNCHANGED unfilled
       ELSE /\ Becomes(a, Idle) /\ UNCHANGED pv
            /\ unfilled' = unfilled \cup {<<c.p, r[2]>> : r \in Fresh(c.give)}
    /\ UNCHANGED <<tree, cats, primary, calls, crossed>>

\* The values of the categories it lost go, and the picks win.
Lost(c) == c.was \ c.final
DropLost(a) ==
    LET c == call[a] IN
    /\ c.do = "drop"
    /\ pv' = {r \in pv : ~ (r[1] = c.p /\ filter[r[2]].cat \in Lost(c))}
    /\ Becomes(a, [c EXCEPT !.do = "pick"])
    /\ UNCHANGED <<tree, cats, primary, calls, unfilled, crossed>>
Pick(a) ==
    LET c == call[a] IN
    /\ c.do = "pick"
    /\ pv' = IF c.pick # <<>> /\ c.pick[2] \in Vals(c.pick[1])
             THEN {r \in pv : ~ (r[1] = c.p /\ r[2] = c.pick[1])} \cup {<<c.p, c.pick[1], c.pick[2]>>} ELSE pv
    /\ Becomes(a, Idle)
    /\ UNCHANGED <<tree, cats, primary, calls, unfilled, crossed>>

-----------------------------------------------------------------------------
(* CategoryFiltersService.                                                 *)

\* createFilter: the filter with its values, the flagged one or the first the
\* default, in a transaction; then the products of the category, then the rows.
createFilter(a, f) ==
    /\ Begin(a, "filter") /\ filter[f].cat = None
    /\ \E c \in Live, act \in BOOLEAN, vs \in SUBSET Values \ {{}}, v \in Values :
         /\ v \in vs
         /\ filter' = [filter EXCEPT ![f] = [cat |-> c, active |-> act]]
         /\ value' = [value EXCEPT ![f] = [x \in vs |-> x = v]]
         /\ Becomes(a, [do |-> "members", f |-> f, v |-> v, give |-> {}])
    /\ UNCHANGED <<parent, rows, unfilled, crossed>>
Members(a) ==
    LET c == call[a] IN
    /\ c.do = "members"
    /\ Becomes(a, [c EXCEPT !.do = "backfill", !.give = {<<p, c.f, c.v>> : p \in {q \in Products : filter[c.f].cat \in cats[q]}}])
    /\ crossed' = IF Others(a) THEN Products ELSE crossed
    /\ UNCHANGED <<tree, rows, calls, unfilled>>
Backfill(a) ==
    LET c == call[a] IN
    /\ c.do = "backfill"
    /\ IF Valid(c.give) THEN pv' = pv \cup Fresh(c.give) /\ UNCHANGED unfilled
       ELSE UNCHANGED pv /\ unfilled' = unfilled \cup {<<r[1], r[2]>> : r \in c.give}
    /\ crossed' = IF Others(a) THEN Products ELSE crossed
    /\ Becomes(a, Idle)
    /\ UNCHANGED <<tree, cats, primary, calls>>

updateFilter(a, f) ==
    /\ Begin(a, "filter") /\ filter[f].cat # None
    /\ filter' = [filter EXCEPT ![f].active = ~ @]
    /\ UNCHANGED <<parent, value, rows, call, unfilled, crossed>>
deleteFilter(a, f) ==
    /\ Begin(a, "filter") /\ filter[f].cat # None
    /\ filter' = [filter EXCEPT ![f].cat = None] /\ value' = [value EXCEPT ![f] = <<>>]
    /\ pv' = {r \in pv : r[2] # f} /\ unfilled' = {u \in unfilled : u[2] # f}
    /\ UNCHANGED <<parent, cats, primary, call, crossed>>
\* A value is added, or made the default or not, or deleted with its rows.
With(f, v, d) ==
    value' = [value EXCEPT ![f] = [x \in DOMAIN @ \cup {v} |-> IF x = v THEN d ELSE ~ d /\ value[f][x]]]
addValue(a, f, v) ==
    /\ Begin(a, "filter") /\ filter[f].cat # None /\ v \notin Vals(f)
    /\ \E d \in BOOLEAN : With(f, v, d)
    /\ UNCHANGED <<parent, filter, rows, call, unfilled, crossed>>
updateValue(a, f, v) ==
    /\ Begin(a, "filter") /\ v \in Vals(f)
    /\ \E d \in BOOLEAN : With(f, v, d)
    /\ UNCHANGED <<parent, filter, rows, call, unfilled, crossed>>
deleteValue(a, f, v) ==
    /\ Begin(a, "filter") /\ v \in Vals(f)
    /\ value' = [value EXCEPT ![f] = [x \in Vals(f) \ {v} |-> value[f][x]]]
    /\ pv' = {r \in pv : <<r[2], r[3]>> # <<f, v>>}
    /\ unfilled' = unfilled \cup {<<r[1], f>> : r \in {s \in pv : <<s[2], s[3]>> = <<f, v>>}}
    /\ UNCHANGED <<parent, filter, cats, primary, call, crossed>>

-----------------------------------------------------------------------------
(* CategoriesService: a category is made, moved under any other, or removed *)
(* once it has no children.                                                *)

createCategory(a, c) ==
    /\ Begin(a, "category") /\ parent[c] = None
    /\ \E q \in Live \cup {Root} : parent' = [parent EXCEPT ![c] = q]
    /\ UNCHANGED <<filter, value, rows, call, unfilled, crossed>>
updateCategory(a, c) ==
    /\ Begin(a, "category") /\ parent[c] # None
    /\ \E q \in (Live \ {c}) \cup {Root} : parent' = [parent EXCEPT ![c] = q]
    /\ UNCHANGED <<filter, value, rows, call, unfilled, crossed>>
removeCategory(a, c) ==
    /\ Begin(a, "category") /\ parent[c] # None /\ \A d \in Live : parent[d] # c
    /\ parent' = [parent EXCEPT ![c] = None]
    /\ filter' = [f \in Filters |-> IF filter[f].cat = c THEN [filter[f] EXCEPT !.cat = None] ELSE filter[f]]
    /\ value' = [f \in Filters |-> IF filter[f].cat = c THEN <<>> ELSE value[f]]
    /\ cats' = [p \in Products |-> cats[p] \ {c}]
    /\ primary' = [p \in Products |-> IF primary[p] = c THEN None ELSE primary[p]]
    /\ pv' = {r \in pv : filter[r[2]].cat # c}
    /\ unfilled' = {u \in unfilled : filter[u[2]].cat # c}
    /\ UNCHANGED <<call, crossed>>

Next ==
    \E a \in Admins :
        \/ Save(a) \/ FindDefaults(a) \/ GiveDefaults(a) \/ DropLost(a) \/ Pick(a) \/ Members(a) \/ Backfill(a)
        \/ \E p \in Products : update(a, p)
        \/ \E f \in Filters : createFilter(a, f) \/ updateFilter(a, f) \/ deleteFilter(a, f)
        \/ \E f \in Filters, v \in Values : addValue(a, f, v) \/ updateValue(a, f, v) \/ deleteValue(a, f, v)
        \/ \E c \in Categories : createCategory(a, c) \/ updateCategory(a, c) \/ removeCategory(a, c)

Spec == Init /\ [][Next]_vars

-----------------------------------------------------------------------------
(* The storefront.                                                         *)

\* categorySubtreeIds, level by level; where categories are each other's
\* parents the query has no end.
Levels[c \in Categories, n \in 0 .. Cardinality(Categories)] ==
    IF n = 0 THEN {c} ELSE {d \in Live : parent[d] \in Levels[c, n - 1]}
Endless(c) == Levels[c, Cardinality(Categories)] # {}
Subtree(c) == UNION {Levels[c, n] : n \in 0 .. Cardinality(Categories)}
Ancestors(c) == {d \in Live : c \in Subtree(d)}

\* The products of a category with one of the values chosen of each filter.
Listed(c, chosen) ==
    {p \in Products :
        /\ cats[p] \cap Subtree(c) # {}
        /\ \A f \in Filters : (\E v \in Values : <<f, v>> \in chosen) => \E v \in Values : <<f, v>> \in chosen /\ <<p, f, v>> \in pv}
All(f) == {<<f, v>> : v \in Vals(f)}

TypeOK ==
    /\ parent \in [Categories -> Categories \cup {Root, None}]
    /\ \A f \in Filters : filter[f].cat \in Categories \cup {None} /\ Vals(f) \subseteq Values
    /\ \A p \in Products : cats[p] \subseteq Live /\ primary[p] \in Live \cup {None}
    /\ \A r \in pv : r[1] \in Products /\ r[3] \in Vals(r[2])
    /\ calls \in 0 .. MaxCalls

\* A shopper finds every product: under its primary category and all the
\* categories above it (unless two calls crossed on the product), and under each
\* filter of its categories, by one of its values and never by two, whichever
\* way the making of the filter and the filing of the product cross; excepted
\* are filters that had no default to give and values deleted since.  A product
\* that left a category keeps no value of its filters, unless calls crossed.
FoundOnShelf ==
    /\ \A p \in Products \ crossed :
         primary[p] # None => \A c \in Ancestors(primary[p]) : Endless(c) \/ p \in Listed(c, {})
    /\ (\A a \in Admins : call[a] = Idle) => \A f \in Made : \A p \in Products :
         /\ filter[f].cat \in cats[p] /\ <<p, f>> \notin unfilled /\ ~ Endless(filter[f].cat)
              => p \in Listed(filter[f].cat, All(f))
         /\ filter[f].cat \notin cats[p] /\ p \notin crossed => ~ Has(p, f)
    /\ \A r, s \in pv : r[1] = s[1] /\ r[2] = s[2] => r = s
=============================================================================
