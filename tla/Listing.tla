------------------------------ MODULE Listing ------------------------------
(***************************************************************************)
(* What shoppers find of the catalogue while its products are edited       *)
(* (ProductsService, ProductSearchService, SearchIndexListener): the       *)
(* listing with its sale, its price filter and its pages, the search in    *)
(* the index or in PostgreSQL, the suggestions, and the promotion banner   *)
(* of the home page.                                                       *)
(*                                                                         *)
(* A handler of PRODUCT_UPDATED and a call of the admin are cut where they *)
(* wait.  Words, translations, tags and pictures are left out.             *)
(***************************************************************************)
EXTENDS Integers, FiniteSetsExt, SequencesExt

CONSTANTS
    Products, Edited,   \* products; those the admin edits
    VariantsOf,         \* their variants, in sortOrder
    Categories, Under,  \* categories, and the subtree of each
    Start,              \* variant -> its row at first
    Prices,             \* cents the admin types
    Admins,
    MaxEdits, MaxSyncs  \* bounds: the admins' calls, handlers at once

NoPrice == 0
Gone == [price |-> 0, was |-> 0, default |-> FALSE, here |-> FALSE]
NoDoc == [min |-> 0, cat |-> "none"]

VARIABLES
    product,   \* rows: status, deleted, base price, category
    variant,   \* rows: price (or inherited), compare-at price, default
    promoted,  \* products an active automatic promotion points at
    banner,    \* products the promotion banner lists
    index,     \* documents of the search index
    syncs,     \* handlers and removals under way
    call,      \* what each admin's call still has to do
    edits,
    \* history
    raced,     \* products whose handlers overlapped, or failed
    silent,    \* products changed since without an event
    excused    \* products that left the sale where no write prunes

vars == <<product, variant, promoted, banner, index, syncs, call, edits, raced, silent, excused>>
db == <<product, variant, promoted>>
hist == <<raced, silent, excused>>

Idle == [do |-> "idle", p |-> "none"]
Active(p) == product[p].here /\ product[p].status = "active" /\ ~ product[p].deleted

-----------------------------------------------------------------------------
(* Prices.                                                                 *)

Rows(p) == {v \in Range(VariantsOf[p]) : variant[v].here}
Base(p) == product[p].base
Own(p, v) == IF variant[v].price # NoPrice THEN variant[v].price ELSE Base(p)

\* The variant whose price a card shows: the default one, else the first row,
\* which is the first in sortOrder only where rows are asked for in an order.
Defaults(p) == {v \in Rows(p) : variant[v].default}
Faces(p) == IF Defaults(p) # {} THEN Defaults(p) ELSE Rows(p)
Card(p) == LET s == SelectSeq(VariantsOf[p], LAMBDA v : v \in Faces(p)) IN Head(s)
displayPriceCents(p) == IF Rows(p) = {} THEN Base(p) ELSE Own(p, Card(p))

MinPrice(p) == IF Rows(p) = {} THEN Base(p) ELSE Min({Own(p, v) : v \in Rows(p)})

Reduced(p, v) == variant[v].was # NoPrice /\ variant[v].was > Own(p, v)
compareAtSale == {p \in Products : Active(p) /\ \E v \in Faces(p) : Reduced(p, v)}
onSale == compareAtSale \cup {p \in promoted : product[p].here}

-----------------------------------------------------------------------------
(* The listing.                                                            *)

Matching(f) ==
    {p \in Products :
        /\ Active(p)
        /\ f.cat # "all" => product[p].cat \in Under[f.cat]
        /\ f.sale => p \in onSale}
InRange(f, p) == displayPriceCents(p) >= f.min /\ displayPriceCents(p) <= f.max

\* The rows in the order asked for; rows that tie come as the database likes,
\* anew on each request (tie).
Before(f, tie, p, q) ==
    LET a == displayPriceCents(p)  b == displayPriceCents(q) IN
    CASE f.sort = "price_asc" /\ a # b -> a < b
      [] f.sort = "price_desc" /\ a # b -> a > b
      [] OTHER -> tie[p] < tie[q]

Sorted(f, tie) == SetToSortSeq(Matching(f), LAMBDA p, q : Before(f, tie, p, q))
Page(f, tie, offset, limit) ==
    LET rows == SelectSeq(Sorted(f, tie), LAMBDA p : InRange(f, p)) IN
    SubSeq(rows, offset + 1, Min({offset + limit, Len(rows)}))

-----------------------------------------------------------------------------
(* The search.                                                             *)

searchDb(f) ==
    {p \in Products : Active(p) /\ (f.cat # "all" => product[p].cat = f.cat)
                      /\ MinPrice(p) >= f.min /\ MinPrice(p) <= f.max}
searchMeili(f) ==
    {p \in Products : index[p] # NoDoc /\ (f.cat # "all" => index[p].cat = f.cat)
                      /\ index[p].min >= f.min /\ index[p].min <= f.max}
\* Suggestions: the ids of either engine, and the rows of the database, whose
\* first variant is any.
Suggested(ids) == {p \in ids : Active(p)}
SuggestedPrices(p) == IF Rows(p) = {} THEN {Base(p)} ELSE {Own(p, v) : v \in Faces(p)}

-----------------------------------------------------------------------------
(* Keeping the index.                                                      *)

Ids == 1 .. MaxSyncs
Free == {n \in Ids : \A s \in syncs : s.id # n}
Sync(st, p) == [id |-> Min(Free), p |-> p, st |-> st, base |-> 0, doc |-> NoDoc]
Busy(p) == \E s \in syncs : s.p = p
\* A handler is called, or a removal sent; beside another one they race.
Spawn(st, p) ==
    /\ Free # {}
    /\ syncs' = syncs \cup {Sync(st, p)}
    /\ raced' = IF Busy(p) THEN raced \cup {p} ELSE raced \ {p}
emit(p) == Spawn("read", p)

Step(s, t) == syncs' = (syncs \ {s}) \cup {t}

\* onProductUpdated reads the row.
\* A mutant: a product is put in whatever its status is.
WantedAny(p) == product[p].here /\ ~ product[p].deleted
Wanted(p) == product[p].here /\ ~ product[p].deleted /\ product[p].status = "active"
onProductUpdated(s) ==
    /\ s.st = "read"
    /\ Step(s, IF Wanted(s.p) THEN [s EXCEPT !.st = "prices", !.base = Base(s.p), !.doc.cat = product[s.p].cat]
               ELSE [s EXCEPT !.st = "remove"])
    /\ UNCHANGED <<db, banner, index, call, edits, hist>>

\* indexProduct reads the variants, then writes the document.
indexProduct(s) ==
    /\ s.st = "prices"
    /\ LET own(v) == IF variant[v].price # NoPrice THEN variant[v].price ELSE s.base IN
       Step(s, [s EXCEPT !.st = "add", !.doc.min = IF Rows(s.p) = {} THEN s.base ELSE Min({own(v) : v \in Rows(s.p)})])
    /\ UNCHANGED <<db, banner, index, call, edits, hist>>

addDocuments(s) ==
    /\ s.st = "add"
    /\ index' = [index EXCEPT ![s.p] = s.doc] /\ syncs' = syncs \ {s}
    /\ UNCHANGED <<db, banner, call, edits, hist>>
removeFromIndex(s) ==
    /\ s.st = "remove"
    /\ index' = [index EXCEPT ![s.p] = NoDoc] /\ syncs' = syncs \ {s}
    /\ UNCHANGED <<db, banner, call, edits, hist>>
\* A write that fails is logged, or swallowed.
Fail(s) ==
    /\ s.st \in {"add", "remove"}
    /\ syncs' = syncs \ {s} /\ raced' = raced \cup {s.p}
    /\ UNCHANGED <<db, banner, index, call, edits, silent, excused>>

\* The admin's reindex: every active product as it is now, each written later;
\* nothing is taken out.
reindexAll ==
    /\ edits < MaxEdits /\ edits' = edits + 1
    /\ \E p \in Edited :
         /\ Active(p) /\ Free # {}
         /\ syncs' = syncs \cup {[Sync("prices", p) EXCEPT !.base = Base(p), !.doc.cat = product[p].cat]}
         /\ raced' = IF Busy(p) THEN raced \cup {p} ELSE raced \ {p}
         /\ silent' = silent \ {p}
    /\ UNCHANGED <<db, banner, index, call, excused>>

-----------------------------------------------------------------------------
(* The admin.                                                              *)

Begin(a) == call[a] = Idle /\ edits < MaxEdits /\ edits' = edits + 1
Then(a, do, p) == call' = [call EXCEPT ![a] = [do |-> do, p |-> p]]

\* update: the row is written (status, category, base price); a base price
\* that is sent clears the variants' own prices in a statement of its own.
update(a, p) ==
    /\ Begin(a) /\ product[p].here
    /\ \/ \E st \in {"draft", "active"}, c \in Categories :
            /\ product' = [product EXCEPT ![p].status = st, ![p].cat = c]
            /\ Then(a, "check", p)
       \/ \E c \in Prices :
            /\ product' = [product EXCEPT ![p].base = c]
            /\ Then(a, "clear", p)
       \* a compare-at price of the product is its default variant's
       \/ /\ UNCHANGED product
          /\ Then(a, "compare", p)
    /\ silent' = silent \cup {p}
    /\ UNCHANGED <<variant, promoted, banner, index, syncs, raced, excused>>
Later(a) ==
    /\ call[a].do \in {"clear", "compare"}
    /\ LET p == call[a].p IN
       /\ IF call[a].do = "clear"
          THEN variant' = [v \in DOMAIN variant |->
                             IF v \in Rows(p) THEN [variant[v] EXCEPT !.price = NoPrice] ELSE variant[v]]
          ELSE \E c \in Prices \cup {NoPrice} :
                 variant' = [v \in DOMAIN variant |->
                               IF v \in Defaults(p) THEN [variant[v] EXCEPT !.was = c] ELSE variant[v]]
       /\ Then(a, "check", p) /\ silent' = silent \cup {p}
    /\ UNCHANGED <<product, promoted, banner, index, syncs, edits, raced, excused>>

\* pruneFromPromoBanners: still on sale?  If not, the banner drops it.  Then
\* update emits; a variant's edit does not.
Checked(a) ==
    /\ call[a].do \in {"check", "checkVariant"}
    /\ LET p == call[a].p
           next == IF call[a].do = "check" THEN "emit" ELSE "end" IN
       IF p \in onSale THEN Then(a, next, p) ELSE Then(a, IF next = "emit" THEN "prune" ELSE "pruneVariant", p)
    /\ UNCHANGED <<db, banner, index, syncs, edits, hist>>
pruneFromPromoBanners(a) ==
    /\ call[a].do \in {"prune", "pruneVariant"}
    /\ banner' = banner \ {call[a].p}
    /\ Then(a, IF call[a].do = "prune" THEN "emit" ELSE "end", call[a].p)
    /\ UNCHANGED <<db, index, syncs, edits, hist>>
Return(a) ==
    /\ call[a].do \in {"emit", "end"}
    /\ call' = [call EXCEPT ![a] = Idle]
    /\ IF call[a].do = "emit" THEN emit(call[a].p) /\ silent' = silent \ {call[a].p}
       ELSE UNCHANGED <<syncs, raced, silent>>
    /\ UNCHANGED <<db, banner, index, edits, excused>>

\* A variant is added, changed or deleted: no event.  An added one is not
\* looked at by the banner.
updateVariant(a, p, v) ==
    /\ Begin(a) /\ variant[v].here
    /\ \/ \E c \in Prices \cup {NoPrice} : variant' = [variant EXCEPT ![v].price = c]
       \/ \E c \in Prices \cup {NoPrice} : variant' = [variant EXCEPT ![v].was = c]
       \/ variant' = [variant EXCEPT ![v].default = ~ @]
    /\ Then(a, "checkVariant", p) /\ silent' = silent \cup {p}
    /\ UNCHANGED <<product, promoted, banner, index, syncs, raced, excused>>
deleteVariant(a, p, v) ==
    /\ Begin(a) /\ variant[v].here
    /\ variant' = [variant EXCEPT ![v] = Gone]
    /\ Then(a, "checkVariant", p) /\ silent' = silent \cup {p}
    /\ UNCHANGED <<product, promoted, banner, index, syncs, raced, excused>>
addVariant(a, p, v) ==
    /\ Begin(a) /\ product[p].here /\ ~ variant[v].here
    /\ \E c \in Prices, d \in BOOLEAN : variant' = [variant EXCEPT ![v] = [price |-> c, was |-> NoPrice, default |-> d, here |-> TRUE]]
    /\ silent' = silent \cup {p} /\ excused' = excused \cup {p}
    /\ UNCHANGED <<product, promoted, banner, index, syncs, call, raced>>

\* publish and archive emit; what is archived or deleted stays in the banner.
publish(a, p) ==
    /\ Begin(a) /\ product[p].here
    /\ \E st \in {"active", "archived"} :
         /\ product' = [product EXCEPT ![p].status = st]
         /\ excused' = IF st = "archived" THEN excused \cup {p} ELSE excused
    /\ emit(p) /\ silent' = silent \ {p}
    /\ UNCHANGED <<variant, promoted, banner, index, call>>
softDelete(a, p) ==
    /\ Begin(a) /\ product[p].here
    /\ product' = [product EXCEPT ![p].deleted = TRUE]
    /\ Spawn("remove", p) /\ excused' = excused \cup {p} /\ silent' = silent \ {p}
    /\ UNCHANGED <<variant, promoted, banner, index, call>>
hardDelete(a, p) ==
    /\ Begin(a) /\ product[p].here
    /\ product' = [product EXCEPT ![p].here = FALSE]
    /\ variant' = [v \in DOMAIN variant |-> IF v \in Range(VariantsOf[p]) THEN Gone ELSE variant[v]]
    /\ promoted' = promoted \ {p}
    /\ Spawn("remove", p) /\ excused' = excused \cup {p} /\ silent' = silent \ {p}
    /\ UNCHANGED <<banner, index, call>>
restore(a, p) ==
    /\ Begin(a) /\ product[p].here /\ product[p].deleted
    /\ product' = [product EXCEPT ![p].deleted = FALSE]
    /\ silent' = silent \cup {p}
    /\ UNCHANGED <<variant, promoted, banner, index, syncs, call, raced, excused>>

\* Promotions begin and end by themselves too.
Promote(p) ==
    /\ edits < MaxEdits /\ edits' = edits + 1
    /\ product[p].here
    /\ promoted' = IF p \in promoted THEN promoted \ {p} ELSE promoted \cup {p}
    /\ excused' = IF p \in promoted THEN excused \cup {p} ELSE excused
    /\ UNCHANGED <<product, variant, banner, index, syncs, call, raced, silent>>

\* The banner's editor offers what is on sale, and saves it later.
PickBanner(a) ==
    /\ Begin(a)
    /\ \E p \in Edited \cap onSale : Then(a, "pick", p)
    /\ UNCHANGED <<db, banner, index, syncs, hist>>
SaveBanner(a) ==
    /\ call[a].do = "pick"
    /\ banner' = banner \cup {call[a].p} /\ call' = [call EXCEPT ![a] = Idle]
    /\ excused' = IF call[a].p \in onSale /\ \A b \in Admins \ {a} : call[b].p # call[a].p
                  THEN excused \ {call[a].p} ELSE excused \cup {call[a].p}
    /\ UNCHANGED <<db, index, syncs, edits, raced, silent>>

Init ==
    /\ product = [p \in Products |-> [here |-> TRUE, status |-> "active", deleted |-> FALSE, base |-> Min(Prices),
                                      cat |-> CHOOSE c \in Categories : TRUE]]
    /\ variant = Start /\ promoted = {} /\ banner = {}
    /\ index = [p \in Products |-> [min |-> MinPrice(p), cat |-> product[p].cat]]
    /\ syncs = {} /\ call = [a \in Admins |-> Idle] /\ edits = 0
    /\ raced = {} /\ silent = {} /\ excused = {}

Next ==
    \/ \E s \in syncs : onProductUpdated(s) \/ indexProduct(s) \/ addDocuments(s) \/ removeFromIndex(s) \/ Fail(s)
    \/ \E a \in Admins :
         \/ Later(a) \/ Checked(a) \/ pruneFromPromoBanners(a) \/ Return(a) \/ SaveBanner(a) \/ PickBanner(a)
         \/ \E p \in Edited :
              \/ update(a, p) \/ publish(a, p) \/ softDelete(a, p) \/ hardDelete(a, p) \/ restore(a, p)
              \/ \E v \in Range(VariantsOf[p]) : updateVariant(a, p, v) \/ deleteVariant(a, p, v) \/ addVariant(a, p, v)
    \/ \E p \in Edited : Promote(p)
    \/ reindexAll

Spec == Init /\ [][Next]_vars

-----------------------------------------------------------------------------
TypeOK ==
    /\ DOMAIN product = Products /\ promoted \subseteq Products /\ banner \subseteq Products
    /\ \A p \in Products : product[p].status \in {"draft", "active", "archived"} /\ index[p].min \in Nat
    /\ Cardinality(syncs) <= MaxSyncs /\ edits \in 0 .. MaxEdits
    /\ raced \cup silent \cup excused \subseteq Products

Lows == {0, Min(Prices) + 1}
Highs == {Max(Prices) - 1, 2 * Max(Prices)}
Filters == [cat : {"all"} \cup DOMAIN Under, sale : BOOLEAN, min : Lows, max : Highs, sort : {"price_asc", "price_desc"}]
Searches == [cat : {"all"} \cup Categories, min : Lows, max : Highs]
AtRest == syncs = {} /\ \A a \in Admins : call[a] = Idle

\* Once the handlers are done the index answers as the database would: nothing
\* that was withdrawn is found, and, unless a variant was edited or a product
\* restored since (neither tells the index), neither is anything missing or
\* filed under another price.  Products whose handlers overlapped or failed
\* are excepted.
SearchTrue ==
    \A p \in Products \ raced : ~ Busy(p) =>
        /\ index[p] # NoDoc => Active(p) \/ p \in silent
        /\ p \notin silent => \A f \in Searches : p \in searchMeili(f) <=> p \in searchDb(f)

\* A banner lists only what is reduced, except what left the sale without a
\* write that looks: a promotion that ended, a product archived or deleted, a
\* variant added, a pick saved after its sale was over.
BannerTrue ==
    \A p \in banner \ excused : p \in onSale \/ \E a \in Admins : call[a].p = p

\* As many pages as the total says show every product that matches, by the
\* price on its card, whatever order each request finds the rows in, as long as
\* no two prices tie; with one default variant the card, the suggestions and the
\* sale agree on that price.
PagesWhole == AtRest =>
    /\ \A f \in Filters :
         LET P == {p \in Matching(f) : InRange(f, p)}
             tied == \E p, q \in Matching(f) : p # q /\ displayPriceCents(p) = displayPriceCents(q)
             ties == {t \in [Products -> 1 .. Cardinality(Products)] : \A p, q \in Products : p # q => t[p] # t[q]}
             shown(t, o) == Range(Page(f, t, o, 1))
         IN ~ tied => \A t \in [0 .. Cardinality(P) - 1 -> ties] : P = UNION {shown(t[o], o) : o \in DOMAIN t}
    /\ \A p \in Products : Cardinality(Defaults(p)) = 1 /\ Active(p) =>
         /\ SuggestedPrices(p) = {displayPriceCents(p)}
         /\ p \in compareAtSale <=> variant[Card(p)].was > displayPriceCents(p)
=============================================================================
