----------------------------- MODULE Editorial -----------------------------
(***************************************************************************)
(* What the admin writes and arranges: the posts of the blog, their        *)
(* translations and the scheduler that publishes them (BlogPostService); a *)
(* collection's products, or the sections of the home page, in their order *)
(* (CollectionsService, HomeSectionsService); and the brands products are  *)
(* sold under (StoreBrandsService).  Calls are cut where they wait.        *)
(***************************************************************************)
EXTENDS Integers, SequencesExt

CONSTANTS
    Posts, Titles,
    Calls,               \* requests that may run at once
    Kind, Items,         \* the list arranged, "collection" or "home", and what it may hold
    Brands, Products,
    MaxEdits, MaxFaults  \* bounds

VARIABLES
    post,     \* blog_posts
    tr,       \* the posts whose translation is kept
    call,     \* what each request is doing, with the row or the count it read
    run,      \* the scheduler's tick, and the posts it found due
    place,    \* sortOrder of each item, Out when it is not on the list
    brand,    \* the brand of each product
    active,   \* the brands switched on
    basket,   \* the products in a customer's basket
    order,    \* the order made of it, [there, brand]
    edits, faults,
    \* history
    told,     \* what the admin last said each post should be
    home,     \* the address and the date each post was published with
    crossed,  \* posts two calls changed at once, or one that stopped midway
    asked,    \* the items in the order the admin has arranged them
    drifted,  \* the places no longer say it: a removal, or two calls at once
    moved     \* a product changed brand, or a brand was switched, after it was put in the basket

vars == <<post, tr, call, run, place, brand, active, basket, order, edits, faults, told, home, crossed, asked, drifted, moved>>
blog == <<post, tr, run, told, home, crossed>>
list == <<place, asked, drifted>>
brands == <<brand, active, basket, order, moved>>

Out == -1
None == "none"
Absent == [there |-> FALSE, slug |-> <<None, 0>>, title |-> None, status |-> "draft", due |-> None, pub |-> 0]
Idle == [op |-> "idle", at |-> "idle", id |-> None, dto |-> None, title |-> None, slug |-> <<None, 0>>, held |-> Absent, n |-> 0]
Go(c, at) == call' = [call EXCEPT ![c].at = at]
Done(c) == call' = [call EXCEPT ![c] = Idle]
Begin(c, new) == call[c].at = "idle" /\ edits < MaxEdits /\ edits' = edits + 1 /\ call' = [call EXCEPT ![c] = new]

-----------------------------------------------------------------------------
(* Posts                                                                   *)

\* A date only once, and never again.
\* A mutant: published again, dated again.
PublishedAnew(status, had) == IF status = "published" THEN edits ELSE had
resolvePublishedAt(status, had) == IF status = "published" /\ had = 0 THEN edits ELSE had

Cross(p, row) == crossed' = IF post[p] # row THEN crossed \cup {p} ELSE crossed
\* The address counts from when the post became public, the date from the first time.
Publication(p, row) ==
    [slug |-> IF post[p].status = "published" THEN home[p].slug ELSE row.slug,
     pub |-> IF home[p].pub = 0 THEN row.pub ELSE home[p].pub]
Write(p, row) ==
    /\ post' = [post EXCEPT ![p] = row]
    /\ home' = IF row.status = "published" THEN [home EXCEPT ![p] = Publication(p, row)] ELSE home

create(c, p, title, status) ==
    /\ ~ post[p].there /\ told[p] = None /\ \A d \in Calls : call[d].id # p
    /\ Begin(c, [Idle EXCEPT !.op = "create", !.at = "slug", !.id = p, !.dto = status, !.title = title, !.slug = <<title, 1>>])
    /\ UNCHANGED <<blog, list, brands, faults>>
\* generateUniqueSlug: one question at a time.
generateUniqueSlug(c) ==
    LET s == call[c].slug IN
    /\ call[c].at = "slug"
    /\ IF \E p \in Posts \ {call[c].id} : post[p].there /\ post[p].slug = s
       THEN call' = [call EXCEPT ![c].slug = <<s[1], s[2] + 1>>]
       ELSE Go(c, "write")
    /\ UNCHANGED <<blog, list, brands, edits, faults>>
Taken(c) == \E p \in Posts \ {call[c].id} : post[p].there /\ post[p].slug = call[c].slug
createPost(c) ==
    LET p == call[c].id IN
    /\ call[c].op = "create" /\ call[c].at = "write"
    /\ IF Taken(c) \/ post[p].there THEN UNCHANGED <<post, home, told>>
       ELSE /\ Write(p, [there |-> TRUE, slug |-> call[c].slug, title |-> call[c].title, status |-> call[c].dto,
                         due |-> IF call[c].dto = "scheduled" THEN "later" ELSE None, pub |-> resolvePublishedAt(call[c].dto, 0)])
            /\ told' = [told EXCEPT ![p] = call[c].dto]
    /\ Done(c)
    /\ UNCHANGED <<tr, run, crossed, list, brands, edits, faults>>

\* update and publish read the post first; a new title makes a new address
\* of a draft only.
update(c, p, title, status) ==
    /\ post[p].there /\ (title # None \/ status # None)
    /\ Begin(c, [Idle EXCEPT !.op = "update", !.id = p, !.dto = status, !.title = title, !.held = post[p],
                             !.slug = <<title, 1>>,
                             !.at = IF title \notin {None, post[p].title} /\ post[p].status = "draft" THEN "slug" ELSE "write"])
    /\ UNCHANGED <<blog, list, brands, faults>>
updatePost(c) ==
    LET p == call[c].id
        dto == call[c]
        renamed == dto.title \notin {None, dto.held.title} /\ dto.held.status = "draft" IN
    /\ dto.op = "update" /\ dto.at = "write"
    /\ IF ~ post[p].there \/ (renamed /\ Taken(c)) THEN UNCHANGED <<post, home, told, crossed>>
       ELSE /\ Write(p, [post[p] EXCEPT !.slug = IF renamed THEN dto.slug ELSE @,
                                        !.title = IF dto.title # None THEN dto.title ELSE @,
                                        !.status = IF dto.dto # None THEN dto.dto ELSE @,
                                        !.due = IF dto.dto = "scheduled" THEN "later" ELSE @,
                                        !.pub = resolvePublishedAt(dto.dto, dto.held.pub)])
            /\ told' = IF dto.dto # None THEN [told EXCEPT ![p] = dto.dto] ELSE told
            /\ Cross(p, dto.held)
    /\ Done(c)
    /\ UNCHANGED <<tr, run, list, brands, edits, faults>>
archive(c, p) ==
    /\ post[p].there
    /\ call[c].at = "idle" /\ edits < MaxEdits /\ edits' = edits + 1
    /\ post' = [post EXCEPT ![p].status = "archived"] /\ told' = [told EXCEPT ![p] = "archived"]
    /\ UNCHANGED <<tr, call, run, home, crossed, list, brands, faults>>

\* The translations go first, then the post.
remove(c, p) ==
    /\ post[p].there
    /\ Begin(c, [Idle EXCEPT !.op = "remove", !.at = "translations", !.id = p, !.held = post[p]])
    /\ UNCHANGED <<blog, list, brands, faults>>
deleteForEntity(c) ==
    /\ call[c].at = "translations"
    /\ tr' = tr \ {call[c].id} /\ Go(c, "row")
    /\ UNCHANGED <<post, run, told, home, crossed, list, brands, edits, faults>>
deletePost(c) ==
    LET p == call[c].id IN
    /\ call[c].at = "row"
    /\ crossed' = IF p \in tr THEN crossed \cup {p} ELSE crossed
    /\ post' = [post EXCEPT ![p] = Absent] /\ home' = [home EXCEPT ![p] = [slug |-> <<None, 0>>, pub |-> 0]]
    /\ Done(c)
    /\ UNCHANGED <<tr, run, told, list, brands, edits, faults>>
\* TranslationsService.upsert asks nothing of the post it is for.
upsertTranslation(p) ==
    /\ post[p].there /\ p \notin tr /\ tr' = tr \cup {p}
    /\ UNCHANGED <<post, call, run, told, home, crossed, list, brands, edits, faults>>

\* publicList and publicFindBySlug: what the blog lists, and what an address opens.
publicList == {p \in Posts : post[p].there /\ post[p].status = "published"}
publicFindBySlug(slug) == {p \in publicList : post[p].slug = slug}

Due(p) == post[p].there /\ post[p].status = "scheduled" /\ post[p].due = "past"
TimePasses(p) ==
    /\ post[p].due = "later" /\ post' = [post EXCEPT ![p].due = "past"]
    /\ UNCHANGED <<tr, call, run, told, home, crossed, list, brands, edits, faults>>
\* publishDue: what was found is published, whatever it is by then; one that is
\* gone fails them all.
publishDue ==
    /\ run = {} /\ \E p \in Posts : Due(p)
    /\ run' = {p \in Posts : Due(p)}
    /\ UNCHANGED <<post, tr, call, told, home, crossed, list, brands, edits, faults>>
commitDue ==
    /\ run # {}
    /\ IF \E p \in run : ~ post[p].there THEN UNCHANGED <<post, home, crossed>>
       ELSE /\ post' = [p \in Posts |-> IF p \in run THEN [post[p] EXCEPT !.status = "published", !.pub = IF @ = 0 THEN edits ELSE @] ELSE post[p]]
            /\ home' = [p \in Posts |-> IF p \in run THEN Publication(p, post'[p]) ELSE home[p]]
            /\ crossed' = crossed \cup {p \in run : ~ Due(p)}
    /\ run' = {}
    /\ UNCHANGED <<tr, call, told, list, brands, edits, faults>>

-----------------------------------------------------------------------------
(* The list: a new item takes the next place, the count of a collection or *)
(* one more than the last of the home page; the drag rewrites the places.  *)

OnList == {i \in Items : place[i] # Out}
Shown == SetToSortSeq(OnList, LAMBDA i, j : place[i] < place[j])
MaxOf(S) == CHOOSE x \in S : \A y \in S : x >= y
nextSortOrder(k) == IF k = "collection" THEN Cardinality(OnList) ELSE MaxOf({place[i] : i \in OnList} \cup {0}) + 1
addItem(c, i) ==
    /\ place[i] = Out
    /\ Begin(c, [Idle EXCEPT !.op = "add", !.at = "place", !.id = i, !.n = nextSortOrder(Kind)])
    /\ drifted' = (drifted \/ \E d \in Calls : call[d].op = "add")
    /\ UNCHANGED <<place, asked, blog, brands, faults>>
placeItem(c) ==
    LET i == call[c].id IN
    /\ call[c].at = "place"
    /\ IF place[i] # Out THEN UNCHANGED list
       ELSE /\ place' = [place EXCEPT ![i] = call[c].n] /\ asked' = Append(asked, i)
            /\ drifted' = (drifted \/ (Kind = "collection" /\ call[c].n # Cardinality(OnList)))
    /\ Done(c)
    /\ UNCHANGED <<blog, brands, edits, faults>>
removeItem(i) ==
    /\ edits < MaxEdits /\ edits' = edits + 1
    /\ place[i] # Out /\ place' = [place EXCEPT ![i] = Out]
    /\ asked' = SelectSeq(asked, LAMBDA j : j # i)
    /\ drifted' = (drifted \/ Kind = "collection" \/ \E d \in Calls : call[d].op # "idle")
    /\ UNCHANGED <<call, blog, brands, faults>>
\* The order of the page that was dragged: what is on the list now, or it fails.
reorder(s) ==
    /\ edits < MaxEdits /\ edits' = edits + 1 /\ OnList # {}
    /\ place' = [i \in Items |-> IF i \in OnList THEN IndexFirstSubSeq(<<i>>, s) - (IF Kind = "collection" THEN 1 ELSE 0) ELSE place[i]]
    /\ asked' = s /\ drifted' = (\E d \in Calls : call[d].op = "add")
    /\ UNCHANGED <<call, blog, brands, faults>>

-----------------------------------------------------------------------------
(* Brands: a basket holds one brand's products; its order keeps the brand, *)
(* and is signed by it while it is on.                                     *)

Edit == edits < MaxEdits /\ edits' = edits + 1
Moves(p) == moved' = (moved \/ p \in basket)
linkProduct(p, b) ==
    /\ Edit /\ brand[p] # b /\ brand' = [brand EXCEPT ![p] = b] /\ Moves(p)
    /\ UNCHANGED <<active, basket, order, call, blog, list, faults>>
switchBrand(b) ==
    /\ Edit /\ active' = (IF b \in active THEN active \ {b} ELSE active \cup {b})
    /\ moved' = (moved \/ \E p \in basket : brand[p] = b)
    /\ UNCHANGED <<brand, basket, order, call, blog, list, faults>>
\* The foreign keys of its products and orders are set to null.
removeBrand(b) ==
    /\ Edit /\ active' = active \ {b}
    /\ brand' = [p \in Products |-> IF brand[p] = b THEN None ELSE brand[p]]
    /\ order' = IF order.brand = b THEN [order EXCEPT !.brand = None] ELSE order
    /\ moved' = (moved \/ (\E p \in basket : brand[p] = b) \/ order.brand = b)
    /\ UNCHANGED <<basket, call, blog, list, faults>>
assertSameStoreBrand(c, p) ==
    /\ p \in Products \ basket
    /\ \A q \in basket : brand[q] = brand[p]
    /\ Begin(c, [Idle EXCEPT !.op = "basket", !.at = "basket", !.id = p, !.dto = brand[p]])
    /\ UNCHANGED <<blog, list, brands, faults>>
putInBasket(c) ==
    /\ call[c].at = "basket"
    /\ moved' = (moved \/ brand[call[c].id] # call[c].dto \/ \E q \in basket : brand[q] # brand[call[c].id])
    /\ basket' = basket \cup {call[c].id} /\ Done(c)
    /\ UNCHANGED <<brand, active, order, blog, list, edits, faults>>
\* createFromCart, and a resumed checkout.
storeBrandIdForProducts(b) ==
    LET branded == {p \in basket : brand[p] \in active} IN
    /\ basket # {} /\ (b = None <=> branded = {})
    /\ b # None => \E p \in branded : brand[p] = b
    /\ order' = [there |-> TRUE, brand |-> b]
    /\ UNCHANGED <<brand, active, basket, moved, call, blog, list, edits, faults>>
Signature == IF order.brand \in active THEN order.brand ELSE None

\* A crash in the middle of a call.
Stop(c) ==
    /\ call[c].at # "idle" /\ faults < MaxFaults /\ faults' = faults + 1 /\ Done(c)
    /\ UNCHANGED <<blog, list, brands, edits>>

Init ==
    /\ post = [p \in Posts |-> Absent] /\ tr = {} /\ run = {}
    /\ call = [c \in Calls |-> Idle] /\ edits = 0 /\ faults = 0
    /\ place = [i \in Items |-> Out]
    /\ brand = [p \in Products |-> None] /\ active = Brands /\ basket = {} /\ order = [there |-> FALSE, brand |-> None]
    /\ told = [p \in Posts |-> None] /\ home = [p \in Posts |-> [slug |-> <<None, 0>>, pub |-> 0]]
    /\ crossed = {} /\ asked = <<>> /\ drifted = FALSE /\ moved = FALSE

Next ==
    \/ \E c \in Calls :
         \/ \E p \in Posts :
              \/ \E title \in Titles, status \in {"draft", "published", "scheduled"} : create(c, p, title, status)
              \/ \E title \in Titles \cup {None}, status \in {None, "draft", "published", "scheduled"} : update(c, p, title, status)
              \/ archive(c, p) \/ remove(c, p)
         \/ generateUniqueSlug(c) \/ createPost(c) \/ updatePost(c) \/ deleteForEntity(c) \/ deletePost(c)
         \/ \E i \in Items : addItem(c, i)
         \/ placeItem(c)
         \/ \E p \in Products : assertSameStoreBrand(c, p)
         \/ putInBasket(c) \/ Stop(c)
    \/ \E p \in Posts : upsertTranslation(p) \/ TimePasses(p)
    \/ publishDue \/ commitDue
    \/ \E i \in Items : removeItem(i)
    \/ \E s \in SetToSeqs(OnList) : reorder(s)
    \/ \E p \in Products, b \in Brands \cup {None} : linkProduct(p, b)
    \/ \E b \in Brands : switchBrand(b) \/ removeBrand(b)
    \/ \E b \in Brands \cup {None} : storeBrandIdForProducts(b)

Spec == Init /\ [][Next]_vars

-----------------------------------------------------------------------------
TypeOK ==
    /\ \A p \in Posts : post[p].status \in {"draft", "published", "scheduled", "archived"} /\ post[p].pub \in 0 .. MaxEdits
    /\ tr \cup run \cup crossed \subseteq Posts /\ basket \subseteq Products /\ active \subseteq Brands
    /\ edits \in 0 .. MaxEdits /\ faults \in 0 .. MaxFaults

\* A post is public because the admin said so, or set a date that has come, and keeps
\* its address while it is, and the date of the first time: the address it was published
\* with opens it and nothing else; a post that is gone leaves no translation; all of it
\* unless two calls crossed on the post.
PostsTrue ==
    \A p \in Posts : p \in crossed \/
        /\ p \in publicList =>
             /\ publicFindBySlug(home[p].slug) = {p}
             /\ told[p] = "published" \/ (told[p] = "scheduled" /\ post[p].due = "past")
             /\ home[p] = [slug |-> post[p].slug, pub |-> post[p].pub] /\ home[p].pub # 0
        /\ p \in tr => post[p].there

\* The page shows the items as they were arranged, a new one last, unless two
\* calls met, or a collection lost or reordered a product and then took another.
ListKept == drifted \/ Shown = asked

\* An order is signed by the brand of every branded product in it, or by none,
\* unless a brand moved under the basket.
BrandKept ==
    order.there /\ ~ moved =>
        \A p \in basket : Signature = IF brand[p] \in active THEN brand[p] ELSE None
=============================================================================
