-------------------------------- MODULE Seeds --------------------------------
(***************************************************************************)
(* What a boot puts in place and the admin then owns: the embroidery       *)
(* library (PersonalizationSeedService), the send-in service with its item *)
(* types and sides (SendInSeedService) and the default tax rate            *)
(* (TaxService).  Boots of several builds meet each other and the admin's  *)
(* edits, and may stop at any step.  Prices, pictures and the product's    *)
(* texts are left out; a name is who wrote it in each language, a font's   *)
(* web face a name in one language.                                        *)
(***************************************************************************)
EXTENDS Integers, Sequences, SequencesExt

CONSTANTS
    Replicas, SeedOf,    \* processes that boot, the seeds each was built with: a set of keys for a list, and langs
    Plan,                \* the parts of a boot, in its order
    Keys, Langs,
    Edited,              \* the lists whose rows the admin edits
    Rates, Calls,        \* ids of tax rates; the admin's requests about them
    Old,                 \* the installation is older than the markers
    MaxBoots, MaxEdits, MaxFaults   \* bounds

VARIABLES
    marker,              \* platform_settings: the keys ever inserted, by list
    rows, name, tab,     \* the rows of a list, their names, a motif's tab
    product, stocked,    \* the send-in product, its variants that have a stock row
    rate,                \* tax_rates
    boot, call, asked,   \* boots and an item type being made, tax requests, threads about to be deleted
    boots, edits, faults,
    \* history
    planted, ever, gone, \* rows a boot inserted; rows the admin deleted, and those of a boot he deleted while none was under way
    owed,                \* what the builds that went through a list hold
    written, crossed,    \* languages in which the admin wrote a name; names written between a boot's read and its write
    emptied,             \* the admin deleted the last item type
    met, mixed, stopped, \* two boots were under way at once, of two builds; one did not go to its end
    turned, raced        \* the default rate was made another; two requests were under way at once

vars == <<marker, rows, name, tab, product, stocked, rate, boot, call, asked, boots, edits, faults,
          planted, ever, gone, owed, written, crossed, emptied, met, mixed, stopped, turned, raced>>
history == <<planted, ever, gone, owed, written, crossed>>
sendin == <<product, stocked, emptied>>
taxes == <<rate, call, turned>>
counts == <<boots, met, mixed>>

None == "none"
Admin == 0                  \* among the processes that write; replicas are numbered from 1
Booted == {"fonts", "threads", "categories", "motifs", "template"}
Lists == Booted \cup {"types", "sides"}
Unset == [there |-> FALSE, keys |-> {}]
Seed(r, l) == SeedOf[r][l]
Unnamed == [g \in Langs |-> None]
Idle == [at |-> "idle", left |-> <<>>, already |-> {}, tabs |-> {}, dead |-> {}, todo |-> <<>>, read |-> <<>>,
         label |-> <<>>, variants |-> {}, legacy |-> FALSE]
NoCall == [at |-> "idle", id |-> 0, combo |-> None, on |-> FALSE]
NoRate == [combo |-> None, on |-> FALSE]

-----------------------------------------------------------------------------
(* A boot goes through its parts.  What one of them throws is logged and   *)
(* the next part is begun; the lists of the library are one part.          *)

Enter(b, left) ==
    IF left = <<>> THEN Idle
    ELSE [Idle EXCEPT !.left = left, !.tabs = b.tabs, !.dead = b.dead,
                      !.at = CASE Head(left) = "sendin" -> "template" [] Head(left) = "tax" -> "rate" [] OTHER -> "marker"]
Now(r) == Head(boot[r].left)
Go(p, b) == boot' = [boot EXCEPT ![p] = b]
Onward(r) == Go(r, Enter(boot[r], Tail(boot[r].left)))
Throws(p) ==
    IF p = Admin THEN Go(p, Idle) /\ UNCHANGED stopped
    ELSE Go(p, Enter(boot[p], SelectSeq(Tail(boot[p].left), LAMBDA x : x \notin Booted))) /\ stopped' = TRUE
Begin(r) ==
    LET others == {q \in Replicas \ {r} : boot[q].at # "idle"} IN
    /\ boot[r].at = "idle" /\ boots < MaxBoots /\ boots' = boots + 1
    /\ Go(r, Enter(Idle, Plan))
    /\ met' = (met \/ others # {})
    /\ mixed' = (mixed \/ \E q \in others : SeedOf[q] # SeedOf[r])
    /\ UNCHANGED <<marker, rows, name, tab, asked, history, sendin, taxes, raced, edits, faults, stopped>>
Crash(p) ==
    /\ boot[p].at # "idle" /\ faults < MaxFaults /\ faults' = faults + 1
    /\ Go(p, Idle) /\ stopped' = TRUE
    /\ UNCHANGED <<marker, rows, name, tab, asked, history, sendin, taxes, raced, counts, edits>>

-----------------------------------------------------------------------------
(* A list of the library: the marker is read, the keys it does not hold    *)
(* are inserted, the marker is written, the names get the languages they   *)
(* miss.  Without a marker, the seeds of a list that has rows count as     *)
(* inserted before.                                                        *)

readMarker(r) ==
    LET m == marker[Now(r)] IN
    /\ boot[r].at = "marker"
    /\ Go(r, [boot[r] EXCEPT !.already = m.keys, !.at = IF m.there THEN "insert" ELSE "count"])
    /\ UNCHANGED <<marker, rows, name, tab, asked, history, sendin, taxes, raced, counts, stopped, edits, faults>>
fresh(r) ==
    LET l == Now(r) IN
    /\ boot[r].at = "count"
    /\ Go(r, [boot[r] EXCEPT !.at = "insert", !.already = IF rows[l] = {} THEN {} ELSE Seed(r, l)])
    /\ ever' = IF Old THEN ever \cup {<<l, k>> : k \in Seed(r, l)} ELSE ever
    /\ UNCHANGED <<marker, rows, name, tab, asked, planted, gone, owed, written, crossed, sendin, taxes, raced, counts, stopped, edits, faults>>
pending(r) == Seed(r, Now(r)) \ boot[r].already
\* A language missing from a name is taken from the seed.
fillMissingLocales(r, m) == [g \in Langs |-> IF m[g] = None /\ g \in SeedOf[r].langs THEN "seed" ELSE m[g]]
Insert(r, l, K) ==
    /\ rows' = [rows EXCEPT ![l] = @ \cup K]
    /\ name' = [name EXCEPT ![l] = [k \in Keys |-> IF k \in K THEN fillMissingLocales(r, Unnamed) ELSE @[k]]]
    /\ planted' = planted \cup {<<l, k>> : k \in K}
\* A motif is filed under the tab of its own key, as the boot read it.
createMany(r) ==
    LET l == Now(r)
        new == pending(r) \ rows[l]
    IN /\ boot[r].at = "insert"
       /\ CASE l = "template" /\ pending(r) = {} -> Onward(r) /\ UNCHANGED <<rows, name, tab, planted, stopped>>
            [] \/ l = "template" /\ pending(r) # {} /\ new = {}
               \/ l = "motifs" /\ (\E k \in new : <<"categories", k>> \in boot[r].dead)
                 -> Throws(r) /\ UNCHANGED <<rows, name, tab, planted>>
            [] OTHER ->
                 /\ Insert(r, l, new)
                 /\ tab' = IF l = "motifs" THEN [k \in Keys |-> IF k \in new \cap boot[r].tabs THEN k ELSE tab[k]] ELSE tab
                 /\ Go(r, [boot[r] EXCEPT !.at = "write"])
                 /\ UNCHANGED stopped
       /\ UNCHANGED <<marker, asked, ever, gone, owed, written, crossed, sendin, taxes, raced, counts, edits, faults>>
\* A mutant: the marker holds what this boot inserted.
Pending(r) == pending(r)
Marked(r) == boot[r].already \cup pending(r)
writeMarker(r) ==
    LET l == Now(r) IN
    /\ boot[r].at = "write"
    /\ marker' = [marker EXCEPT ![l] = [there |-> TRUE, keys |-> Marked(r)]]
    /\ owed' = owed \cup {<<l, k>> : k \in Seed(r, l)}
    /\ IF l \in {"threads", "template"} THEN Onward(r) ELSE Go(r, [boot[r] EXCEPT !.at = "names"])
    /\ UNCHANGED <<rows, name, tab, asked, planted, ever, gone, written, crossed, sendin, taxes, raced, counts, stopped, edits, faults>>
readNames(r) ==
    LET l == Now(r)
        read == [k \in rows[l] |-> name[l][k]]
    IN /\ boot[r].at = "names"
       /\ Go(r, [boot[r] EXCEPT !.at = "fill", !.read = read, !.tabs = IF l = "categories" THEN rows[l] ELSE @,
                                !.dead = @ \ ({l} \X Keys),
                                !.todo = SetToSeq({k \in rows[l] \cap Seed(r, l) : fillMissingLocales(r, read[k]) # read[k]})])
       /\ UNCHANGED <<marker, rows, name, tab, asked, history, sendin, taxes, raced, counts, stopped, edits, faults>>
Filled(r, m) == fillMissingLocales(r, m)
\* A name is written whole, to a row that must be there; a face only where there still is none.
update(r, l, k) ==
    IF <<l, k>> \in boot[r].dead /\ l # "fonts" THEN Throws(r) /\ UNCHANGED name
    ELSE /\ name' = [name EXCEPT ![l][k] = CASE l = "fonts" -> (IF k \in rows[l] THEN fillMissingLocales(r, @) ELSE @)
                                                      [] l = "types" -> Filled(r, boot[r].label)
                                                      [] OTHER -> Filled(r, boot[r].read[k])]
         /\ Go(r, [boot[r] EXCEPT !.todo = Tail(@), !.at = IF @ = "label" THEN "labels" ELSE @])
         /\ UNCHANGED stopped
fillNames(r) ==
    /\ boot[r].at = "fill"
    /\ IF boot[r].todo = <<>> THEN Onward(r) /\ UNCHANGED <<name, stopped>>
       ELSE update(r, Now(r), Head(boot[r].todo))
    /\ UNCHANGED <<marker, rows, tab, asked, history, sendin, taxes, raced, counts, edits, faults>>

-----------------------------------------------------------------------------
(* The send-in service: its product, the item types where there are none,  *)
(* each a variant with a stock row, and a position for each side, as they  *)
(* were when the product was read.                                         *)

Waits(p, at) == boot[p].at = at
readTemplate(r) ==
    /\ Waits(r, "template")
    /\ IF rows["template"] = {} THEN Onward(r) ELSE Go(r, [boot[r] EXCEPT !.at = "product"])
    /\ UNCHANGED <<marker, rows, name, tab, asked, history, sendin, taxes, raced, counts, stopped, edits, faults>>
findProduct(r) ==
    /\ Waits(r, "product")
    /\ Go(r, IF ~ product.there THEN [boot[r] EXCEPT !.at = "create"]
             ELSE [boot[r] EXCEPT !.at = "countTypes", !.variants = product.variants, !.legacy = product.legacy = "on", !.dead = {},
                                  !.tabs = rows["sides"], !.read = [k \in Keys |-> name["sides"][k]]])
    /\ UNCHANGED <<marker, rows, name, tab, asked, history, sendin, taxes, raced, counts, stopped, edits, faults>>
createProduct(r) ==
    /\ Waits(r, "create")
    /\ IF product.there THEN Throws(r) /\ UNCHANGED product
       ELSE /\ product' = [product EXCEPT !.there = TRUE]
            /\ Go(r, [boot[r] EXCEPT !.at = "countTypes", !.tabs = {}]) /\ UNCHANGED stopped
    /\ UNCHANGED <<marker, rows, name, tab, asked, history, stocked, emptied, taxes, raced, counts, edits, faults>>
TypesToAdd(r) == IF rows["types"] = {} THEN Seed(r, "types") ELSE {}
countTypes(r) ==
    /\ Waits(r, "countTypes")
    /\ Go(r, [boot[r] EXCEPT !.at = "types", !.todo = SetToSeq(TypesToAdd(r))])
    /\ UNCHANGED <<marker, rows, name, tab, asked, history, sendin, taxes, raced, counts, stopped, edits, faults>>
typesDone(r) ==
    /\ Waits(r, "types") /\ boot[r].todo = <<>>
    /\ Go(r, [boot[r] EXCEPT !.at = "labels", !.todo = SetToSeq(Seed(r, "types"))])
    /\ UNCHANGED <<marker, rows, name, tab, asked, history, sendin, taxes, raced, counts, stopped, edits, faults>>
Type(p) == Head(boot[p].todo)
createVariant(p) ==
    LET k == Type(p) IN
    /\ Waits(p, "types") /\ boot[p].todo # <<>>
    /\ IF k \in boot[p].variants THEN Go(p, [boot[p] EXCEPT !.at = "type"]) /\ UNCHANGED <<product, stopped>>
       ELSE IF k \in product.variants THEN Throws(p) /\ UNCHANGED product
       ELSE /\ product' = [product EXCEPT !.variants = @ \cup {k}]
            /\ Go(p, [boot[p] EXCEPT !.at = "stock"]) /\ UNCHANGED stopped
    /\ UNCHANGED <<marker, rows, name, tab, asked, history, stocked, emptied, taxes, raced, counts, edits, faults>>
createStock(p) ==
    /\ Waits(p, "stock")
    /\ IF Type(p) \notin product.variants THEN Throws(p) /\ UNCHANGED stocked
       ELSE stocked' = stocked \cup {Type(p)} /\ Go(p, [boot[p] EXCEPT !.at = "type"]) /\ UNCHANGED stopped
    /\ UNCHANGED <<marker, rows, name, tab, asked, history, product, emptied, taxes, raced, counts, edits, faults>>
createType(p) ==
    LET k == Type(p) IN
    /\ Waits(p, "type")
    /\ IF k \in rows["types"] \/ k \notin product.variants THEN Throws(p) /\ UNCHANGED <<rows, name, planted, gone, written>>
       ELSE /\ IF p = Admin
               THEN /\ rows' = [rows EXCEPT !["types"] = @ \cup {k}]
                    /\ name' = [name EXCEPT !["types"][k] = [g \in Langs |-> "admin"]]
                    /\ written' = written \cup ({"types"} \X {k} \X Langs)
                    /\ planted' = planted \ {<<"types", k>>} /\ gone' = gone \ {<<"types", k>>}
               ELSE Insert(p, "types", {k}) /\ UNCHANGED <<gone, written>>
            /\ Go(p, IF p = Admin THEN Idle ELSE [boot[p] EXCEPT !.at = "types", !.todo = Tail(@)])
            /\ UNCHANGED stopped
    /\ UNCHANGED <<marker, tab, asked, ever, owed, crossed, sendin, taxes, raced, counts, edits, faults>>
findType(r) ==
    /\ Waits(r, "labels")
    /\ IF boot[r].todo = <<>> THEN Go(r, [boot[r] EXCEPT !.at = "sides", !.todo = SetToSeq(Seed(r, "sides"))])
       ELSE LET k == Type(r)
                m == name["types"][k]
            IN Go(r, IF k \notin rows["types"] \/ fillMissingLocales(r, m) = m THEN [boot[r] EXCEPT !.todo = Tail(@)]
                     ELSE [boot[r] EXCEPT !.at = "label", !.label = m, !.dead = @ \ {<<"types", k>>}])
    /\ UNCHANGED <<marker, rows, name, tab, asked, history, sendin, taxes, raced, counts, stopped, edits, faults>>
writeLabel(r) ==
    /\ Waits(r, "label") /\ update(r, "types", Type(r))
    /\ UNCHANGED <<marker, rows, tab, asked, history, sendin, taxes, raced, counts, edits, faults>>
placeSide(r) ==
    LET k == Type(r) IN
    /\ Waits(r, "sides")
    /\ CASE boot[r].todo = <<>> -> Go(r, [boot[r] EXCEPT !.at = "retire"]) /\ UNCHANGED <<rows, name, planted, stopped>>
         [] boot[r].todo # <<>> /\ k \in boot[r].tabs /\ fillMissingLocales(r, boot[r].read[k]) # boot[r].read[k] ->
              update(r, "sides", k) /\ UNCHANGED <<rows, planted>>
         [] boot[r].todo # <<>> /\ k \notin boot[r].tabs /\ k \in rows["sides"] -> Throws(r) /\ UNCHANGED <<rows, name, planted>>
         [] OTHER ->
              /\ IF k \in boot[r].tabs THEN UNCHANGED <<rows, name, planted>> ELSE Insert(r, "sides", {k})
              /\ Go(r, [boot[r] EXCEPT !.todo = Tail(@)]) /\ UNCHANGED stopped
    /\ UNCHANGED <<marker, tab, asked, ever, gone, owed, written, crossed, sendin, taxes, raced, counts, edits, faults>>
\* The one position of the first version, whenever it is active.
retire(r) ==
    /\ Waits(r, "retire")
    /\ product' = [product EXCEPT !.legacy = IF boot[r].legacy THEN "off" ELSE @]
    /\ owed' = owed \cup ({"types"} \X Seed(r, "types"))
    /\ Onward(r)
    /\ UNCHANGED <<marker, rows, name, tab, asked, planted, ever, gone, written, crossed, stocked, emptied, taxes, raced, counts, stopped, edits, faults>>

-----------------------------------------------------------------------------
(* The admin's pages.  A row is named in one language at least; a deleted  *)
(* tab leaves its motifs without one; another spool must be left when one  *)
(* is deleted; an item type goes with its variant and the stock row.       *)

\* A process answers once its boot has ended.
Edit ==
    /\ Old \/ boots > Cardinality({r \in Replicas : boot[r].at # "idle"})
    /\ edits < MaxEdits /\ edits' = edits + 1
Writes(l, k, G) ==
    /\ name' = [name EXCEPT ![l][k] = [g \in Langs |-> IF g \in G THEN "admin" ELSE None]]
    /\ written' = {w \in written : <<w[1], w[2]>> # <<l, k>>} \cup ({l} \X {k} \X G)
createRow(l, k, G) ==
    /\ l \in {"threads", "categories", "motifs"} /\ Edit /\ k \notin rows[l]
    /\ rows' = [rows EXCEPT ![l] = @ \cup {k}] /\ Writes(l, k, G)
    /\ planted' = planted \ {<<l, k>>} /\ gone' = gone \ {<<l, k>>}
    /\ IF l = "motifs" THEN \E t \in rows["categories"] \cup {None} : tab' = [tab EXCEPT ![k] = t] ELSE UNCHANGED tab
    /\ UNCHANGED <<marker, asked, ever, owed, crossed, sendin, taxes, raced, counts, stopped, boot, faults>>
\* Whether a boot has read this name and may write it.
Reading(r, l, k) == boot[r].at # "idle" /\ IF l \in {"types", "sides"} THEN Now(r) = "sendin" ELSE Now(r) = l
updateRow(l, k, G) ==
    /\ l \notin {"threads", "template"} /\ k \in rows[l] /\ Edit
    /\ Writes(l, k, G)
    /\ crossed' = IF \E r \in Replicas : Reading(r, l, k) THEN crossed \cup {<<l, k>>} ELSE crossed \ {<<l, k>>}
    /\ UNCHANGED <<marker, rows, tab, asked, planted, ever, gone, owed, sendin, taxes, raced, counts, stopped, boot, faults>>
Delete(l, k) ==
    /\ rows' = [rows EXCEPT ![l] = @ \ {k}]
    /\ name' = [name EXCEPT ![l][k] = Unnamed]
    /\ written' = {w \in written : <<w[1], w[2]>> # <<l, k>>}
    /\ ever' = ever \cup {<<l, k>>}
    /\ gone' = IF <<l, k>> \in planted /\ \A r \in Replicas : boot[r].at = "idle" THEN gone \cup {<<l, k>>} ELSE gone
    /\ boot' = [p \in DOMAIN boot |-> IF boot[p].at = "idle" THEN boot[p] ELSE [boot[p] EXCEPT !.dead = @ \cup {<<l, k>>}]]
deleteRow(l, k) ==
    /\ l \in {"categories", "motifs", "sides"} /\ k \in rows[l] /\ Edit
    /\ Delete(l, k)
    /\ tab' = CASE l = "categories" -> [m \in Keys |-> IF tab[m] = k THEN None ELSE tab[m]]
                [] l = "motifs" -> [tab EXCEPT ![k] = None]
                [] OTHER -> tab
    /\ UNCHANGED <<marker, asked, planted, owed, crossed, sendin, taxes, raced, counts, stopped, faults>>
countThreads(k) ==
    /\ k \in rows["threads"] \ asked /\ rows["threads"] # {k} /\ Edit
    /\ asked' = asked \cup {k}
    /\ UNCHANGED <<marker, rows, name, tab, history, sendin, taxes, raced, counts, stopped, boot, faults>>
deleteThread(k) ==
    /\ k \in asked /\ asked' = asked \ {k}
    /\ Delete("threads", k)
    /\ raced' = (raced \/ asked # {k})
    /\ UNCHANGED <<marker, tab, planted, owed, crossed, sendin, taxes, counts, stopped, edits, faults>>
createItemType(k) ==
    /\ boot[Admin].at = "idle" /\ product.there /\ k \notin rows["types"] /\ Edit
    /\ Go(Admin, [Idle EXCEPT !.at = "types", !.todo = <<k>>])
    /\ UNCHANGED <<marker, rows, name, tab, asked, history, sendin, taxes, raced, counts, stopped, faults>>
deleteItemType(k) ==
    /\ k \in rows["types"] /\ Edit
    /\ Delete("types", k)
    /\ product' = [product EXCEPT !.variants = @ \ {k}] /\ stocked' = stocked \ {k}
    /\ emptied' = (emptied \/ rows["types"] = {k})
    /\ UNCHANGED <<marker, tab, asked, planted, owed, crossed, taxes, raced, counts, stopped, faults>>
updatePlacement ==
    /\ product.legacy = "off" /\ Edit
    /\ product' = [product EXCEPT !.legacy = "on"]
    /\ UNCHANGED <<marker, rows, name, tab, asked, history, stocked, emptied, taxes, raced, counts, stopped, boot, faults>>

-----------------------------------------------------------------------------
(* Tax rates: of a country, of a category, of both, and the default.  The  *)
(* database tells two rates apart by country and category, and no null     *)
(* from another: only a rate of both is refused twice.                     *)

Combos == {"default", "country", "category", "both"}
Stored == {i \in Rates : rate[i] # NoRate}
Taken(combo, but) == \E i \in Stored \ {but} : rate[i].combo = combo
Insertable(i, combo) == i \notin Stored /\ (combo = "both" => ~ Taken(combo, i))
findDefault(r) ==
    /\ Waits(r, "rate")
    /\ IF Taken("default", 0) THEN Onward(r) /\ owed' = owed \cup {<<"tax", "default">>}
       ELSE Go(r, [boot[r] EXCEPT !.at = "createRate"]) /\ UNCHANGED owed
    /\ UNCHANGED <<marker, rows, name, tab, asked, planted, ever, gone, written, crossed, sendin, taxes, raced, counts, stopped, edits, faults>>
createDefault(r) ==
    /\ Waits(r, "createRate")
    /\ \E i \in Rates \ Stored : rate' = [rate EXCEPT ![i] = [combo |-> "default", on |-> TRUE]]
    /\ owed' = owed \cup {<<"tax", "default">>}
    /\ raced' = (raced \/ \E c \in Calls : call[c].at # "idle")
    /\ Onward(r)
    /\ UNCHANGED <<marker, rows, name, tab, asked, planted, ever, gone, written, crossed, sendin, call, turned, counts, stopped, edits, faults>>
Asks(c, at, i, combo, on) ==
    /\ call[c].at = "idle" /\ Edit
    /\ call' = [call EXCEPT ![c] = [at |-> at, id |-> i, combo |-> combo, on |-> on]]
    /\ raced' = (raced \/ (\E d \in Calls \ {c} : call[d].at # "idle") \/ \E r \in Replicas : Waits(r, "createRate"))
    /\ UNCHANGED <<marker, rows, name, tab, asked, history, sendin, rate, turned, counts, stopped, boot, faults>>
createRate(c, combo, on) == ~ Taken(combo, 0) /\ Asks(c, "create", 0, combo, on)
updateRate(c, i, combo, on) ==
    i \in Stored /\ (combo # rate[i].combo => ~ Taken(combo, i)) /\ Asks(c, "update", i, combo, on)
removeRate(c, i) == i \in Stored /\ rate[i].combo # "default" /\ Asks(c, "delete", i, None, FALSE)
\* What the database refuses changes nothing.
Written(c) ==
    LET a == call[c] IN
    CASE a.at = "create" -> \/ \E i \in Rates : Insertable(i, a.combo) /\ rate' = [rate EXCEPT ![i] = [combo |-> a.combo, on |-> a.on]]
                            \/ a.combo = "both" /\ Taken("both", 0) /\ UNCHANGED rate
      [] a.at = "update" -> IF a.id \notin Stored \/ (a.combo = "both" /\ Taken("both", a.id)) THEN UNCHANGED rate
                            ELSE rate' = [rate EXCEPT ![a.id] = [combo |-> a.combo, on |-> a.on]]
      [] OTHER -> rate' = [rate EXCEPT ![a.id] = NoRate]
writeRate(c) ==
    /\ call[c].at # "idle" /\ call' = [call EXCEPT ![c] = NoCall]
    /\ Written(c)
    /\ turned' = (turned \/ (call[c].at = "update" /\ rate[call[c].id].combo = "default" /\ call[c].combo # "default"))
    /\ raced' = (raced \/ \E r \in Replicas : Waits(r, "createRate"))
    /\ UNCHANGED <<marker, rows, name, tab, asked, history, sendin, counts, stopped, boot, edits, faults>>
Applies(country, category) == {i \in Stored : rate[i].on /\ CASE rate[i].combo = "both" -> country /\ category
                                                              [] rate[i].combo = "category" -> category
                                                              [] rate[i].combo = "country" -> country
                                                              [] OTHER -> TRUE}
Precedence == <<"both", "category", "country", "default">>
resolveRate(country, category) ==
    LET S == {rate[i].combo : i \in Applies(country, category)}
        first == SelectInSeq(Precedence, LAMBDA x : x \in S)
    IN IF first = 0 THEN None ELSE Precedence[first]

-----------------------------------------------------------------------------

TypeOK ==
    /\ \A l \in Lists : rows[l] \subseteq Keys /\ marker[l].keys \subseteq Keys
    /\ \A l \in Lists, k \in Keys : name[l][k] \in [Langs -> {None, "seed", "admin"}]
    /\ \A k \in Keys : tab[k] \in rows["categories"] \cup {None}
    /\ product.variants \subseteq Keys /\ stocked \subseteq Keys
    /\ \A i \in Rates : rate[i] = NoRate \/ rate[i].combo \in Combos

\* A row of the library that the admin deleted is not back after a deploy, and
\* what a build brings is there, unless the admin deleted it, a boot stopped
\* midway or two builds booted at once; and a spool is always left, unless two
\* were deleted at once.
SeedsKept ==
    /\ mixed \/ stopped \/ \A x \in gone : x[1] \in Booted => x[2] \notin rows[x[1]]
    /\ mixed \/ stopped \/ \A x \in owed : x[1] \in Booted => x[2] \in rows[x[1]] \/ x \in ever
    /\ raced \/ rows["threads"] # {} \/ \A k \in Keys : <<"threads", k>> \notin planted

\* A name is in the admin's words in every language he wrote, unless he wrote
\* it while a boot was at that list.
NamesKept ==
    \A w \in written : <<w[1], w[2]>> \in crossed \/ name[w[1]][w[2]][w[3]] = "admin"

\* Every item type can be put in a basket: its variant has a stock row, or is
\* given one now, unless a boot stopped before it made one.  A type the admin deleted is not back
\* unless the list was emptied, and the first list is whole, unless a boot
\* stopped midway.
SendInWhole ==
    /\ stopped \/ rows["types"] \subseteq stocked \cup {Type(p) : p \in {q \in DOMAIN boot : Waits(q, "stock")}}
    /\ emptied \/ stopped \/ \A x \in gone : x[1] = "types" => x[2] \notin rows["types"]
    /\ stopped \/ \A x \in owed : x[1] = "types" => x[2] \in rows["types"] \/ x \in ever

\* There is one rate for a country and a category, and a default one since the
\* first boot, unless it was made another one's, or two requests or two boots
\* met; never two for both.  What is resolved is the closest rate that applies.
OneRate ==
    /\ \A i, j \in Stored : rate[i].combo = rate[j].combo /\ i # j => rate[i].combo # "both" /\ (raced \/ met)
    /\ <<"tax", "default">> \in owed => Taken("default", 0) \/ turned \/ raced
    /\ \A country, category \in BOOLEAN :
         LET S == {rate[i].combo : i \in Applies(country, category)} IN
         resolveRate(country, category) = IF "both" \in S THEN "both" ELSE IF "category" \in S THEN "category"
                                          ELSE IF "country" \in S THEN "country" ELSE IF S = {} THEN None ELSE "default"

Init ==
    /\ marker = [l \in Lists |-> Unset]
    /\ rows = [l \in Lists |-> IF Old /\ l \in Booted THEN {CHOOSE k \in Keys : TRUE} ELSE {}]
    /\ name = [l \in Lists |-> [k \in Keys |-> Unnamed]] /\ tab = [k \in Keys |-> None]
    /\ product = [there |-> Old, variants |-> {}, legacy |-> IF Old THEN "on" ELSE None] /\ stocked = {}
    /\ rate = [i \in Rates |-> NoRate]
    /\ boot = [p \in Replicas \cup {Admin} |-> Idle] /\ call = [c \in Calls |-> NoCall] /\ asked = {}
    /\ boots = 0 /\ edits = 0 /\ faults = 0
    /\ planted = {} /\ ever = {} /\ gone = {} /\ owed = {} /\ written = {} /\ crossed = {}
    /\ emptied = FALSE /\ met = FALSE /\ mixed = FALSE /\ stopped = FALSE /\ turned = FALSE /\ raced = FALSE

Names == SUBSET Langs \ {{}}
Next ==
    \/ \E r \in Replicas :
         \/ Begin(r) \/ readMarker(r) \/ fresh(r) \/ createMany(r) \/ writeMarker(r) \/ readNames(r) \/ fillNames(r)
         \/ readTemplate(r) \/ findProduct(r) \/ createProduct(r) \/ countTypes(r) \/ typesDone(r) \/ findType(r) \/ writeLabel(r)
         \/ placeSide(r) \/ retire(r) \/ findDefault(r) \/ createDefault(r)
    \/ \E p \in Replicas \cup {Admin} : createVariant(p) \/ createStock(p) \/ createType(p) \/ Crash(p)
    \/ \E l \in Edited, k \in Keys : deleteRow(l, k) \/ \E G \in Names : createRow(l, k, G) \/ updateRow(l, k, G)
    \/ "threads" \in Edited /\ \E k \in Keys : countThreads(k) \/ deleteThread(k)
    \/ \E k \in Keys : "types" \in Edited /\ (createItemType(k) \/ deleteItemType(k))
    \/ "sides" \in Edited /\ updatePlacement
    \/ \E c \in Calls, combo \in Combos, on \in BOOLEAN : createRate(c, combo, on) \/ \E i \in Rates : updateRate(c, i, combo, on)
    \/ \E c \in Calls : writeRate(c) \/ \E i \in Rates : removeRate(c, i)

Spec == Init /\ [][Next]_vars
=============================================================================
