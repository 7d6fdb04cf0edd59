-------------------------- MODULE Personalization --------------------------
(***************************************************************************)
(* Embroidery on what the shop sells or on an item the customer sends      *)
(* (PersonalizationService, SendInService's item types, the admin's        *)
(* studio).  A design is measured, priced and frozen when it is quoted and *)
(* added; the basket, the order and the operator's sheet read the frozen   *)
(* document while the admin goes on editing the studio.                    *)
(*                                                                         *)
(* Lengths are tenths of a millimetre, the resolution everything is        *)
(* rounded to.  A text's measured width and height are part of the input;  *)
(* a box lies flat or is turned by a quarter.  Faces are left out, and a   *)
(* motif drawn without a spool is one with colours of its own.             *)
(***************************************************************************)
EXTENDS Integers, Sequences, FiniteSetsExt

CONSTANTS
    Inputs,     \* designs customers draw: [place, item, extent, boxes], each box
                \* [kind, motif, thread, w, h, x, y, turned]
    Places,     \* positions of the product
    OwnPlaces,  \* those that take the customer's photo (usesCustomerPhoto)
    Motifs, Threads, ItemTypes,
    Prices,     \* cents the admin types
    MaxEdits, MaxAdds   \* bounds: the admin's edits, designs added

NoItem == "none"
NoMotif == "none"
NoThread == "none"
FIELD_MIN == 150
HOOP_MARGIN == 40
Largest == [w |-> 3000, h |-> 2000]   \* FIELD_MAX_WIDTH_MM, FIELD_MAX_HEIGHT_MM
Travel == [w |-> 1500, h |-> 750]     \* MAX_TRAVEL_FACTOR of the traced panel

VARIABLES
    enabled,   \* the product has a template, and it is active
    place,     \* position rows
    motif,     \* the design library
    wall,      \* spools: there, and active
    gate,      \* send_in_enabled
    item,      \* the send-in item types
    line,      \* basket lines, by the design they carry: units and fee
    jobs,      \* lines of placed orders, each with its sheet
    quoted,    \* what customers were quoted for the units of a line
    edits, adds

studio == <<enabled, place, motif, wall, gate, item>>
vars == <<enabled, place, motif, wall, gate, item, line, jobs, quoted, edits, adds>>

Gone == "gone"
On(row) == row.st = "active"

Init ==
    /\ enabled = TRUE /\ gate = TRUE
    /\ place = [p \in Places |-> [st |-> "active", photo |-> TRUE, price |-> Min(Prices)]]
    /\ motif = [m \in Motifs |-> [st |-> "active", price |-> Max(Prices), art |-> 1]]
    /\ wall = [t \in Threads |-> "active"]
    /\ item = [t \in ItemTypes |-> [st |-> "active", price |-> Max(Prices)]]
    /\ line = <<>> /\ quoted = <<>> /\ jobs = {}
    /\ edits = 0 /\ adds = 0

-----------------------------------------------------------------------------
(* Measuring.                                                              *)

\* Half the footprint of a box: a turned box reaches as far as its other side.
Half(b) == IF b.turned THEN [x |-> b.h, y |-> b.w] ELSE [x |-> b.w, y |-> b.h]
Clamp(n, low, high) == Max({low, Min({high, n})})
ARTWORK_MIN == 200

\* A box as it is measured: it travels no further than the panel allows, a
\* logo is as large as the photo at most, and a shape on lettering counts only
\* while it is in the library.
Moved(b) == [b EXCEPT !.x = Clamp(@, - Travel.w, Travel.w), !.y = Clamp(@, - Travel.h, Travel.h)]
Placed(i, b) ==
    [Moved(b) EXCEPT !.w = IF b.kind = "artwork" THEN Clamp(@, ARTWORK_MIN, i.extent.w) ELSE @,
              !.h = IF b.kind = "artwork" THEN Clamp(@, 10, i.extent.h) ELSE @,
              !.motif = IF b.kind = "artwork" \/ @ = NoMotif \/ ~ On(motif[@]) THEN NoMotif ELSE @]

\* The hoop of some boxes: positions in half tenths, so that halves are whole.
Hoop(bs) ==
    LET B == {bs[i] : i \in DOMAIN bs}
        left == Min({2 * b.x - Half(b).x : b \in B})
        right == Max({2 * b.x + Half(b).x : b \in B})
        top == Min({2 * b.y - Half(b).y : b \in B})
        bottom == Max({2 * b.y + Half(b).y : b \in B})
        side(a, z) == Max({FIELD_MIN, (z - a + 1) \div 2 + 2 * HOOP_MARGIN})
    IN [w |-> side(left, right), h |-> side(top, bottom),
        x |-> (left + right + 2) \div 4, y |-> (top + bottom + 2) \div 4]

\* How large a design may be: the machine's frame, or the customer's photo.
Bounds(i) == IF i.item = NoItem THEN Largest ELSE i.extent

-----------------------------------------------------------------------------
(* resolve: what is accepted, and the document it freezes.                 *)

PlaceFits(i) ==
    /\ enabled /\ On(place[i.place])
    /\ IF i.place \in OwnPlaces
       THEN i.item # NoItem /\ gate /\ On(item[i.item])
       ELSE i.item = NoItem /\ place[i.place].photo

OwnColours(b) == b.kind = "motif" /\ b.thread = NoThread

BoxFits(i, b) ==
    /\ b.kind = "artwork" => i.place \in OwnPlaces
    /\ b.kind = "motif" => b.motif # NoMotif
    /\ b.kind = "artwork" \/ OwnColours(b) \/ (b.thread # NoThread /\ wall[b.thread] = "active")
    /\ b.w <= Bounds(i).w /\ b.h <= Bounds(i).h

Boxes(i) == [k \in DOMAIN i.boxes |-> Placed(i, i.boxes[k])]

Accepted(i) ==
    /\ PlaceFits(i)
    /\ \A k \in DOMAIN i.boxes : BoxFits(i, Boxes(i)[k])
    /\ Hoop(Boxes(i)).w <= Bounds(i).w /\ Hoop(Boxes(i)).h <= Bounds(i).h

WithMotif(bs) == {k \in DOMAIN bs : bs[k].motif # NoMotif}
Price(i) ==
    MapThenSumSet(LAMBDA k : motif[Boxes(i)[k].motif].price, WithMotif(Boxes(i)))
      + (IF i.item = NoItem THEN place[i.place].price ELSE item[i.item].price)

\* A box as the document keeps it: re-expressed from the hoop's centre, the
\* motif with its artwork as it was.
Frozen(i, b) ==
    [kind |-> b.kind, motif |-> b.motif, art |-> IF b.motif = NoMotif THEN 0 ELSE motif[b.motif].art,
     thread |-> b.thread, w |-> b.w, h |-> b.h, turned |-> b.turned,
     x |-> b.x - Hoop(Boxes(i)).x, y |-> b.y - Hoop(Boxes(i)).y]

Design(i) ==
    [place |-> i.place, item |-> i.item, field |-> Hoop(Boxes(i)), price |-> Price(i),
     boxes |-> [k \in DOMAIN i.boxes |-> Frozen(i, Boxes(i)[k])]]

\* A mutant: the identity of a design leaves its price out.
HashUnpriced(d) == [d EXCEPT !.price = 0]
Hash(d) == d

-----------------------------------------------------------------------------
(* The basket, the order and the floor.                                    *)


\* addItem: the same design joins its line, at the fee the line has.
Add(i) ==
    LET d == Design(i)  h == Hash(d) IN
    /\ adds < MaxAdds /\ adds' = adds + 1
    /\ Accepted(i)
    /\ line' = [k \in DOMAIN line \cup {h} |->
                  IF k # h THEN line[k]
                  ELSE IF h \in DOMAIN line THEN [line[h] EXCEPT !.qty = @ + 1]
                  ELSE [qty |-> 1, fee |-> d.price, doc |-> d]]
    /\ quoted' = [k \in DOMAIN line' |-> IF k = h THEN {d} \cup (IF h \in DOMAIN quoted THEN quoted[h] ELSE {})
                                         ELSE quoted[k]]
    /\ UNCHANGED <<studio, jobs, edits>>

\* What is drawn of a box, at its place, its size and its angle: a frame for a
\* logo, else its shapes, else its words in their spool.
Drawn(b) ==
    [what |-> IF b.kind = "artwork" THEN <<"frame">> ELSE IF b.motif # NoMotif THEN <<b.motif, b.art>>
              ELSE <<"words", b.thread>>,
     x |-> b.x, y |-> b.y, w |-> b.w, h |-> b.h, turned |-> b.turned]
Redrawn(d) == [field |-> d.field, boxes |-> [k \in DOMAIN d.boxes |-> Drawn(d.boxes[k])]]
Sheet(d) == Redrawn(d)
NoSheet == <<>>

\* createFromCart copies the lines; a sheet that cannot be drawn is left out.
PlaceOrder(failing) ==
    /\ line # <<>>
    /\ jobs' = jobs \cup {[doc |-> line[h].doc, fee |-> line[h].fee, quoted |-> quoted[h],
                           sheet |-> IF failing THEN NoSheet ELSE Sheet(line[h].doc)] : h \in DOMAIN line}
    /\ line' = <<>> /\ quoted' = <<>>
    /\ UNCHANGED <<studio, edits, adds>>

\* The operator opens a job: a missing sheet is drawn from the document.
OpenArtwork(j) ==
    /\ j.sheet = NoSheet
    /\ jobs' = (jobs \ {j}) \cup {[j EXCEPT !.sheet = Sheet(j.doc)]}
    /\ UNCHANGED <<studio, line, quoted, edits, adds>>

-----------------------------------------------------------------------------
(* The studio.                                                             *)

SetProductTemplate == enabled' = ~ enabled /\ UNCHANGED <<place, motif, wall, gate, item>>
SetEnabled == gate' = ~ gate /\ UNCHANGED <<enabled, place, motif, wall, item>>

UpdatePlacement(p) ==
    /\ place[p].st # Gone
    /\ \/ \E st \in {"active", "off"} : place' = [place EXCEPT ![p].st = st]
       \/ \E ph \in BOOLEAN : place' = [place EXCEPT ![p].photo = ph]
       \/ \E c \in Prices : place' = [place EXCEPT ![p].price = c]
    /\ UNCHANGED <<enabled, motif, wall, gate, item>>
\* A position is created with no photo, or with one; a deleted one may be
\* made again, if the product can be personalised.
CreatePlacement(p) ==
    /\ place[p].st = Gone /\ p \notin OwnPlaces /\ enabled
    /\ \E ph \in BOOLEAN, c \in Prices :
         place' = [place EXCEPT ![p] = [st |-> "active", photo |-> ph, price |-> c]]
    /\ UNCHANGED <<enabled, motif, wall, gate, item>>
DeletePlacement(p) ==
    /\ place[p].st # Gone
    /\ place' = [place EXCEPT ![p].st = Gone]
    /\ UNCHANGED <<enabled, motif, wall, gate, item>>

UpdateMotif(m) ==
    /\ motif[m].st # Gone
    /\ \/ \E st \in {"active", "off"} : motif' = [motif EXCEPT ![m].st = st]
       \/ \E c \in Prices : motif' = [motif EXCEPT ![m].price = c]
       \/ motif' = [motif EXCEPT ![m].art = 3 - @]
    /\ UNCHANGED <<enabled, place, wall, gate, item>>
DeleteMotif(m) ==
    /\ motif[m].st # Gone
    /\ motif' = [motif EXCEPT ![m].st = Gone]
    /\ UNCHANGED <<enabled, place, wall, gate, item>>

\* A deleted design may be uploaded again under its key.
CreateMotif(m) ==
    /\ motif[m].st = Gone
    /\ \E c \in Prices, a \in {1, 2} : motif' = [motif EXCEPT ![m] = [st |-> "active", price |-> c, art |-> a]]
    /\ UNCHANGED <<enabled, place, wall, gate, item>>

CreateThread(t) ==
    /\ wall[t] = Gone
    /\ wall' = [wall EXCEPT ![t] = "active"]
    /\ UNCHANGED <<enabled, place, motif, gate, item>>
UpdateThread(t) ==
    /\ wall[t] # Gone
    /\ \E st \in {"active", "off"} : wall' = [wall EXCEPT ![t] = st]
    /\ UNCHANGED <<enabled, place, motif, gate, item>>
\* The last active spool is not removable (it may be switched off all the same).
DeleteThread(t) ==
    /\ wall[t] # Gone /\ \E u \in Threads \ {t} : wall[u] = "active"
    /\ wall' = [wall EXCEPT ![t] = Gone]
    /\ UNCHANGED <<enabled, place, motif, gate, item>>

CreateItemType(t) ==
    /\ item[t].st = Gone
    /\ \E c \in Prices, st \in {"active", "off"} : item' = [item EXCEPT ![t] = [st |-> st, price |-> c]]
    /\ UNCHANGED <<enabled, place, motif, wall, gate>>
UpdateItemType(t) ==
    /\ item[t].st # Gone
    /\ \/ \E st \in {"active", "off"} : item' = [item EXCEPT ![t].st = st]
       \/ \E c \in Prices : item' = [item EXCEPT ![t].price = c]
    /\ UNCHANGED <<enabled, place, motif, wall, gate>>
\* Once sold, an item type is switched off instead of deleted.
DeleteItemType(t) ==
    /\ item[t].st # Gone
    /\ item' = [item EXCEPT ![t].st = IF \E j \in jobs : j.doc.item = t THEN "off" ELSE Gone]
    /\ UNCHANGED <<enabled, place, motif, wall, gate>>

Edit ==
    /\ edits < MaxEdits /\ edits' = edits + 1
    /\ \/ SetProductTemplate \/ SetEnabled
       \/ \E p \in Places : UpdatePlacement(p) \/ CreatePlacement(p) \/ DeletePlacement(p)
       \/ \E m \in Motifs : CreateMotif(m) \/ UpdateMotif(m) \/ DeleteMotif(m)
       \/ \E t \in Threads : CreateThread(t) \/ UpdateThread(t) \/ DeleteThread(t)
       \/ \E t \in ItemTypes : CreateItemType(t) \/ UpdateItemType(t) \/ DeleteItemType(t)
    /\ UNCHANGED <<line, jobs, quoted, adds>>

Next ==
    \/ Edit
    \/ \E i \in Inputs : Add(i)
    \/ \E failing \in BOOLEAN : PlaceOrder(failing)
    \/ \E j \in jobs : OpenArtwork(j)

Spec == Init /\ [][Next]_vars

-----------------------------------------------------------------------------
(* What the storefront offers (getConfigForProduct, SendInService.config,  *)
(* personalizationOffers).                                                 *)

Configured == enabled /\ \E t \in Threads : wall[t] = "active"
Catalogued == {p \in Places \ OwnPlaces : On(place[p]) /\ place[p].photo}
OfferedPlaces == {p \in Places : On(place[p]) /\ (p \in OwnPlaces \/ place[p].photo)}
OfferedItems == IF gate /\ enabled THEN {t \in ItemTypes : On(item[t])} ELSE {}

Offered(i) ==
    /\ Configured /\ i.place \in OfferedPlaces
    /\ i.place \in OwnPlaces => i.item \in OfferedItems
    /\ \A k \in DOMAIN i.boxes :
         LET b == i.boxes[k] IN
         /\ b.motif # NoMotif => On(motif[b.motif])
         /\ b.thread # NoThread => wall[b.thread] = "active"

FromCents == Min({place[p].price : p \in Catalogued})
Plain(p, t) ==
    [place |-> p, item |-> NoItem, extent |-> Largest,
     boxes |-> <<[kind |-> "text", motif |-> NoMotif, thread |-> t, w |-> 300, h |-> 100,
                  x |-> 0, y |-> 0, turned |-> FALSE]>>]

Fits(d) ==
    \A k \in DOMAIN d.boxes :
        LET b == d.boxes[k] IN
        /\ Max({2 * b.x + Half(b).x, Half(b).x - 2 * b.x}) <= d.field.w
        /\ Max({2 * b.y + Half(b).y, Half(b).y - 2 * b.y}) <= d.field.h

TypeOK ==
    /\ \A h \in DOMAIN line : line[h].qty \in 1 .. MaxAdds /\ line[h].fee >= 0
    /\ DOMAIN quoted = DOMAIN line
    /\ \A p \in Places : place[p] \in [st : {"active", "off", Gone}, photo : BOOLEAN, price : Prices]
    /\ \A m \in Motifs : motif[m] \in [st : {"active", "off", Gone}, price : Prices, art : {1, 2}]
    /\ wall \in [Threads -> {"active", "off", Gone}] /\ enabled \in BOOLEAN /\ gate \in BOOLEAN
    /\ edits \in 0 .. MaxEdits /\ adds \in 0 .. MaxAdds

\* Whatever the admin changes, retires or deletes afterwards, every unit of a
\* line and of an order is charged the fee it was quoted, the operator's sheet
\* is the drawing that was quoted, also when it is first drawn long after, and
\* every box, turned as it is, lies within the hoop frozen with it.
DesignKept ==
    /\ \A h \in DOMAIN line : \A q \in quoted[h] : line[h].fee = q.price /\ Fits(line[h].doc)
    /\ \A j \in jobs : \A q \in j.quoted :
         /\ j.fee = q.price
         /\ j.sheet # NoSheet => j.sheet = Redrawn(q)

\* What the editor offers is what the basket takes, whatever is switched off in
\* the studio: a design made of offered parts is refused for its size only, and
\* "from" is the price of the cheapest design of the shop's own positions that
\* can really be had.
OfferHonoured ==
    /\ \A i \in Inputs : Offered(i) =>
         PlaceFits(i) /\ \A k \in DOMAIN i.boxes : BoxFits(i, [Boxes(i)[k] EXCEPT !.w = 10, !.h = 10])
    /\ Configured /\ Catalogued # {} =>
         /\ \E p \in Catalogued, t \in Threads : Accepted(Plain(p, t)) /\ Price(Plain(p, t)) = FromCents
         /\ \A i \in Inputs : Accepted(i) /\ i.item = NoItem => FromCents <= Price(i)
=============================================================================
