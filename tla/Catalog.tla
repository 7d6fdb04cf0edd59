------------------------------ MODULE Catalog ------------------------------
(* The variants and the photos of one product (src/catalog/products). Admins   *)
(* link variation attributes, generate the combinations of their values, edit  *)
(* variants by hand, and choose which photo each language's page shows. None   *)
(* of these calls locks the product: what a call checked, and the values a     *)
(* generation set out with, may change before it writes.                       *)
EXTENDS Naturals, FiniteSets

CONSTANTS
  Admins,
  Values,       \* VariantAttribute: attribute -> its option values
  Locales,      \* the storefront's languages
  Kinds,        \* the calls admins make: of "generate", "variant", "axis", "photo"
  MaxVariants,  \* bound: variants at a time
  MaxCalls      \* bound: calls started

VARIABLES
  active,       \* option values with isActive
  axes,         \* ProductVariantAttribute: linked attribute -> default option
  variants,     \* id -> what it combines ({}: a null hash), isDefault, its photo
  gallery,      \* where the photo is shown: "out" of the gallery, "all", a language
  swatches,     \* ProductOptionValueImage rows of the photo: <<option, locale>>
  call,         \* what each admin's call is at
  calls,
  alone,        \* no other call wrote since the admin's call, if any, began
  generated,    \* a generation has ended alone, and nothing was written since
  crossed       \* a call wrote what it had checked before another one wrote

vars == <<active, axes, variants, gallery, swatches, call, calls, alone, generated, crossed>>
Photos == <<gallery, swatches>>
Matrix == <<active, axes, variants>>

Options == UNION {Values[a] : a \in DOMAIN Values}
Ids == 1 .. MaxVariants
NoOption == "none"
NoVariant == [live |-> FALSE, combo |-> {}, main |-> FALSE, photo |-> FALSE]
Idle == [at |-> "idle"]
Everyone == ""          \* the locale of the default swatch photo

Live == {i \in Ids : variants[i].live}
With(combo) == {i \in Live : combo # {} /\ variants[i].combo = combo}

\* A set with one option of each attribute, out of those allowed.
Product(attrs, allowed) ==
  {c \in SUBSET (allowed \cap UNION {Values[a] : a \in attrs}) :
     \A a \in attrs : Cardinality(c \cap Values[a]) = 1}
Distinct == UNION {Product(A, Options) : A \in SUBSET DOMAIN Values}

TypeOK ==
  /\ active \subseteq Options /\ gallery \in {"out", "all"} \cup Locales
  /\ DOMAIN axes \subseteq DOMAIN Values /\ \A a \in DOMAIN axes : axes[a] \in Values[a] \cup {NoOption}
  /\ \A i \in Ids : variants[i] \in [live : BOOLEAN, combo : Distinct, main : BOOLEAN, photo : BOOLEAN]
  /\ swatches \subseteq Options \X (Locales \cup {Everyone})
  /\ alone \in [Admins -> BOOLEAN] /\ generated \in BOOLEAN /\ crossed \in BOOLEAN
  /\ calls \in 0 .. MaxCalls /\ \A p \in Admins : "at" \in DOMAIN call[p]

\* create: the default variant, without options; attributes may be linked since.
Init ==
  /\ active = Options
  /\ \E A \in SUBSET DOMAIN Values :
       axes \in {f \in [A -> Options \cup {NoOption}] : \A a \in A : f[a] \in Values[a] \cup {NoOption}}
  /\ variants = [i \in Ids |-> IF i = 1 THEN [NoVariant EXCEPT !.live = TRUE, !.main = TRUE] ELSE NoVariant]
  /\ gallery = "out" /\ swatches = {}
  /\ call = [p \in Admins |-> Idle] /\ calls = 0
  /\ alone = [p \in Admins |-> TRUE] /\ generated = FALSE /\ crossed = FALSE

-----------------------------------------------------------------------------
Begin(p, kind) ==
  /\ kind \in Kinds /\ call[p] = Idle /\ calls < MaxCalls
  /\ calls' = calls + 1

\* A call of one step: it has no reading of its own to go stale.
Wrote(p) ==
  /\ alone' = [q \in Admins |-> call[q] = Idle]
  /\ generated' = FALSE
  /\ UNCHANGED <<call, crossed>>

\* The first step of a call that writes later: it read, or refused.
Checked(p, kind, next) ==
  /\ Begin(p, kind)
  /\ call' = [call EXCEPT ![p] = next]
  /\ UNCHANGED <<Matrix, Photos, alone, generated, crossed>>

\* The last step of such a call.
Saved(p) ==
  /\ call' = [call EXCEPT ![p] = Idle]
  /\ alone' = [q \in Admins |-> call'[q] = Idle]
  /\ generated' = FALSE
  /\ crossed' = (crossed \/ ~alone[p])
  /\ UNCHANGED calls

\* The write is refused by the database, or nothing is left to write to.
Failed(p) ==
  /\ call' = [call EXCEPT ![p] = Idle]
  /\ alone' = [alone EXCEPT ![p] = TRUE]
  /\ UNCHANGED <<Matrix, Photos, calls, generated, crossed>>

-----------------------------------------------------------------------------
(* generateVariantCombinations: what it sets out to make is read once.         *)
Combinations == Product(DOMAIN axes, active)
DefaultCombo == IF NoOption \in {axes[a] : a \in DOMAIN axes} THEN {} ELSE {axes[a] : a \in DOMAIN axes}

StartGenerate(p) ==
  /\ DOMAIN axes # {} /\ \A a \in DOMAIN axes : Values[a] \cap active # {}
  /\ Checked(p, "generate", [at |-> "find", todo |-> Combinations, valid |-> Combinations, main |-> DefaultCombo])

\* A write of a generation that goes on.
Goes(p, next) ==
  /\ call' = [call EXCEPT ![p] = next]
  /\ alone' = [q \in Admins |-> call[q] = Idle \/ (q = p /\ alone[p])]
  /\ generated' = FALSE
  /\ UNCHANGED <<active, axes, Photos, calls, crossed>>

FindCombination(p) ==
  LET c == CHOOSE k \in call[p].todo : TRUE
      main == call[p].main IN
  /\ call[p].at = "find" /\ call[p].todo # {}
  /\ IF With(c) = {}
     THEN /\ call' = [call EXCEPT ![p].at = "create"]
          /\ UNCHANGED <<Matrix, Photos, calls, alone, generated, crossed>>
     ELSE /\ variants' = [i \in Ids |-> IF i \in With(c) /\ main # {}
                                        THEN [variants[i] EXCEPT !.main = (c = main)] ELSE variants[i]]
          /\ Goes(p, [call[p] EXCEPT !.todo = call[p].todo \ {c}])

\* In a transaction; @@unique([productId, combinationHash]) ends the call.
CreateCombination(p) ==
  LET c == CHOOSE k \in call[p].todo : TRUE IN
  /\ call[p].at = "create"
  /\ IF With(c) # {} THEN Failed(p)
     ELSE \E i \in Ids \ Live :
            /\ \A j \in Ids \ Live : i <= j
            /\ variants' = [variants EXCEPT ![i] =
                 [live |-> TRUE, combo |-> c, main |-> call[p].main = c, photo |-> FALSE]]
            /\ Goes(p, [call[p] EXCEPT !.at = "find", !.todo = call[p].todo \ {c}])

\* A mutant: the original variant, whose hash is null, is never compared.
DefaultedButNull(main) ==
  [i \in Ids |-> IF i \in Live /\ variants[i].combo # {}
                 THEN [variants[i] EXCEPT !.main = (variants[i].combo = main)] ELSE variants[i]]
Defaulted(main) ==
  [i \in Ids |-> IF i \in Live THEN [variants[i] EXCEPT !.main = (variants[i].combo = main)] ELSE variants[i]]

SetDefaults(p) ==
  /\ call[p].at = "find" /\ call[p].todo = {}
  /\ variants' = IF call[p].main = {} THEN variants ELSE Defaulted(call[p].main)
  /\ Goes(p, [call[p] EXCEPT !.at = "read"])

ReadStale(p) ==
  /\ call[p].at = "read"
  /\ call' = [call EXCEPT ![p] = [at |-> "prune", main |-> call[p].main,
       stale |-> {i \in Live : variants[i].combo # {} /\ variants[i].combo \notin call[p].valid}]]
  /\ UNCHANGED <<Matrix, Photos, calls, alone, generated, crossed>>

PruneStale(p) ==
  /\ call[p].at = "prune"
  /\ variants' = [i \in Ids |-> IF i \in call[p].stale THEN NoVariant ELSE variants[i]]
  /\ call' = [call EXCEPT ![p] = Idle]
  /\ alone' = [q \in Admins |-> call'[q] = Idle]
  /\ generated' = alone[p]
  /\ UNCHANGED <<active, axes, Photos, calls, crossed>>

Generate(p) ==
  \/ StartGenerate(p) \/ FindCombination(p) \/ CreateCombination(p)
  \/ SetDefaults(p) \/ ReadStale(p) \/ PruneStale(p)

-----------------------------------------------------------------------------
(* Variants by hand. A photo limited to a language is refused.                 *)
Shared == gallery \in {"out", "all"}

StartVariant(p) ==
  \E i \in {0} \cup Live, c \in Distinct, main \in BOOLEAN, photo \in BOOLEAN :
    /\ photo => Shared /\ "photo" \in Kinds
    /\ With(c) \subseteq {i}
    /\ i = 0 => c # {}
    /\ Checked(p, "variant", [at |-> "save", id |-> i, combo |-> c, main |-> main, photo |-> photo])

\* The attributes of its options are linked with it.
LinkedBy(c) == [a \in DOMAIN axes \cup {b \in DOMAIN Values : Values[b] \cap c # {}} |->
                  IF a \in DOMAIN axes THEN axes[a] ELSE NoOption]

\* addVariant makes a row (id 0), updateVariant changes one.
SaveVariant(p) ==
  LET w == call[p]
      row == [live |-> TRUE, combo |-> w.combo, main |-> w.main, photo |-> w.photo] IN
  /\ w.at = "save"
  /\ IF With(w.combo) \subseteq {w.id} /\ w.id \in {0} \cup Live
     THEN /\ \E i \in (IF w.id = 0 THEN Ids \ Live ELSE {w.id}) :
               /\ w.id = 0 => \A j \in Ids \ Live : i <= j
               /\ variants' = [variants EXCEPT ![i] = row]
          /\ axes' = LinkedBy(w.combo)
          /\ Saved(p) /\ UNCHANGED <<active, Photos>>
     ELSE Failed(p)

DeleteVariant(p) ==
  /\ Begin(p, "variant")
  /\ \E i \in Live : variants' = [variants EXCEPT ![i] = NoVariant]
  /\ Wrote(p) /\ UNCHANGED <<active, axes, Photos>>

-----------------------------------------------------------------------------
(* Attributes: addProductAttribute and updateProductAttribute,                 *)
(* removeProductAttribute, and an option value that is switched on or off.     *)
LinkAttribute(p) ==
  /\ Begin(p, "axis")
  /\ \E a \in DOMAIN Values : \E o \in Values[a] \cup {NoOption} :
       axes' = [b \in DOMAIN axes \cup {a} |-> IF b = a THEN o ELSE axes[b]]
  /\ Wrote(p) /\ UNCHANGED <<active, variants, Photos>>

UnlinkAttribute(p) ==
  /\ Begin(p, "axis")
  /\ \E a \in DOMAIN Values :
       LET left == {i \in Live : variants[i].combo \cap Values[a] = {}} IN
       /\ axes' = [b \in DOMAIN axes \ {a} |-> axes[b]]
       /\ variants' = [i \in Ids |->
            IF i \notin left THEN NoVariant
            ELSE IF left = {i} /\ variants[i].combo = {} THEN [variants[i] EXCEPT !.main = TRUE]
            ELSE variants[i]]
  /\ Wrote(p) /\ UNCHANGED <<active, Photos>>

SwitchOption(p) ==
  /\ Begin(p, "axis")
  /\ \E o \in Options : active' = IF o \in active THEN active \ {o} ELSE active \cup {o}
  /\ Wrote(p) /\ UNCHANGED <<axes, variants, Photos>>

-----------------------------------------------------------------------------
(* Photos. swatchPhotoFitsLocale: a photo outside the gallery is not checked.  *)
Fits(where, locale) == where \in {"out", "all"} \/ where = locale

\* assertVariantPhotosShared: what uses the photo must go on showing it.
HidesNothing(where) ==
  /\ \A i \in Live : variants[i].photo => where \in {"out", "all"}
  /\ \A s \in swatches : Fits(where, s[2])

StartGallery(p) ==
  \E where \in {"out", "all"} \cup Locales :
    /\ HidesNothing(where)
    /\ Checked(p, "photo", [at |-> "gallery", where |-> where])

SaveGallery(p) ==
  /\ call[p].at = "gallery"
  /\ gallery' = call[p].where
  /\ Saved(p) /\ UNCHANGED <<Matrix, swatches>>

\* setProductOptionImage: a language's photo needs the default to fall back on.
StartSwatch(p) ==
  \E a \in DOMAIN axes : \E o \in Values[a], l \in Locales \cup {Everyone} :
    /\ Fits(gallery, l)
    /\ l = Everyone \/ <<o, Everyone>> \in swatches
    /\ Checked(p, "photo", [at |-> "swatch", row |-> <<o, l>>])

SaveSwatch(p) ==
  /\ call[p].at = "swatch"
  /\ swatches' = swatches \cup {call[p].row}
  /\ Saved(p) /\ UNCHANGED <<Matrix, gallery>>

\* removeProductOptionImage: the default takes the languages' photos with it.
RemoveSwatch(p) ==
  /\ Begin(p, "photo")
  /\ \E s \in swatches : swatches' = {t \in swatches : t[1] # s[1] \/ (s[2] # Everyone /\ t # s)}
  /\ Wrote(p) /\ UNCHANGED <<Matrix, gallery>>

-----------------------------------------------------------------------------
(* What the product page picks from, and what its picks are.                   *)

\* getVariantAvailabilityMatrix: a linked attribute's active options, and the
\* variants; the original one, without options, only while nothing is linked.
OfferedOptions == [a \in DOMAIN axes |-> Values[a] \cap active]
OfferedVariants == IF DOMAIN axes = {} THEN Live ELSE {i \in Live : variants[i].combo # {}}
\* resolveVariant: the variant of the options picked; of none, none.
resolveVariant(options) == With(options)

-----------------------------------------------------------------------------
Next ==
  \E p \in Admins :
    \/ Generate(p)
    \/ StartVariant(p) \/ SaveVariant(p) \/ DeleteVariant(p)
    \/ LinkAttribute(p) \/ UnlinkAttribute(p) \/ SwitchOption(p)
    \/ StartGallery(p) \/ SaveGallery(p)
    \/ StartSwatch(p) \/ SaveSwatch(p) \/ RemoveSwatch(p)

Spec == Init /\ [][Next]_vars

-----------------------------------------------------------------------------
(* After a generation no other call wrote into, the variants with options are  *)
(* exactly the combinations the attributes make, whatever is picked on the     *)
(* page resolves to one variant it lists; and if every attribute has an active *)
(* default, one variant, of the defaults, is the default one: not the          *)
(* product's original variant beside it.                                       *)
GeneratedMatrix ==
  generated =>
    /\ {variants[i].combo : i \in Live} \ {{}} = Combinations
    /\ \A pick \in Product(DOMAIN axes, UNION {OfferedOptions[a] : a \in DOMAIN axes}) :
         \E i \in OfferedVariants : resolveVariant(pick) = {i}
    /\ DefaultCombo \in Combinations =>
         \E i \in Live : variants[i].combo = DefaultCombo /\ {j \in Live : variants[j].main} = {i}

(* As long as no call writes on a reading another's write made stale, a photo  *)
(* a variant shows is shown in all languages, a language's swatch photo in     *)
(* that language, and an option with a language's photo has a default one, in  *)
(* whatever order gallery, variants and swatches are edited.                   *)
PhotosShown ==
  crossed \/
    /\ \A i \in Live : variants[i].photo => gallery \notin Locales
    /\ \A s \in swatches : gallery \in Locales => gallery = s[2]
    /\ \A s \in swatches : <<s[1], Everyone>> \in swatches
=============================================================================
