------------------------------ MODULE Pricing -------------------------------
(***************************************************************************)
(* What a basket costs and how it may be delivered: automatic promotions,  *)
(* price rules and one coupon (PricingEngineService, PriceRulesService),   *)
(* and the shipping quote (ShippingService).  Two customers preview a      *)
(* coupon, place their orders and pay, while the admin switches offers on  *)
(* and off and each payment uses the coupon up.                            *)
(*                                                                         *)
(* Amounts are cents.  isActive and the validity window are one switch; a  *)
(* coupon typed in any case is its normalised code.                        *)
(***************************************************************************)
EXTENDS Integers, Sequences, FiniteSetsExt

CONSTANTS
    Customers,
    Baskets,     \* Baskets[b]: lines [variant, product, quantity, price]
    Category,    \* Category[p]: the category of product p
    Promotions,  \* automatic: [id, type, value, scope, of, priority]
    PriceRules,  \* [id, type, value, scope, of, minQty, priority]
    Coupons,     \* [type, value, scope, of, minOrder, max], max 0: no limit
    Zones,       \* zone -> [countries, surcharge, freeFrom]
    Methods,     \* [id, zone, price, freeFrom, optIn, upgrade]
    OptedIn,     \* OptedIn[p]: opt-in methods that product p allows
    FreeProducts, \* products that ship free
    Upgrades,    \* Upgrades[p]: upgrade methods that free product p allows
    Countries,
    MaxSwitches  \* bound: switches by the admin

Never == 1000000     \* freeFrom of a zone or method that is never free
NoOrder == [st |-> "none", basket |-> <<>>, off |-> 0, total |-> 0, used |-> FALSE, free |-> FALSE]

VARIABLES
    basket,    \* the basket of each customer
    live,      \* ids of the promotions, rules and methods switched on
    coupon,
    couponOn,
    uses,      \* coupon.usesCount
    order,     \* each customer's order
    switches
vars == <<basket, live, coupon, couponOn, uses, order, switches>>

SmallerOf(a, b) == IF a < b THEN a ELSE b
Amount(l) == l.price * l.quantity
SumOver(ls, f(_)) == MapThenSumSet(LAMBDA i : f(ls[i]), DOMAIN ls)

\* computeDiscount: percentages round half up, a fixed amount stops at the base.
Percent(base, value) == (base * value + 50) \div 100
Discount(type, value, base) ==
    CASE type = "percentage" -> Percent(base, value)
      [] type = "fixed_amount" -> SmallerOf(value, base)
      [] OTHER -> 0

InScope(p, l) ==
    \/ p.scope = "site_wide"
    \/ p.scope = "category" /\ Category[l.product] \in p.of
    \/ p.scope = "product" /\ l.product \in p.of

\* The highest priority wins, and within it the best discount.
Best(ps, worth(_)) ==
    IF ps = {} THEN 0
    ELSE Max({worth(p) : p \in {q \in ps : \A r \in ps : r.priority <= q.priority}})

PromotionOff(l) ==
    LET ps == {p \in Promotions : p.id \in live /\ p.type # "free_shipping" /\ InScope(p, l)}
    IN SmallerOf(Best(ps, LAMBDA p : Discount(p.type, p.value, Amount(l))), Amount(l))

RuleMatches(r, l) ==
    \/ r.scope = "global"
    \/ r.scope = "product" /\ l.product \in r.of
    \/ r.scope = "variant" /\ l.variant \in r.of
RuleWorth(r, l) ==
    CASE r.type = "percentage_off" -> Percent(Amount(l), r.value)
      [] r.type = "fixed_off" -> SmallerOf(r.value, Amount(l))
      [] OTHER -> IF Amount(l) > r.value * l.quantity THEN Amount(l) - r.value * l.quantity ELSE 0
RuleOff(l) ==
    Best({r \in PriceRules : r.id \in live /\ l.quantity >= r.minQty /\ RuleMatches(r, l)},
         LAMBDA r : RuleWorth(r, l))

\* The discounts are kept by variant: of two lines of one variant (a plain cap
\* and an embroidered one) the last to earn one decides for both.
RuleOffOf(ls, v) ==
    LET earning == {i \in DOMAIN ls : ls[i].variant = v /\ RuleOff(ls[i]) > 0}
    IN IF earning = {} THEN 0 ELSE RuleOff(ls[Max(earning)])

\* A rule is layered on the promotion and stops at what that left.
LineTotal(ls, l) ==
    LET left == Amount(l) - PromotionOff(l) IN left - SmallerOf(RuleOffOf(ls, l.variant), left)

Subtotal(ls) == SumOver(ls, Amount)
AfterOffers(ls) == SumOver(ls, LAMBDA l : LineTotal(ls, l))
AutoFree(ls) == \E p \in Promotions : p.id \in live /\ p.type = "free_shipping" /\ \E i \in DOMAIN ls : InScope(p, ls[i])

UnderCap == coupon.max = 0 \/ uses < coupon.max
Eligible(ls) == SumOver(ls, LAMBDA l : IF InScope(coupon, l) THEN LineTotal(ls, l) ELSE 0)
Enough(ls) == Eligible(ls) >= coupon.minOrder

\* A mutant: the order takes a coupon below its minimum.
GrantedBelow(ls) == couponOn /\ UnderCap
\* compute(): the coupon on what the offers left.
Granted(ls) == couponOn /\ UnderCap /\ Enough(ls)
CouponOff(ls) ==
    IF Granted(ls) THEN SmallerOf(Discount(coupon.type, coupon.value, Eligible(ls)), AfterOffers(ls)) ELSE 0
CouponFree(ls) == Granted(ls) /\ coupon.type = "free_shipping" /\ Eligible(ls) > 0
Free(ls, typed) == AutoFree(ls) \/ (typed /\ CouponFree(ls))

\* validateCoupon(): the same promise, made by other code.
Preview(ls) ==
    IF ~ couponOn THEN [valid |-> FALSE, off |-> 0, free |-> FALSE]
    ELSE IF ~ UnderCap \/ Eligible(ls) < coupon.minOrder THEN [valid |-> FALSE, off |-> 0, free |-> FALSE]
    ELSE IF coupon.type = "free_shipping" THEN [valid |-> TRUE, off |-> 0, free |-> Eligible(ls) > 0]
    ELSE [valid |-> TRUE, free |-> FALSE,
          off |-> SmallerOf(Discount(coupon.type, coupon.value, Eligible(ls)), AfterOffers(ls))]

-----------------------------------------------------------------------------
(* The shipping quote. *)

Listed(c) == {z \in DOMAIN Zones : c \in Zones[z].countries}
CatchAll == {z \in DOMAIN Zones : Zones[z].countries = {}}
ZonesFor(c) == Listed(c) \cup CatchAll
Products(ls) == {ls[i].product : i \in DOMAIN ls}

\* An opt-in method is offered only if every product allows it.
Offerable(c, ps) ==
    {m \in Methods : /\ m.id \in live
                     /\ m.zone \in ZonesFor(c)
                     /\ m.optIn => ps # {} /\ \A p \in ps : m.id \in OptedIn[p]}
Priced(m, total) ==
    IF total >= Zones[m.zone].freeFrom \/ total >= m.freeFrom THEN 0 ELSE m.price + Zones[m.zone].surcharge

\* Free by the products, all of them, or by a promotion or a coupon; only the
\* products know of upgrades.
resolveShippingContext(ps, promoFree) ==
    LET byProducts == ps # {} /\ ps \subseteq FreeProducts
    IN [free |-> byProducts \/ promoFree,
        upgrades |-> IF byProducts THEN UNION {Upgrades[p] : p \in ps} ELSE {}]

\* Methods kept for free shipping are sold only as upgrades of it, unless the
\* zones have no other.
QuoteFor(c, ps, total, ctx) ==
    LET methods == Offerable(c, ps)
        ordinary == {m \in methods : ~ m.upgrade}
        pool == IF ordinary = {} THEN methods ELSE ordinary
    IN IF ZonesFor(c) = {} THEN {}
       ELSE IF ctx.free
       THEN {[id |-> "free", price |-> 0]}
            \cup {[id |-> m.id, price |-> m.price + Zones[m.zone].surcharge] : m \in {n \in methods : n.upgrade /\ n.id \in ctx.upgrades}}
       ELSE {[id |-> m.id, price |-> Priced(m, total)] : m \in pool}

\* toSnapshot: what the customer chooses from.
Snapshot(ls, country, promoFree) ==
    QuoteFor(country, Products(ls), Subtotal(ls), resolveShippingContext(Products(ls), promoFree))

-----------------------------------------------------------------------------
Switchable == {p.id : p \in Promotions} \cup {r.id : r \in PriceRules} \cup {m.id : m \in Methods}

Init ==
    /\ basket \in [Customers -> Baskets]
    /\ live = Switchable
    /\ coupon \in Coupons
    /\ couponOn = TRUE
    /\ uses = 0
    /\ order = [c \in Customers |-> NoOrder]
    /\ switches = 0

\* The order is priced as the offers stand; the typed code may give nothing.
Place(c) ==
    /\ order[c].st = "none"
    /\ \E typed \in BOOLEAN :
        LET ls == basket[c]
            off == IF typed THEN CouponOff(ls) ELSE 0
        IN order' = [order EXCEPT ![c] =
              [st |-> "open", basket |-> ls, off |-> off, total |-> AfterOffers(ls) - off,
               used |-> typed /\ (off > 0 \/ CouponFree(ls)), free |-> Free(ls, typed)]]
    /\ UNCHANGED <<basket, live, coupon, couponOn, uses, switches>>

\* Delivery is chosen from the quote and added to the total.
Ship(c) ==
    /\ order[c].st = "open"
    /\ \E country \in Countries :
       \E q \in Snapshot(order[c].basket, country, order[c].free) :
          order' = [order EXCEPT ![c].st = "shipped", ![c].total = order[c].total + q.price]
    /\ UNCHANGED <<basket, live, coupon, couponOn, uses, switches>>

\* The transition to paid counts the use, whatever the cap.
Pay(c) ==
    /\ order[c].st = "shipped"
    /\ order' = [order EXCEPT ![c].st = "paid"]
    /\ uses' = IF order[c].used THEN uses + 1 ELSE uses
    /\ UNCHANGED <<basket, live, coupon, couponOn, switches>>

Switch ==
    /\ switches < MaxSwitches
    /\ switches' = switches + 1
    /\ \/ /\ \E x \in Switchable : live' = SymDiff(live, {x})
          /\ UNCHANGED couponOn
       \/ couponOn' = ~ couponOn /\ UNCHANGED live
    /\ UNCHANGED <<basket, coupon, uses, order>>

Next == Switch \/ \E c \in Customers : Place(c) \/ Ship(c) \/ Pay(c)
Spec == Init /\ [][Next]_vars

-----------------------------------------------------------------------------
TypeOK ==
    /\ live \subseteq Switchable
    /\ uses \in 0 .. Cardinality(Customers)
    /\ \A c \in Customers : order[c].total \in Int

\* Whatever is live, the preview of a coupon and the order placed at that
\* moment agree on what it takes off and whether it ships free, and no pile of
\* promotion, rule and coupon takes an order below zero.
PreviewHonoured ==
    \A c \in Customers :
        LET ls == basket[c] IN
        /\ CouponOff(ls) = Preview(ls).off
        /\ CouponFree(ls) = Preview(ls).free
        /\ CouponOff(ls) <= AfterOffers(ls)
        /\ order[c].total >= 0

\* A narrow zone never takes the catch-all away: where the catch-all offers an
\* ordinary method, every basket has a delivery to choose, and one that ships
\* free, by a promotion or by its products, is offered it for nothing
\* (resolveZonesForCountry, quoteZones, resolveShippingContext).
NeverStranded ==
    \A c \in Customers, country \in Countries :
        LET quote(free) == Snapshot(basket[c], country, free)
        IN /\ (\E m \in Methods : m.id \in live /\ m.zone \in CatchAll /\ ~ m.optIn) => quote(FALSE) # {}
           /\ CatchAll # {} =>
                \A free \in BOOLEAN :
                   free \/ Products(basket[c]) \subseteq FreeProducts => \E q \in quote(free) : q.price = 0
=============================================================================
