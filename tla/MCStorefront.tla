---------------------------- MODULE MCStorefront ----------------------------
(* The storefront on small instances.  Its components share no state, so TLC   *)
(* need not mix their steps: one moves, and the others wait at the start.      *)
EXTENDS Storefront

Tries == [k \in {"create", "render-pdf", "send-email"} |-> 2]

\* Bounds: a basket that goes to the checkout holds plain caps, put there by at
\* most two edits, and four checkout requests follow the first edit; a reminder
\* is due after one edit; two phone requests at a time see one code and no crash.
CartBound ==
    /\ calls' > 0 => edits' <= 2 /\ \A k \in Designs \cup Others : lines'[k].qty = 0
    /\ edits' + calls' <= 5
    /\ abandonment' \in {"active", "failed"} => edits' <= 1
PhoneBound == overlapped' # {} => Len(codes') < MaxCodes /\ crashes' = 0

\* One visitor knows the email of an order and reads its phone, the other only
\* knows the phone.
Reader == [knows |-> {"a"}, reads |-> {"p"}]
Knower == [knows |-> {"p"}, reads |-> {}]
People == {Reader, Knower}
Concerns(o) ==
    \E v \in Visitors :
        o \in links'[v] \cup sockets'[v] \/ ask'[v].order = o \/ \E g \in grants'[v] : g.order = o
Elsewhere ==
    /\ moves' = 0 /\ outages' = 0 /\ wrote' = {} /\ quota'["q"].n = 0 /\ sockets'[Reader] = {}
    /\ grants'[Knower] = {} /\ sockets'[Knower] = {} /\ ask'[Knower].at = "idle"
\* Bounds: the second order is known by an email, and one visitor asks for its
\* page and is granted it, while the other waits and nothing about the first has
\* changed; Redis fails before anyone writes, and not where a contact changes.
AccessBound ==
    /\ Concerns("q") => Elsewhere
    /\ moves' > 0 => outages' = 0 /\ grants'[Knower] = {}
    /\ outages' > 0 => wrote' = {} /\ \A v \in Visitors : sockets'[v] = {}
    /\ contact'["q"] = [email |-> "a", phone |-> Access!None]

VARIABLE turn   \* the component that plays

AloneInit ==
    /\ ShopInit
    /\ turn \in {"jobs", "cart", "phone", "receipts", "access", "admins"}
    /\ turn # "access" => \A o \in Followed : contact[o] = [email |-> "a", phone |-> "p"]

AloneNext ==
    /\ UNCHANGED turn
    /\ \/ /\ turn = "jobs" /\ Next
          /\ UNCHANGED <<cartVars, phoneVars, receiptVars, accessVars, adminVars>>
       \/ /\ turn = "cart" /\ Checkout!Next /\ CartBound
          /\ UNCHANGED <<vars, phoneVars, receiptVars, accessVars, adminVars>>
       \/ /\ turn = "phone" /\ Phone!Next /\ PhoneBound
          /\ UNCHANGED <<vars, cartVars, receiptVars, accessVars, adminVars>>
       \/ /\ turn = "receipts" /\ Documents!Next
          /\ UNCHANGED <<vars, cartVars, phoneVars, accessVars, adminVars>>
       \/ /\ turn = "access" /\ Access!Next /\ AccessBound
          /\ UNCHANGED <<vars, cartVars, phoneVars, receiptVars, adminVars>>
       \/ /\ turn = "admins" /\ Sessions!Next
          /\ UNCHANGED <<vars, cartVars, phoneVars, receiptVars, accessVars>>

Alone == AloneInit /\ [][AloneNext]_<<turn, shopVars>>
=============================================================================
