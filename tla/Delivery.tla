------------------------------ MODULE Delivery ------------------------------
(***************************************************************************)
(* Where the shop delivers.  A replica that boots seeds the countries      *)
(* (CountriesService) and the zones with their methods (ShippingService);  *)
(* the admin edits both; a visitor is told whether the shop delivers to    *)
(* him, from a cache (ShippingDestinationService); and the carrier is      *)
(* asked for pickup points with a token (SendcloudPickupPointProvider),    *)
(* their localities from an index (PickupPointLocalitiesService).          *)
(***************************************************************************)
EXTENDS Integers, Sequences, FiniteSets

CONSTANTS
    Replicas, SeedOf,    \* processes that boot, the COUNTRY_SEED each was built with
    Codes, Six,          \* country codes, and the ones of the relay network
    Parts, Old,          \* "countries" or "zones" are seeded; the installation is older than the marks
    Zones,               \* ids
    Visitors, Calls, Keys,
    MaxBoots, MaxEdits, MaxFaults   \* bounds

VARIABLES
    country, enabled,    \* shop_countries, and those active and shipped to
    marker,              \* countries_seeded_iso_codes, NoMarker before it was written
    zone, methods,       \* shop_shipping_zones, shop_shipping_methods
    boot, boots,
    cache, visit,        \* the process's answers, and the visitors asking
    keys, token, idx, inFlight, call,   \* the saved key pair, the process's token, the index in Redis, the sweep under way
    edits, faults,
    \* history
    deleted, owed,       \* the seeded countries the admin deleted; those of the builds that have booted
    met, stopped,        \* a boot crossed another or an edit; one stopped midway
    disturbed,           \* a boot changed what a customer is quoted
    own, relisted,       \* the carrier the admin gave the relay method; a zone's list was edited
    stale,               \* countries edited since the cached answer was read
    dead, refused, again, rekeyed   \* key pairs the carrier no longer takes; those whose token was refused; such a token was sent once more; keys were saved over a token

vars == <<country, enabled, marker, zone, methods, boot, boots, cache, visit, keys, token, idx, inFlight, call,
          edits, faults, deleted, owed, met, stopped, disturbed, own, relisted, stale, dead, refused, again, rekeyed>>
seeds == <<country, enabled, marker, zone, methods, boot, boots, deleted, owed, met, stopped, disturbed, own, relisted>>
strip == <<cache, visit, stale>>
carrier == <<keys, token, idx, inFlight, call, dead, refused, again, rekeyed>>
countries == <<country, enabled, marker, deleted, owed>>
zones == <<zone, methods, disturbed, own, relisted>>

None == "none"
NoMarker == {None}
NoZone == [name |-> None, active |-> FALSE, lists |-> {}]
Method(z, n, on, by) == [zone |-> z, name |-> n, active |-> on, carrier |-> by]
Idle == [at |-> "idle", seen |-> {}, pending |-> {}, zone |-> 0]

-----------------------------------------------------------------------------
(* What a customer is quoted: the active methods of the active zones that  *)
(* list his country or list none; an opt-in method for a basket that did.  *)

There == {z \in Zones : zone[z].name # None}
Active == {z \in There : zone[z].active}
resolveZonesForCountry(c) == {z \in Active : zone[z].lists = {} \/ c \in zone[z].lists}
quoteZones(S, optIn) == {m \in methods : m.zone \in S /\ m.active /\ (m.name = "relay" => optIn)}
getMethodsForCountry(c, optIn) == quoteZones(resolveZonesForCountry(c), optIn)
Quoted == [c \in Codes |-> getMethodsForCountry(c, TRUE)]
Delivers(c) == c \in enabled /\ getMethodsForCountry(c, FALSE) # {}
Restale ==
    /\ stale' = stale \cup {c \in Codes : Delivers(c)' # Delivers(c)}
    /\ visit' = [v \in Visitors |-> [visit[v] EXCEPT !.crossed = visit[v].at # "idle"]]

-----------------------------------------------------------------------------
(* A boot.                                                                 *)

Boots(r) == \E q \in Replicas \ {r} : boot[q].at # "idle"
Begin(r, part, at, new) ==
    /\ boot[r].at = "idle" /\ part \in Parts /\ boots < MaxBoots /\ boots' = boots + 1
    /\ boot' = [boot EXCEPT ![r] = [new EXCEPT !.at = at]]
    /\ met' = (met \/ Boots(r))
To(r, at) == boot' = [boot EXCEPT ![r].at = at]
Ended(r) == boot' = [boot EXCEPT ![r] = Idle]
Fails(r) == Ended(r) /\ stopped' = TRUE

readSeededCodes(r) ==
    /\ Begin(r, "countries", IF marker = NoMarker THEN "count" ELSE "insert",
             [Idle EXCEPT !.seen = marker, !.pending = IF marker = NoMarker THEN {} ELSE SeedOf[r] \ marker])
    /\ UNCHANGED <<countries, zones, strip, carrier, edits, faults, stopped>>
\* Fresh is an empty table: any other is taken to have been seeded.
isFreshInstall(r) == country = {}
countCountries(r) ==
    /\ boot[r].at = "count"
    /\ boot' = [boot EXCEPT ![r].at = "insert",
                            ![r].seen = IF isFreshInstall(r) THEN {} ELSE SeedOf[r],
                            ![r].pending = IF isFreshInstall(r) THEN SeedOf[r] ELSE {}]
    /\ deleted' = IF country = {} THEN {} ELSE deleted
    /\ UNCHANGED <<country, enabled, marker, owed, zones, strip, carrier, boots, edits, faults, met, stopped>>
insertPending(r) ==
    /\ boot[r].at = "insert"
    /\ country' = country \cup boot[r].pending
    /\ enabled' = enabled \cup (boot[r].pending \ country)
    /\ To(r, "mark")
    /\ UNCHANGED <<marker, deleted, owed, zones, cache, carrier, boots, edits, faults, met, stopped>>
    /\ Restale
writeSeededCodes(r) ==
    /\ boot[r].at = "mark"
    /\ marker' = boot[r].seen \cup boot[r].pending
    /\ owed' = owed \cup SeedOf[r]
    /\ Ended(r)
    /\ UNCHANGED <<country, enabled, deleted, zones, strip, carrier, boots, edits, faults, met, stopped>>

\* The zones: a worldwide one when there is none at all, then the relay method.
Free == Zones \ There
countZones(r) ==
    /\ Begin(r, "zones", IF There = {} THEN "world" ELSE "relay", Idle)
    /\ UNCHANGED <<countries, zones, strip, carrier, edits, faults, stopped>>
createWorld(r) ==
    /\ boot[r].at = "world"
    /\ \E z \in Free :
         /\ \A y \in Free : z <= y
         /\ zone' = [zone EXCEPT ![z] = [name |-> "Worldwide", active |-> TRUE, lists |-> {}]]
         /\ boot' = [boot EXCEPT ![r].at = "methods", ![r].zone = z]
    /\ UNCHANGED <<countries, methods, disturbed, own, relisted, strip, carrier, boots, edits, faults, met, stopped>>
createMethods(r) ==
    LET z == boot[r].zone IN
    /\ boot[r].at = "methods"
    /\ IF z \in There
       THEN methods' = methods \cup {Method(z, "standard", TRUE, None), Method(z, "express", TRUE, None)} /\ To(r, "relay") /\ UNCHANGED stopped
       ELSE UNCHANGED methods /\ Fails(r)
    /\ UNCHANGED <<countries, zone, disturbed, own, relisted, cache, carrier, boots, edits, faults, met>>
    /\ Restale
Relay == {m \in methods : m.name = "relay"}
findRelay(r) ==
    /\ boot[r].at = "relay"
    /\ IF Relay = {} THEN To(r, "cover")
       ELSE IF \E m \in Relay : m.carrier = None THEN To(r, "repair") ELSE Ended(r)
    /\ UNCHANGED <<countries, zones, strip, carrier, boots, edits, faults, met, stopped>>
repair(r) ==
    /\ boot[r].at = "repair"
    /\ IF Relay = {} THEN UNCHANGED methods /\ Fails(r)
       ELSE methods' = (methods \ Relay) \cup {[m EXCEPT !.carrier = "mondial_relay"] : m \in Relay} /\ Ended(r) /\ UNCHANGED stopped
    /\ UNCHANGED <<countries, zone, disturbed, own, relisted, strip, carrier, boots, edits, faults, met>>
Covers(z) == Six \subseteq zone[z].lists
Found(r, S, other) ==
    IF S = {} THEN To(r, other) ELSE \E z \in S : boot' = [boot EXCEPT ![r].at = "method", ![r].zone = z]
findZoneCovering(r) ==
    /\ boot[r].at = "cover" /\ Found(r, {z \in Active : Covers(z)}, "byName")
    /\ UNCHANGED <<countries, zones, strip, carrier, boots, edits, faults, met, stopped>>
findByName(r) ==
    /\ boot[r].at = "byName" /\ Found(r, {z \in There : zone[z].name = "Relay"}, "zone")
    /\ UNCHANGED <<countries, zones, strip, carrier, boots, edits, faults, met, stopped>>
RelayZone(r) == [name |-> "Relay", active |-> FALSE, lists |-> Six]
createMondialRelayZone(r) ==
    /\ boot[r].at = "zone"
    /\ \E z \in Free :
         /\ \A y \in Free : z <= y
         /\ zone' = [zone EXCEPT ![z] = RelayZone(r)]
         /\ boot' = [boot EXCEPT ![r].at = "method", ![r].zone = z]
    /\ UNCHANGED <<countries, methods, own, relisted, strip, carrier, boots, edits, faults, met, stopped>>
    /\ disturbed' = (disturbed \/ Quoted' # Quoted)
\* A second row of the code, or one of a zone that is gone, fails the boot.
Seeded(r) == Method(boot[r].zone, "relay", FALSE, "mondial_relay")
createRelay(r) ==
    /\ boot[r].at = "method"
    /\ IF boot[r].zone \in There /\ Relay = {}
       THEN methods' = methods \cup {Seeded(r)} /\ Ended(r) /\ UNCHANGED stopped
       ELSE UNCHANGED methods /\ Fails(r)
    /\ own' = None
    /\ UNCHANGED <<countries, zone, relisted, strip, carrier, boots, edits, faults, met>>
    /\ disturbed' = (disturbed \/ Quoted' # Quoted)
Crash(r) ==
    /\ boot[r].at # "idle" /\ faults < MaxFaults /\ faults' = faults + 1
    /\ Fails(r)
    /\ UNCHANGED <<countries, zones, strip, carrier, boots, edits, met>>

-----------------------------------------------------------------------------
(* The visitor: the country he chose if the shop delivers there, else the  *)
(* one of his address; each answered from the cache, or read and kept.     *)

NoVisit == [at |-> "idle", codes |-> <<>>, crossed |-> FALSE]
resolve(v, hint, ip) ==
    /\ visit[v].at = "idle"
    /\ visit' = [visit EXCEPT ![v] = [NoVisit EXCEPT !.at = "ask", !.codes = IF hint = ip THEN <<hint>> ELSE <<hint, ip>>]]
    /\ UNCHANGED <<seeds, cache, stale, carrier, edits, faults>>
Onwards(v, yes) ==
    visit' = [visit EXCEPT ![v] = IF yes \/ Len(visit[v].codes) = 1 THEN NoVisit
                                  ELSE [NoVisit EXCEPT !.at = "ask", !.codes = Tail(visit[v].codes)]]
deliveryWindow(v) ==
    LET c == Head(visit[v].codes) IN
    /\ visit[v].at = "ask"
    /\ IF cache[c] = None THEN visit' = [visit EXCEPT ![v].at = "country", ![v].crossed = FALSE] ELSE Onwards(v, cache[c] = "yes")
    /\ UNCHANGED <<seeds, cache, stale, carrier, edits, faults>>
Keep(v, yes) ==
    LET c == Head(visit[v].codes) IN
    /\ cache' = [cache EXCEPT ![c] = IF yes THEN "yes" ELSE "no"]
    /\ stale' = IF visit[v].crossed THEN stale \cup {c} ELSE stale \ {c}
    /\ Onwards(v, yes)
Shipped(v) == Head(visit[v].codes) \in enabled
readCountry(v) ==
    /\ visit[v].at = "country"
    /\ IF Shipped(v) THEN visit' = [visit EXCEPT ![v].at = "quote"] /\ UNCHANGED <<cache, stale>> ELSE Keep(v, FALSE)
    /\ UNCHANGED <<seeds, carrier, edits, faults>>
computeWindow(v) ==
    /\ visit[v].at = "quote"
    /\ Keep(v, getMethodsForCountry(Head(visit[v].codes), FALSE) # {})
    /\ UNCHANGED <<seeds, carrier, edits, faults>>
CacheEnds(c) ==
    /\ cache[c] # None /\ cache' = [cache EXCEPT ![c] = None] /\ stale' = stale \ {c}
    /\ UNCHANGED <<seeds, visit, carrier, edits, faults>>

\* The product page: the first country of the two that is served, or every
\* option, asked once for each set of zones that serves some country.
allMethods(optIn) ==
    LET catchAll == {z \in Active : zone[z].lists = {}}
        zoneSets == {{z \in Active : c \in zone[z].lists} \cup catchAll : c \in enabled}
    IN  UNION {quoteZones(S, optIn) : S \in zoneSets}
productOptions(hint, ip, optIn) ==
    LET served == {c \in {hint, ip} : c \in enabled /\ getMethodsForCountry(c, optIn) # {}}
        first == IF hint \in served THEN hint ELSE IF ip \in served THEN ip ELSE None
    IN  [country |-> first, methods |-> IF first = None THEN allMethods(optIn) ELSE getMethodsForCountry(first, optIn)]

-----------------------------------------------------------------------------
(* The admin.                                                              *)

Edit ==
    /\ edits < MaxEdits /\ edits' = edits + 1
    /\ met' = (met \/ \E r \in Replicas : boot[r].at # "idle")
    /\ Restale
    /\ UNCHANGED <<boot, boots, cache, carrier, faults, stopped, marker, owed, disturbed>>
\* Nobody edits before a first process is up.
Up == Old \/ owed # {}
createCountry(c) ==
    /\ Up /\ c \notin country /\ country' = country \cup {c} /\ deleted' = deleted \ {c}
    /\ UNCHANGED <<enabled, zone, methods, own, relisted>> /\ Edit
patchCountry(c) ==
    /\ c \in country /\ enabled' = IF c \in enabled THEN enabled \ {c} ELSE enabled \cup {c}
    /\ UNCHANGED <<country, deleted, zone, methods, own, relisted>> /\ Edit
removeCountry(c) ==
    /\ c \in country /\ country' = country \ {c} /\ enabled' = enabled \ {c} /\ deleted' = deleted \cup ({c} \cap (IF Old THEN Codes ELSE owed))
    /\ UNCHANGED <<zone, methods, own, relisted>> /\ Edit
createZone(z, S) ==
    /\ z \in Free /\ zone' = [zone EXCEPT ![z] = [name |-> "own", active |-> TRUE, lists |-> S]]
    /\ UNCHANGED <<country, enabled, deleted, methods, own, relisted>> /\ Edit
updateZone(z, S) ==
    /\ z \in There
    /\ \/ zone' = [zone EXCEPT ![z].active = ~ @] /\ UNCHANGED relisted
       \/ zone' = [zone EXCEPT ![z].lists = S] /\ relisted' = relisted \cup {z}
    /\ UNCHANGED <<country, enabled, deleted, methods, own>> /\ Edit
\* The methods go with the zone.
deleteZone(z) ==
    LET gone == {m \in methods : m.zone = z} IN
    /\ z \in There /\ zone' = [zone EXCEPT ![z] = NoZone]
    /\ methods' = methods \ gone
    /\ own' = IF Relay \cap gone # {} THEN None ELSE own
    /\ relisted' = relisted \ {z}
    /\ UNCHANGED <<country, enabled, deleted>> /\ Edit
createMethod(z) ==
    LET m == Method(z, "own", TRUE, None) IN
    /\ z \in There /\ m \notin methods /\ methods' = methods \cup {m}
    /\ UNCHANGED <<country, enabled, deleted, zone, own, relisted>> /\ Edit
updateMethod(m) ==
    /\ \/ methods' = (methods \ {m}) \cup {[m EXCEPT !.active = ~ @]} /\ UNCHANGED own
       \/ m.name = "relay" /\ methods' = (methods \ {m}) \cup {[m EXCEPT !.carrier = "other"]} /\ own' = "other"
    /\ UNCHANGED <<country, enabled, deleted, zone, relisted>> /\ Edit
deleteMethod(m) ==
    /\ methods' = methods \ {m}
    /\ own' = IF m.name = "relay" THEN None ELSE own
    /\ UNCHANGED <<country, enabled, deleted, zone, relisted>> /\ Edit

-----------------------------------------------------------------------------
(* The carrier: a call loads the keys, takes the token that is kept or     *)
(* mints one, asks with it or with the keys, and drops what is refused.    *)
(* A token is named by its keys.                                           *)

NoCall == [op |-> "idle", at |-> "idle", keys |-> 0, tok |-> 0, ok |-> FALSE]
To2(c, at) == call' = [call EXCEPT ![c].at = at]
\* A search that fails is an error, a sweep that fails an empty index.
Failed(c) == IF call[c].op = "build" THEN [call[c] EXCEPT !.at = "write", !.ok = FALSE] ELSE NoCall
Answered(c) == IF call[c].op = "build" THEN [call[c] EXCEPT !.at = "write", !.ok = TRUE] ELSE NoCall

search(c) ==
    /\ call[c].at = "idle" /\ call' = [call EXCEPT ![c] = [NoCall EXCEPT !.op = "search", !.at = "creds"]]
    /\ UNCHANGED <<seeds, strip, keys, token, idx, inFlight, dead, refused, again, rekeyed, edits, faults>>
loadCredentials(c) ==
    /\ call[c].at = "creds"
    /\ call' = [call EXCEPT ![c] = IF keys = 0 THEN Failed(c)
                                   ELSE [call[c] EXCEPT !.keys = keys, !.tok = token, !.at = IF token = 0 THEN "mint" ELSE "ask"]]
    /\ again' = (again \/ (keys # 0 /\ token \in refused))
    /\ UNCHANGED <<seeds, strip, keys, token, idx, inFlight, dead, refused, rekeyed, edits, faults>>
\* Refused, the keys themselves are sent.
accessToken(c) ==
    /\ call[c].at = "mint"
    /\ \/ call[c].keys \notin dead /\ token' = call[c].keys /\ UNCHANGED faults
       \/ call[c].keys \in dead /\ UNCHANGED <<token, faults>>
       \/ faults < MaxFaults /\ faults' = faults + 1 /\ UNCHANGED token
    /\ call' = [call EXCEPT ![c].at = "ask", ![c].tok = IF faults' = faults /\ call[c].keys \notin dead THEN call[c].keys ELSE 0]
    /\ UNCHANGED <<seeds, strip, keys, idx, inFlight, dead, refused, again, rekeyed, edits>>
Dropped(c) == 0
get(c) ==
    LET sent == IF call[c].tok # 0 THEN call[c].tok ELSE call[c].keys IN
    /\ call[c].at = "ask"
    /\ \/ /\ sent \notin dead /\ call' = [call EXCEPT ![c] = Answered(c)]
          /\ UNCHANGED <<token, refused, rekeyed, faults>>
       \/ /\ sent \in dead /\ call' = [call EXCEPT ![c] = Failed(c)]
          /\ token' = Dropped(c)
          /\ refused' = IF call[c].tok # 0 THEN refused \cup {sent} ELSE refused
          /\ rekeyed' = (\E d \in Calls \ {c} : call[d].at = "mint" /\ call[d].keys # keys)
          /\ UNCHANGED faults
       \/ /\ faults < MaxFaults /\ faults' = faults + 1 /\ call' = [call EXCEPT ![c] = Failed(c)]
          /\ UNCHANGED <<token, refused, rekeyed>>
    /\ UNCHANGED <<seeds, strip, keys, idx, inFlight, dead, again, edits>>
TokenEnds ==
    /\ token # 0 /\ token' = 0
    /\ UNCHANGED <<seeds, strip, keys, idx, inFlight, call, dead, refused, again, rekeyed, edits, faults>>
\* Saving or removing a pair (0) leaves the token of the one before it.
saveKeys(k) ==
    /\ keys # k /\ edits < MaxEdits /\ edits' = edits + 1 /\ keys' = k
    /\ rekeyed' = (rekeyed \/ token # 0 \/ \E c \in Calls : call[c].at = "mint")
    /\ UNCHANGED <<seeds, strip, token, idx, inFlight, call, dead, refused, again, faults>>
Revoke(k) ==
    /\ k \notin dead /\ dead' = dead \cup {k}
    /\ UNCHANGED <<seeds, strip, keys, token, idx, inFlight, call, refused, again, rekeyed, edits, faults>>

\* The index: read from Redis, or the sweep under way, or one begun.
suggest(c) ==
    /\ call[c].at = "idle"
    /\ \/ idx = None /\ UNCHANGED faults
       \/ faults < MaxFaults /\ faults' = faults + 1
    /\ call' = [call EXCEPT ![c] = [NoCall EXCEPT !.op = "suggest", !.at = "missed"]]
    /\ UNCHANGED <<seeds, strip, keys, token, idx, inFlight, dead, refused, again, rekeyed, edits>>
Pending(c) == inFlight
index(c) ==
    /\ call[c].at = "missed"
    /\ IF Pending(c) THEN To2(c, "joined") /\ UNCHANGED inFlight
       ELSE call' = [call EXCEPT ![c] = [NoCall EXCEPT !.op = "build", !.at = "creds"]] /\ inFlight' = TRUE
    /\ UNCHANGED <<seeds, strip, keys, token, idx, dead, refused, again, rekeyed, edits, faults>>
build(c) ==
    /\ call[c].at = "write"
    /\ \/ idx' = (IF call[c].ok THEN "full" ELSE "empty") /\ UNCHANGED faults
       \/ faults < MaxFaults /\ faults' = faults + 1 /\ UNCHANGED idx
    /\ inFlight' = FALSE
    /\ call' = [d \in Calls |-> IF d = c \/ call[d].at = "joined" THEN NoCall ELSE call[d]]
    /\ UNCHANGED <<seeds, strip, keys, token, dead, refused, again, rekeyed, edits>>
IndexEnds ==
    /\ idx # None /\ idx' = None
    /\ UNCHANGED <<seeds, strip, keys, token, inFlight, call, dead, refused, again, rekeyed, edits, faults>>

-----------------------------------------------------------------------------
Init ==
    /\ country \in (IF Old THEN SUBSET Codes ELSE {{}}) /\ enabled = country /\ marker = NoMarker
    /\ zone = [z \in Zones |-> IF Old /\ z = 1 THEN [name |-> "Relay", active |-> FALSE, lists |-> Six] ELSE NoZone]
    /\ methods = IF Old /\ Zones # {} THEN {Method(1, "relay", FALSE, None)} ELSE {}
    /\ boot = [r \in Replicas |-> Idle] /\ boots = 0
    /\ cache = [c \in Codes |-> None] /\ visit = [v \in Visitors |-> NoVisit]
    /\ keys = 0 /\ token = 0 /\ idx = None /\ inFlight = FALSE /\ call = [c \in Calls |-> NoCall]
    /\ edits = 0 /\ faults = 0
    /\ deleted = (IF Old THEN Codes \ country ELSE {}) /\ owed = {} /\ met = FALSE /\ stopped = FALSE /\ disturbed = FALSE
    /\ own = None /\ relisted = {} /\ stale = {}
    /\ dead = {} /\ refused = {} /\ again = FALSE /\ rekeyed = FALSE

Next ==
    \/ \E r \in Replicas :
         \/ readSeededCodes(r) \/ countCountries(r) \/ insertPending(r) \/ writeSeededCodes(r)
         \/ countZones(r) \/ createWorld(r) \/ createMethods(r) \/ findRelay(r) \/ repair(r)
         \/ findZoneCovering(r) \/ findByName(r) \/ createMondialRelayZone(r) \/ createRelay(r) \/ Crash(r)
    \/ \E v \in Visitors :
         \/ \E hint, ip \in Codes : resolve(v, hint, ip)
         \/ deliveryWindow(v) \/ readCountry(v) \/ computeWindow(v)
    \/ \E c \in Codes :
         CacheEnds(c) \/ ("countries" \in Parts /\ (createCountry(c) \/ patchCountry(c) \/ removeCountry(c)))
    \/ \E z \in Zones :
         \/ \E S \in {{}, Six} : createZone(z, S) \/ updateZone(z, S)
         \/ deleteZone(z) \/ createMethod(z)
    \/ \E m \in methods : updateMethod(m) \/ deleteMethod(m)
    \/ \E c \in Calls : search(c) \/ loadCredentials(c) \/ accessToken(c) \/ get(c) \/ suggest(c) \/ index(c) \/ build(c)
    \/ \E k \in Keys \cup {0} : saveKeys(k)
    \/ \E k \in Keys : Revoke(k)
    \/ TokenEnds \/ IndexEnds

Spec == Init /\ [][Next]_vars

TypeOK ==
    /\ enabled \subseteq country /\ country \subseteq Codes /\ owed \cup deleted \cup stale \subseteq Codes
    /\ \A m \in methods : m.zone \in There
    /\ boots \in 0 .. MaxBoots /\ edits \in 0 .. MaxEdits /\ faults \in 0 .. MaxFaults
    /\ token \in Keys \cup {0} /\ refused \subseteq dead /\ idx \in {None, "full", "empty"}

\* A country the admin deleted does not come back at a boot, and those of every build
\* that has booted on a new installation are there; one worldwide zone and one of the
\* relay are seeded, the relay's method in one that lists its six countries, and of the
\* carrier the admin gave it; all of it unless a boot met an edit or another boot, or
\* stopped midway.  A boot changes nothing a customer is quoted once there is a zone.
SeededOnce ==
    /\ met \/ stopped \/
         /\ country \cap deleted = {}
         /\ Old \/ owed \subseteq country \cup deleted
         /\ \A n \in {"Worldwide", "Relay"} : Cardinality({z \in There : zone[z].name = n}) <= 1
         /\ \A m \in Relay : /\ Six \subseteq zone[m.zone].lists \/ m.zone \in relisted
                             /\ own # None => m.carrier = own
    /\ ~ disturbed

\* What a visitor is told of a country is what the checkout would quote, unless it was
\* edited since it was read; and the product page offers what some country is quoted.
StripTrue ==
    /\ \A c \in Codes : cache[c] # None /\ c \notin stale => (cache[c] = "yes" <=> Delivers(c))
    /\ \A hint, ip \in Codes, optIn \in BOOLEAN :
         LET o == productOptions(hint, ip, optIn)
             all == {c \in enabled : getMethodsForCountry(c, optIn) # {}}
         IN  /\ o.country = None <=> {hint, ip} \cap all = {}
             /\ o.methods = UNION {getMethodsForCountry(c, optIn) : c \in IF o.country = None THEN all ELSE {o.country}}

\* A refused token is not sent again by a call that begins later; the token kept is of
\* the keys that are saved, unless they were saved over one; one sweep runs at a time,
\* and whoever waits is waiting for it.
CarrierHeard ==
    /\ ~ again
    /\ token # 0 => token = keys \/ rekeyed
    /\ Cardinality({c \in Calls : call[c].op = "build"}) = IF inFlight THEN 1 ELSE 0
    /\ (\E c \in Calls : call[c].at = "joined") => inFlight
=============================================================================
