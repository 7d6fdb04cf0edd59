------------------------------- MODULE MCShop -------------------------------
(* The components around the orders, each on small instances of its own. They  *)
(* share no state, so one plays at a time: the scene chosen at first. Their    *)
(* variables are the slots x1, x2, ..., in the order their modules declare     *)
(* them; the slots a scene does not need stay Off.                             *)
EXTENDS Integers, Sequences

VARIABLES act, scene   \* the scenes of an act are those of related components
VARIABLES x1, x2, x3, x4, x5, x6, x7, x8, x9, x10, x11, x12, x13, x14, x15, x16, x17, x18, x19,
          x20, x21, x22, x23, x24, x25, x26, x27, x28, x29

Off == 0

PricedLine(v, p, q, c) == [variant |-> v, product |-> p, quantity |-> q, price |-> c]
EmbBox(k, m, t, w, h, x, y, turned) ==
  [kind |-> k, motif |-> m, thread |-> t, w |-> w, h |-> h, x |-> x, y |-> y, turned |-> turned]
Row(p, w, d) == [price |-> p, was |-> w, default |-> d, here |-> TRUE]
Person == [honeypot |-> FALSE, fast |-> FALSE, turnstile |-> TRUE, links |-> 0, words |-> 1,
           disposable |-> FALSE, caps |-> TRUE, repeated |-> FALSE, agent |-> TRUE]
Build(lists, keys, langs) ==
  [l \in {"fonts", "threads", "categories", "motifs", "template", "types", "sides", "langs"} |->
     IF l = "langs" THEN langs ELSE IF l \in lists THEN keys ELSE {}]

-----------------------------------------------------------------------------
\* Three baskets, an automatic discount and a gift, two price rules, three coupons.
Pricing == INSTANCE Pricing WITH
  Customers <- {"a","b"},
  Baskets <- {<<PricedLine("cap","cap",1,333), PricedLine("cap","cap",5,450)>>, <<PricedLine("cap","cap",2,299), PricedLine("mug","mug",1,50)>>,
              <<PricedLine("mug","mug",3,700)>>},
  Category <- [p \in {"cap","mug"} |-> IF p = "cap" THEN "head" ELSE "home"],
  Promotions <- {[id |-> "auto", type |-> "percentage", value |-> 15, scope |-> "category", of |-> {"head"}, priority |-> 1],
                 [id |-> "gift", type |-> "free_shipping", value |-> 0, scope |-> "product", of |-> {"mug"}, priority |-> 0]},
  PriceRules <- {[id |-> "bulk", type |-> "override", value |-> 400, scope |-> "variant", of |-> {"cap"}, minQty |-> 5, priority |-> 0],
                 [id |-> "all", type |-> "fixed_off", value |-> 100, scope |-> "global", of |-> {}, minQty |-> 1, priority |-> 0]},
  Coupons <- {[type |-> "percentage", value |-> 50, scope |-> "site_wide", of |-> {}, minOrder |-> 500, max |-> 1],
              [type |-> "fixed_amount", value |-> 5000, scope |-> "product", of |-> {"cap"}, minOrder |-> 0, max |-> 0],
              [type |-> "free_shipping", value |-> 0, scope |-> "category", of |-> {"home"}, minOrder |-> 0, max |-> 0]},
  Zones <- [z \in {"world","relay"} |-> IF z = "world" THEN [countries |-> {}, surcharge |-> 0, freeFrom |-> 1000000]
              ELSE [countries |-> {"FR"}, surcharge |-> 20, freeFrom |-> 2000]],
  Methods <- {[id |-> "post", zone |-> "world", price |-> 500, freeFrom |-> 5000, optIn |-> FALSE, upgrade |-> FALSE],
              [id |-> "fast", zone |-> "world", price |-> 900, freeFrom |-> 1000000, optIn |-> FALSE, upgrade |-> TRUE],
              [id |-> "point", zone |-> "relay", price |-> 490, freeFrom |-> 1000000, optIn |-> TRUE, upgrade |-> FALSE]},
  OptedIn <- [p \in {"cap","mug"} |-> IF p = "cap" THEN {"point"} ELSE {}],
  FreeProducts <- {"mug"}, Upgrades <- [p \in {"cap","mug"} |-> {"fast"}], Countries <- {"FR","US"}, MaxSwitches <- 1,
  basket <- x1, live <- x2, coupon <- x3, couponOn <- x4, uses <- x5, order <- x6,
  switches <- x7
-----------------------------------------------------------------------------
\* One campaign to two addresses: with one fault; with addresses that come and go.
Newsletter == INSTANCE Newsletter WITH
  Subscribers <- {1, 2}, Processes <- {1, 2}, Attempts <- 2, MaxSends <- 2, MaxMoves <- 0,
  MaxFaults <- 1,
  subs <- x1, campaign <- x2, queue <- x3, rows <- x4, run <- x5, admin <- x6, posts <- x7,
  counts <- x8, loyal <- x9, paged <- x10, unnoted <- x11, doubled <- x12
Moves == INSTANCE Newsletter WITH
  Subscribers <- {1, 2}, Processes <- {1, 2}, Attempts <- 2, MaxSends <- 1, MaxMoves <- 2,
  MaxFaults <- 0,
  subs <- x1, campaign <- x2, queue <- x3, rows <- x4, run <- x5, admin <- x6, posts <- x7,
  counts <- x8, loyal <- x9, paged <- x10, unnoted <- x11, doubled <- x12
-----------------------------------------------------------------------------
\* An order's thread, deleted and created again; the widget's, with its admin.
Thread == INSTANCE Support WITH
  Kinds <- {"order"}, Sockets <- {"s1"}, Readers <- {"guest"}, MaxMessages <- 2, MaxThreads <- 2,
  MaxChanges <- 1,
  kind <- x1, thread <- x2, threads <- x3, messages <- x4, sock <- x5, call <- x6,
  reader <- x7, sweep <- x8, screen <- x9, due <- x10, written <- x11, changes <- x12,
  crossed <- x13, buried <- x14
Widget == INSTANCE Support WITH
  Kinds <- {"general"}, Sockets <- {"s1"}, Readers <- {"admin"}, MaxMessages <- 2, MaxThreads <- 1,
  MaxChanges <- 1,
  kind <- x1, thread <- x2, threads <- x3, messages <- x4, sock <- x5, call <- x6,
  reader <- x7, sweep <- x8, screen <- x9, due <- x10, written <- x11, changes <- x12,
  crossed <- x13, buried <- x14
-----------------------------------------------------------------------------
\* Two attributes whose combinations are generated; one whose options carry photos.
Matrix == INSTANCE Catalog WITH
  Admins <- {1}, Values <- [size |-> {"S", "M"}, colour |-> {"red"}], Locales <- {"fr"},
  Kinds <- {"generate", "variant", "axis"}, MaxVariants <- 5, MaxCalls <- 2,
  active <- x1, axes <- x2, variants <- x3, gallery <- x4, swatches <- x5, call <- x6,
  calls <- x7, alone <- x8, generated <- x9, crossed <- x10
Axes == INSTANCE Catalog WITH
  Admins <- {1, 2}, Values <- [size |-> {"S", "M"}, colour |-> {"red"}], Locales <- {"fr"},
  Kinds <- {"generate", "axis"}, MaxVariants <- 5, MaxCalls <- 2,
  active <- x1, axes <- x2, variants <- x3, gallery <- x4, swatches <- x5, call <- x6,
  calls <- x7, alone <- x8, generated <- x9, crossed <- x10
Photos == INSTANCE Catalog WITH
  Admins <- {1, 2}, Values <- [size |-> {"S"}], Locales <- {"fr"},
  Kinds <- {"variant", "photo"}, MaxVariants <- 1, MaxCalls <- 3,
  active <- x1, axes <- x2, variants <- x3, gallery <- x4, swatches <- x5, call <- x6,
  calls <- x7, alone <- x8, generated <- x9, crossed <- x10
-----------------------------------------------------------------------------
\* Three folders that are moved and deleted; a picture uploaded, shown and erased.
Tree == INSTANCE Media WITH
  Callers <- {1, 2}, Folders <- {1, 2, 3}, Keys <- {"k1", "k2"}, Products <- {"p1"},
  Kinds <- {"folder"}, MaxCalls <- 4,
  parent <- x1, rows <- x2, files <- x3, usages <- x4, shown <- x5, call <- x6, calls <- x7,
  alone <- x8, crossed <- x9
Assets == INSTANCE Media WITH
  Callers <- {1, 2}, Folders <- {1, 2, 3}, Keys <- {"k1", "k2"}, Products <- {"p1"},
  Kinds <- {"asset"}, MaxCalls <- 4,
  parent <- x1, rows <- x2, files <- x3, usages <- x4, shown <- x5, call <- x6, calls <- x7,
  alone <- x8, crossed <- x9
-----------------------------------------------------------------------------
\* A motif with turned words on the shop's cap, a logo with a shape on the customer's.
Embroidery == INSTANCE Personalization WITH
  Places <- {"front", "side"}, OwnPlaces <- {"side"}, Motifs <- {"rose"},
  Threads <- {"t1", "t2"}, ItemTypes <- {"cap"}, Prices <- {100, 300}, MaxEdits <- 2, MaxAdds <- 2,
  Inputs <- {[place |-> "front", item |-> "none", extent |-> [w |-> 3000, h |-> 2000],
              boxes |-> <<EmbBox("motif", "rose", "none", 301, 200, -1600, 5, FALSE),
                          EmbBox("text", "none", "t1", 1405, 210, 0, 100, TRUE)>>],
             [place |-> "side", item |-> "cap", extent |-> [w |-> 900, h |-> 800],
              boxes |-> <<EmbBox("artwork", "none", "none", 100, 700, 0, 0, FALSE),
                          EmbBox("text", "rose", "t2", 400, 100, 70, 31, TRUE)>>]},
  enabled <- x1, place <- x2, motif <- x3, wall <- x4, gate <- x5, item <- x6, line <- x7,
  jobs <- x8, quoted <- x9, edits <- x10, adds <- x11
-----------------------------------------------------------------------------
\* Two products, one of them edited: its price, its sale, its row in the index.
Shopfront == INSTANCE Listing WITH
  Products <- {"p", "q"}, Edited <- {"p"}, VariantsOf <- [p |-> <<"v1", "v2">>, q |-> <<"w">>],
  Categories <- {"caps", "hats"}, Under <- [wear |-> {"caps", "hats"}, caps |-> {"caps"}, hats |-> {"hats"}],
  Start <- [v1 |-> Row(0, 3, TRUE), v2 |-> Row(3, 0, FALSE), w |-> Row(2, 0, TRUE)],
  Prices <- {1, 3}, Admins <- {1, 2}, MaxEdits <- 2, MaxSyncs <- 2,
  product <- x1, variant <- x2, promoted <- x3, banner <- x4, index <- x5, syncs <- x6,
  call <- x7, edits <- x8, raced <- x9, silent <- x10, excused <- x11
-----------------------------------------------------------------------------
\* A product filed under a category while its filter is made; two categories.
Shelf == INSTANCE Shelves WITH
  Categories <- {"caps"}, Products <- {"p"}, Filters <- {"f"}, Values <- {"v1", "v2"},
  Admins <- {1, 2}, Kinds <- [a \in {1, 2} |-> IF a = 1 THEN {"product", "filter"} ELSE {"filter", "category"}],
  MaxCalls <- 3,
  parent <- x1, filter <- x2, value <- x3, cats <- x4, primary <- x5, pv <- x6, call <- x7,
  calls <- x8, unfilled <- x9, crossed <- x10
TwoShelves == INSTANCE Shelves WITH
  Categories <- {"caps", "wear"}, Products <- {"p"}, Filters <- {"f"}, Values <- {"v1"},
  Admins <- {1}, Kinds <- [a \in {1} |-> {"product", "filter", "category"}], MaxCalls <- 3,
  parent <- x1, filter <- x2, value <- x3, cats <- x4, primary <- x5, pv <- x6, call <- x7,
  calls <- x8, unfilled <- x9, crossed <- x10
-----------------------------------------------------------------------------
\* News of an order; of a payment declined twice; of a job that moves on; a backfill that two replicas run.
News == INSTANCE Notices WITH
  Happenings <- {"paid", "delivered", "cancelled", "low"},
  Customers <- [email : BOOLEAN, phone : {"none", "typed", "dial"}], Rows <- {{"none"}}, Replicas <- {},
  MaxEvents <- 1, MaxFaults <- 1, MaxSaves <- 1,
  to <- x1, smtp <- x2, custom <- x3, channels <- x4, row <- x5, marker <- x6, boots <- x7,
  job <- x8, news <- x9, hands <- x10, told <- x11, recent <- x12, faults <- x13, saves <- x14,
  lost <- x15, hourly <- x16, crowd <- x17, moved <- x18, unticked <- x19, together <- x20
Declined == INSTANCE Notices WITH
  Happenings <- {"unpaid"}, Customers <- {[email |-> TRUE, phone |-> "dial"]},
  Rows <- {{"none"}}, Replicas <- {}, MaxEvents <- 2, MaxFaults <- 1, MaxSaves <- 0,
  to <- x1, smtp <- x2, custom <- x3, channels <- x4, row <- x5, marker <- x6, boots <- x7,
  job <- x8, news <- x9, hands <- x10, told <- x11, recent <- x12, faults <- x13, saves <- x14,
  lost <- x15, hourly <- x16, crowd <- x17, moved <- x18, unticked <- x19, together <- x20
JobMoves == INSTANCE Notices WITH
  Happenings <- {"received", "returned"}, Customers <- {[email |-> TRUE, phone |-> "dial"]},
  Rows <- {{"none"}}, Replicas <- {}, MaxEvents <- 2, MaxFaults <- 0, MaxSaves <- 0,
  to <- x1, smtp <- x2, custom <- x3, channels <- x4, row <- x5, marker <- x6, boots <- x7,
  job <- x8, news <- x9, hands <- x10, told <- x11, recent <- x12, faults <- x13, saves <- x14,
  lost <- x15, hourly <- x16, crowd <- x17, moved <- x18, unticked <- x19, together <- x20
Backfill == INSTANCE Notices WITH
  Happenings <- {}, Customers <- {[email |-> TRUE, phone |-> "dial"]},
  Rows <- {{"none"}, {}, {"paid", "low"}}, Replicas <- {1, 2}, MaxEvents <- 0, MaxFaults <- 1, MaxSaves <- 2,
  to <- x1, smtp <- x2, custom <- x3, channels <- x4, row <- x5, marker <- x6, boots <- x7,
  job <- x8, news <- x9, hands <- x10, told <- x11, recent <- x12, faults <- x13, saves <- x14,
  lost <- x15, hourly <- x16, crowd <- x17, moved <- x18, unticked <- x19, together <- x20
-----------------------------------------------------------------------------
\* The code that signs in, asked for twice at once or while the account is edited.
AskedTwice == INSTANCE SignIn WITH
  Requests <- {1, 2}, RlMax <- 1, CooldownMax <- 1, MaxChallenges <- 1, MaxCodes <- 1,
  MaxEdits <- 0, MaxFaults <- 1,
  admin <- x1, alive <- x2, rl <- x3, cd <- x4, otp <- x5, codes <- x6, prompt <- x7,
  req <- x8, edits <- x9, faults <- x10, faulted <- x11, leaked <- x12
AskedEdited == INSTANCE SignIn WITH
  Requests <- {1}, RlMax <- 1, CooldownMax <- 1, MaxChallenges <- 1, MaxCodes <- 2,
  MaxEdits <- 1, MaxFaults <- 1,
  admin <- x1, alive <- x2, rl <- x3, cd <- x4, otp <- x5, codes <- x6, prompt <- x7,
  req <- x8, edits <- x9, faults <- x10, faulted <- x11, leaked <- x12
-----------------------------------------------------------------------------
\* An order's thread or the widget's, then two runs at once; texts for one phone, then a STOP beside a reminder.
Replied == INSTANCE Replies WITH
  Kinds <- {"order", "general"}, Reach <- {{"email"}, {"phone"}, {"email", "phone"}}, Workers <- {1},
  Attempts <- 2, MaxMessages <- 2, MaxEdits <- 1, MaxFaults <- 1,
  kind <- x1, reach <- x2, wanted <- x3, messages <- x4, delayed <- x5, queue <- x6,
  marks <- x7, run <- x8, log <- x9, edits <- x10, faults <- x11, told <- x12, last <- x13,
  notices <- x14, again <- x15, failed <- x16, hushed <- x17
TwoRuns == INSTANCE Replies WITH
  Kinds <- {"order"}, Reach <- {{"email", "phone"}}, Workers <- {1, 2},
  Attempts <- 2, MaxMessages <- 2, MaxEdits <- 0, MaxFaults <- 1,
  kind <- x1, reach <- x2, wanted <- x3, messages <- x4, delayed <- x5, queue <- x6,
  marks <- x7, run <- x8, log <- x9, edits <- x10, faults <- x11, told <- x12, last <- x13,
  notices <- x14, again <- x15, failed <- x16, hushed <- x17
Outbox == INSTANCE SmsOutbox WITH
  Numbers <- {"n"}, Gateways <- {1, 2}, Carts <- {}, MaxTexts <- 2, MaxFaults <- 1,
  rows <- x1, optedOut <- x2, poll <- x3, reply <- x4, cart <- x5, faults <- x6, handed <- x7,
  lost <- x8, met <- x9, answered <- x10
Stopped == INSTANCE SmsOutbox WITH
  Numbers <- {"n", "o"}, Gateways <- {1}, Carts <- {"c"}, MaxTexts <- 2, MaxFaults <- 0,
  rows <- x1, optedOut <- x2, poll <- x3, reply <- x4, cart <- x5, faults <- x6, handed <- x7,
  lost <- x8, met <- x9, answered <- x10
-----------------------------------------------------------------------------
\* The form of a checkout in two calls at once; in one, with the reminder and a fault.
Form == INSTANCE CheckoutSessions WITH
  Calls <- {1, 2}, Ops <- {"visit", "save", "complete"}, MaxWrites <- 2, MaxFaults <- 0,
  row <- x1, cache <- x2, call <- x3, writes <- x4, faults <- x5, told <- x6, closed <- x7,
  mixed <- x8
FormResumed == INSTANCE CheckoutSessions WITH
  Calls <- {1}, Ops <- {"visit", "save", "complete", "remind"}, MaxWrites <- 3, MaxFaults <- 1,
  row <- x1, cache <- x2, call <- x3, writes <- x4, faults <- x5, told <- x6, closed <- x7,
  mixed <- x8
-----------------------------------------------------------------------------
\* A review written, edited and moderated in two calls at once; one beside an imported one.
Reviewed == INSTANCE Reviews WITH
  Bought <- {"b"}, Imported <- {}, Calls <- {1, 2}, Senders <- {Person}, MaxEdits <- 3,
  MaxFaults <- 0,
  review <- x1, stats <- x2, files <- x3, call <- x4, edits <- x5, faults <- x6, drifted <- x7,
  crossed <- x8, unseen <- x9, vetted <- x10, shared <- x11
ImportedToo == INSTANCE Reviews WITH
  Bought <- {"b"}, Imported <- {"i"}, Calls <- {1}, Senders <- {Person}, MaxEdits <- 3,
  MaxFaults <- 1,
  review <- x1, stats <- x2, files <- x3, call <- x4, edits <- x5, faults <- x6, drifted <- x7,
  crossed <- x8, unseen <- x9, vetted <- x10, shared <- x11
-----------------------------------------------------------------------------
\* A customer's three orders; addresses; wishes of a guest who signs in.
PaidOrders == INSTANCE Customers WITH
  Orders <- {1, 2, 3}, Emails <- {"e"}, Phones <- {"p"}, Addresses <- {}, Saves <- {},
  Products <- {}, MaxEdits <- 0, MaxFaults <- 1,
  order <- x1, rows <- x2, addr <- x3, tx <- x4, guest <- x5, account <- x6, merge <- x7,
  edits <- x8, faults <- x9, twice <- x10, overlap <- x11, wished <- x12, late <- x13
AddressBook == INSTANCE Customers WITH
  Orders <- {}, Emails <- {"e"}, Phones <- {"p"}, Addresses <- {"a", "b"}, Saves <- {1, 2},
  Products <- {}, MaxEdits <- 4, MaxFaults <- 0,
  order <- x1, rows <- x2, addr <- x3, tx <- x4, guest <- x5, account <- x6, merge <- x7,
  edits <- x8, faults <- x9, twice <- x10, overlap <- x11, wished <- x12, late <- x13
Wishes == INSTANCE Customers WITH
  Orders <- {}, Emails <- {"e"}, Phones <- {"p"}, Addresses <- {}, Saves <- {},
  Products <- {"p", "q"}, MaxEdits <- 5, MaxFaults <- 0,
  order <- x1, rows <- x2, addr <- x3, tx <- x4, guest <- x5, account <- x6, merge <- x7,
  edits <- x8, faults <- x9, twice <- x10, overlap <- x11, wished <- x12, late <- x13
-----------------------------------------------------------------------------
\* A setting on two replicas; the pixel and its switch in two saves; two slots; a save that fails.
Replicated == INSTANCE Settings WITH
  Replicas <- {1, 2}, Slots <- {1}, Saves <- {1}, Ids <- {}, Ips <- {8, 9}, MaxSaves <- 2,
  MaxFaults <- 0,
  row <- x1, cache <- x2, warm <- x3, save <- x4, done <- x5, faults <- x6, mixed <- x7,
  torn <- x8, behind <- x9, asked <- x10, lost <- x11
PixelSaved == INSTANCE Settings WITH
  Replicas <- {1}, Slots <- {1}, Saves <- {1, 2}, Ids <- {7}, Ips <- {}, MaxSaves <- 2,
  MaxFaults <- 1,
  row <- x1, cache <- x2, warm <- x3, save <- x4, done <- x5, faults <- x6, mixed <- x7,
  torn <- x8, behind <- x9, asked <- x10, lost <- x11
TwoSlots == INSTANCE Settings WITH
  Replicas <- {1}, Slots <- {1, 2}, Saves <- {1, 2}, Ids <- {}, Ips <- {8}, MaxSaves <- 2,
  MaxFaults <- 0,
  row <- x1, cache <- x2, warm <- x3, save <- x4, done <- x5, faults <- x6, mixed <- x7,
  torn <- x8, behind <- x9, asked <- x10, lost <- x11
Unsaved == INSTANCE Settings WITH
  Replicas <- {1}, Slots <- {1, 2}, Saves <- {1}, Ids <- {}, Ips <- {8}, MaxSaves <- 2,
  MaxFaults <- 1,
  row <- x1, cache <- x2, warm <- x3, save <- x4, done <- x5, faults <- x6, mixed <- x7,
  torn <- x8, behind <- x9, asked <- x10, lost <- x11
-----------------------------------------------------------------------------
\* Two batches of a recorded visit and its end; two batches and the retention; one batch, seen by an admin.
Recorded == INSTANCE Replay WITH
  Bits <- 3, Rules <- {[base |-> 5, prefix |-> 2]}, Calls <- {1, 2}, Ops <- {"batch", "end"},
  MaxSessionEvents <- 1, MaxBatches <- 2, MaxClicks <- 0, MaxFaults <- 1,
  session <- x1, chunks <- x2, files <- x3, marks <- x4, call <- x5, purge <- x6, sent <- x7,
  clicks <- x8, faults <- x9, stored <- x10, first <- x11, met <- x12, failed <- x13
Purged == INSTANCE Replay WITH
  Bits <- 3, Rules <- {[base |-> 5, prefix |-> 2]}, Calls <- {1, 2}, Ops <- {"batch", "purge"},
  MaxSessionEvents <- 2, MaxBatches <- 2, MaxClicks <- 0, MaxFaults <- 0,
  session <- x1, chunks <- x2, files <- x3, marks <- x4, call <- x5, purge <- x6, sent <- x7,
  clicks <- x8, faults <- x9, stored <- x10, first <- x11, met <- x12, failed <- x13
Watched == INSTANCE Replay WITH
  Bits <- 3, Rules <- {[base |-> 5, prefix |-> 2]}, Calls <- {1},
  Ops <- {"batch", "purge", "end", "view"}, MaxSessionEvents <- 2, MaxBatches <- 2,
  MaxClicks <- 1, MaxFaults <- 1,
  session <- x1, chunks <- x2, files <- x3, marks <- x4, call <- x5, purge <- x6, sent <- x7,
  clicks <- x8, faults <- x9, stored <- x10, first <- x11, met <- x12, failed <- x13
-----------------------------------------------------------------------------
\* A post edited while it is published; two posts; the home page's list, a collection's, and brands.
Post == INSTANCE Editorial WITH
  Posts <- {"a"}, Titles <- {"t", "u"}, Calls <- {1, 2}, Kind <- "home", Items <- {},
  Brands <- {}, Products <- {}, MaxEdits <- 2, MaxFaults <- 0,
  post <- x1, tr <- x2, call <- x3, run <- x4, place <- x5, brand <- x6, active <- x7,
  basket <- x8, order <- x9, edits <- x10, faults <- x11, told <- x12, home <- x13,
  crossed <- x14, asked <- x15, drifted <- x16, moved <- x17
TwoPosts == INSTANCE Editorial WITH
  Posts <- {"a", "b"}, Titles <- {"t"}, Calls <- {1}, Kind <- "home", Items <- {}, Brands <- {},
  Products <- {}, MaxEdits <- 3, MaxFaults <- 1,
  post <- x1, tr <- x2, call <- x3, run <- x4, place <- x5, brand <- x6, active <- x7,
  basket <- x8, order <- x9, edits <- x10, faults <- x11, told <- x12, home <- x13,
  crossed <- x14, asked <- x15, drifted <- x16, moved <- x17
HomeList == INSTANCE Editorial WITH
  Posts <- {}, Titles <- {}, Calls <- {1, 2}, Kind <- "home", Items <- {"i", "j", "k"},
  Brands <- {}, Products <- {}, MaxEdits <- 5, MaxFaults <- 0,
  post <- x1, tr <- x2, call <- x3, run <- x4, place <- x5, brand <- x6, active <- x7,
  basket <- x8, order <- x9, edits <- x10, faults <- x11, told <- x12, home <- x13,
  crossed <- x14, asked <- x15, drifted <- x16, moved <- x17
CollectionList == INSTANCE Editorial WITH
  Posts <- {}, Titles <- {}, Calls <- {1, 2}, Kind <- "collection", Items <- {"i", "j", "k"},
  Brands <- {}, Products <- {}, MaxEdits <- 5, MaxFaults <- 0,
  post <- x1, tr <- x2, call <- x3, run <- x4, place <- x5, brand <- x6, active <- x7,
  basket <- x8, order <- x9, edits <- x10, faults <- x11, told <- x12, home <- x13,
  crossed <- x14, asked <- x15, drifted <- x16, moved <- x17
TwoBrands == INSTANCE Editorial WITH
  Posts <- {}, Titles <- {}, Calls <- {1, 2}, Kind <- "home", Items <- {}, Brands <- {"A", "B"},
  Products <- {"p", "q"}, MaxEdits <- 4, MaxFaults <- 0,
  post <- x1, tr <- x2, call <- x3, run <- x4, place <- x5, brand <- x6, active <- x7,
  basket <- x8, order <- x9, edits <- x10, faults <- x11, told <- x12, home <- x13,
  crossed <- x14, asked <- x15, drifted <- x16, moved <- x17
-----------------------------------------------------------------------------
\* Countries seeded by two builds; zones by two replicas; both on an old database.
Countries == INSTANCE Delivery WITH
  Replicas <- {1, 2}, SeedOf <- <<{"FR"}, {"FR", "BE"}>>, Codes <- {"FR", "BE"}, Six <- {"FR"},
  Parts <- {"countries"}, Old <- FALSE, Zones <- {}, Visitors <- {}, Calls <- {}, Keys <- {},
  MaxBoots <- 4, MaxEdits <- 3, MaxFaults <- 1,
  country <- x1, enabled <- x2, marker <- x3, zone <- x4, methods <- x5, boot <- x6,
  boots <- x7, cache <- x8, visit <- x9, keys <- x10, token <- x11, idx <- x12,
  inFlight <- x13, call <- x14, edits <- x15, faults <- x16, deleted <- x17, owed <- x18,
  met <- x19, stopped <- x20, disturbed <- x21, own <- x22, relisted <- x23, stale <- x24,
  dead <- x25, refused <- x26, again <- x27, rekeyed <- x28
TwoZones == INSTANCE Delivery WITH
  Replicas <- {1, 2}, SeedOf <- <<{"FR"}, {"FR"}>>, Codes <- {"FR", "BE"}, Six <- {"FR"},
  Parts <- {"zones"}, Old <- FALSE, Zones <- 1..3, Visitors <- {}, Calls <- {}, Keys <- {},
  MaxBoots <- 3, MaxEdits <- 1, MaxFaults <- 0,
  country <- x1, enabled <- x2, marker <- x3, zone <- x4, methods <- x5, boot <- x6,
  boots <- x7, cache <- x8, visit <- x9, keys <- x10, token <- x11, idx <- x12,
  inFlight <- x13, call <- x14, edits <- x15, faults <- x16, deleted <- x17, owed <- x18,
  met <- x19, stopped <- x20, disturbed <- x21, own <- x22, relisted <- x23, stale <- x24,
  dead <- x25, refused <- x26, again <- x27, rekeyed <- x28
UpgradedShop == INSTANCE Delivery WITH
  Replicas <- {1}, SeedOf <- <<{"FR", "BE"}>>, Codes <- {"FR", "BE"}, Six <- {"FR"},
  Parts <- {"countries", "zones"}, Old <- TRUE, Zones <- 1..2, Visitors <- {}, Calls <- {},
  Keys <- {}, MaxBoots <- 2, MaxEdits <- 2, MaxFaults <- 0,
  country <- x1, enabled <- x2, marker <- x3, zone <- x4, methods <- x5, boot <- x6,
  boots <- x7, cache <- x8, visit <- x9, keys <- x10, token <- x11, idx <- x12,
  inFlight <- x13, call <- x14, edits <- x15, faults <- x16, deleted <- x17, owed <- x18,
  met <- x19, stopped <- x20, disturbed <- x21, own <- x22, relisted <- x23, stale <- x24,
  dead <- x25, refused <- x26, again <- x27, rekeyed <- x28

\* What a visitor is told of delivery; the carrier's keys, changed while calls are made, or once with a fault.
Strip == INSTANCE Delivery WITH
  Replicas <- {}, SeedOf <- <<>>, Codes <- {"FR", "BE"}, Six <- {"FR"}, Parts <- {"countries"},
  Old <- TRUE, Zones <- {1}, Visitors <- {1}, Calls <- {}, Keys <- {}, MaxBoots <- 0,
  MaxEdits <- 2, MaxFaults <- 0,
  country <- x1, enabled <- x2, marker <- x3, zone <- x4, methods <- x5, boot <- x6,
  boots <- x7, cache <- x8, visit <- x9, keys <- x10, token <- x11, idx <- x12,
  inFlight <- x13, call <- x14, edits <- x15, faults <- x16, deleted <- x17, owed <- x18,
  met <- x19, stopped <- x20, disturbed <- x21, own <- x22, relisted <- x23, stale <- x24,
  dead <- x25, refused <- x26, again <- x27, rekeyed <- x28
CarrierKeys == INSTANCE Delivery WITH
  Replicas <- {}, SeedOf <- <<>>, Codes <- {"FR"}, Six <- {"FR"}, Parts <- {}, Old <- FALSE,
  Zones <- {}, Visitors <- {}, Calls <- {1, 2}, Keys <- {1, 2}, MaxBoots <- 2, MaxEdits <- 2,
  MaxFaults <- 0,
  country <- x1, enabled <- x2, marker <- x3, zone <- x4, methods <- x5, boot <- x6,
  boots <- x7, cache <- x8, visit <- x9, keys <- x10, token <- x11, idx <- x12,
  inFlight <- x13, call <- x14, edits <- x15, faults <- x16, deleted <- x17, owed <- x18,
  met <- x19, stopped <- x20, disturbed <- x21, own <- x22, relisted <- x23, stale <- x24,
  dead <- x25, refused <- x26, again <- x27, rekeyed <- x28
CarrierCut == INSTANCE Delivery WITH
  Replicas <- {}, SeedOf <- <<>>, Codes <- {"FR"}, Six <- {"FR"}, Parts <- {}, Old <- FALSE,
  Zones <- {}, Visitors <- {}, Calls <- {1, 2}, Keys <- {1}, MaxBoots <- 2, MaxEdits <- 1,
  MaxFaults <- 1,
  country <- x1, enabled <- x2, marker <- x3, zone <- x4, methods <- x5, boot <- x6,
  boots <- x7, cache <- x8, visit <- x9, keys <- x10, token <- x11, idx <- x12,
  inFlight <- x13, call <- x14, edits <- x15, faults <- x16, deleted <- x17, owed <- x18,
  met <- x19, stopped <- x20, disturbed <- x21, own <- x22, relisted <- x23, stale <- x24,
  dead <- x25, refused <- x26, again <- x27, rekeyed <- x28
-----------------------------------------------------------------------------
\* A visit counted while its product changes phase; two products; a purchase told to a pixel; two runs of the figures.
CountedVisit == INSTANCE Conversions WITH
  Products <- {"p"}, Orders <- {1}, Visitors <- {[name |-> "v", ip |-> "1", bot |-> FALSE]},
  Listened <- {"checkout_started", "payment_step_reached"}, Calls <- {1, 2}, Runs <- {},
  Platforms <- {}, Pixels <- {"a"}, Attempts <- 2, MaxViews <- 2, MaxEdits <- 1, MaxFaults <- 0,
  isTest <- x1, excluded <- x2, events <- x3, known <- x4, call <- x5, basket <- x6,
  order <- x7, heard <- x8, pixel <- x9, on <- x10, told <- x11, job <- x12, dead <- x13,
  taken <- x14, run <- x15, ran <- x16, figures <- x17, views <- x18, edits <- x19,
  faults <- x20, flipped <- x21, shown <- x22, turned <- x23, wanted <- x24, missed <- x25,
  moved <- x26, due <- x27, met <- x28, torn <- x29
TwoProducts == INSTANCE Conversions WITH
  Products <- {"p", "q"}, Orders <- {1},
  Visitors <- {[name |-> "v", ip |-> "1", bot |-> FALSE]},
  Listened <- {"checkout_started", "payment_step_reached"}, Calls <- {1}, Runs <- {},
  Platforms <- {}, Pixels <- {"a"}, Attempts <- 2, MaxViews <- 1, MaxEdits <- 0, MaxFaults <- 1,
  isTest <- x1, excluded <- x2, events <- x3, known <- x4, call <- x5, basket <- x6,
  order <- x7, heard <- x8, pixel <- x9, on <- x10, told <- x11, job <- x12, dead <- x13,
  taken <- x14, run <- x15, ran <- x16, figures <- x17, views <- x18, edits <- x19,
  faults <- x20, flipped <- x21, shown <- x22, turned <- x23, wanted <- x24, missed <- x25,
  moved <- x26, due <- x27, met <- x28, torn <- x29
ToldPixel == INSTANCE Conversions WITH
  Products <- {"p"}, Orders <- {1}, Visitors <- {[name |-> "v", ip |-> "1", bot |-> TRUE]},
  Listened <- {}, Calls <- {1}, Runs <- {}, Platforms <- {"meta"}, Pixels <- {"a", "b"},
  Attempts <- 2, MaxViews <- 2, MaxEdits <- 2, MaxFaults <- 2,
  isTest <- x1, excluded <- x2, events <- x3, known <- x4, call <- x5, basket <- x6,
  order <- x7, heard <- x8, pixel <- x9, on <- x10, told <- x11, job <- x12, dead <- x13,
  taken <- x14, run <- x15, ran <- x16, figures <- x17, views <- x18, edits <- x19,
  faults <- x20, flipped <- x21, shown <- x22, turned <- x23, wanted <- x24, missed <- x25,
  moved <- x26, due <- x27, met <- x28, torn <- x29
Figured == INSTANCE Conversions WITH
  Products <- {"p"}, Orders <- {1}, Visitors <- {[name |-> "v", ip |-> "1", bot |-> TRUE]},
  Listened <- {}, Calls <- {1}, Runs <- {1, 2}, Platforms <- {}, Pixels <- {"a"}, Attempts <- 2,
  MaxViews <- 3, MaxEdits <- 0, MaxFaults <- 1,
  isTest <- x1, excluded <- x2, events <- x3, known <- x4, call <- x5, basket <- x6,
  order <- x7, heard <- x8, pixel <- x9, on <- x10, told <- x11, job <- x12, dead <- x13,
  taken <- x14, run <- x15, ran <- x16, figures <- x17, views <- x18, edits <- x19,
  faults <- x20, flipped <- x21, shown <- x22, turned <- x23, wanted <- x24, missed <- x25,
  moved <- x26, due <- x27, met <- x28, torn <- x29
-----------------------------------------------------------------------------
\* Motif categories seeded by two builds; an old database; the send-in lists, by one replica and by two; tax rates; fonts and threads.
TwoBuilds == INSTANCE Seeds WITH
  Keys <- {"x", "y"}, Langs <- {"fr", "it"}, Replicas <- {1, 2},
  SeedOf <- <<Build({"categories"}, {"x"}, {"fr"}), Build({"categories"}, {"x", "y"}, {"fr", "it"})>>,
  Plan <- <<"categories">>, Edited <- {"categories"}, Rates <- {}, Calls <- {}, Old <- FALSE,
  MaxBoots <- 3, MaxEdits <- 1, MaxFaults <- 0,
  marker <- x1, rows <- x2, name <- x3, tab <- x4, product <- x5, stocked <- x6, rate <- x7,
  boot <- x8, call <- x9, asked <- x10, boots <- x11, edits <- x12, faults <- x13,
  planted <- x14, ever <- x15, gone <- x16, owed <- x17, written <- x18, crossed <- x19,
  emptied <- x20, met <- x21, mixed <- x22, stopped <- x23, turned <- x24, raced <- x25
Renamed == INSTANCE Seeds WITH
  Keys <- {"x", "y"}, Langs <- {"fr", "it"}, Replicas <- {1},
  SeedOf <- <<Build({"categories", "motifs"}, {"x", "y"}, {"fr", "it"})>>,
  Plan <- <<"categories", "motifs">>, Edited <- {"categories", "motifs"}, Rates <- {},
  Calls <- {}, Old <- TRUE, MaxBoots <- 2, MaxEdits <- 2, MaxFaults <- 0,
  marker <- x1, rows <- x2, name <- x3, tab <- x4, product <- x5, stocked <- x6, rate <- x7,
  boot <- x8, call <- x9, asked <- x10, boots <- x11, edits <- x12, faults <- x13,
  planted <- x14, ever <- x15, gone <- x16, owed <- x17, written <- x18, crossed <- x19,
  emptied <- x20, met <- x21, mixed <- x22, stopped <- x23, turned <- x24, raced <- x25
SendInTypes == INSTANCE Seeds WITH
  Keys <- {"x", "y"}, Langs <- {"fr"}, Replicas <- {1},
  SeedOf <- <<Build({"template", "types", "sides"}, {"x", "y"}, {"fr"})>>,
  Plan <- <<"template", "sendin">>, Edited <- {"types", "sides"}, Rates <- {}, Calls <- {},
  Old <- FALSE, MaxBoots <- 2, MaxEdits <- 2, MaxFaults <- 1,
  marker <- x1, rows <- x2, name <- x3, tab <- x4, product <- x5, stocked <- x6, rate <- x7,
  boot <- x8, call <- x9, asked <- x10, boots <- x11, edits <- x12, faults <- x13,
  planted <- x14, ever <- x15, gone <- x16, owed <- x17, written <- x18, crossed <- x19,
  emptied <- x20, met <- x21, mixed <- x22, stopped <- x23, turned <- x24, raced <- x25
BothSeed == INSTANCE Seeds WITH
  Keys <- {"x"}, Langs <- {"fr", "it"}, Replicas <- {1, 2},
  SeedOf <- [r \in {1, 2} |-> Build({"template", "types", "sides"}, {"x"}, {"fr"})],
  Plan <- <<"template", "sendin", "tax">>, Edited <- {"types", "sides"}, Rates <- 1..3,
  Calls <- {}, Old <- FALSE, MaxBoots <- 2, MaxEdits <- 1, MaxFaults <- 0,
  marker <- x1, rows <- x2, name <- x3, tab <- x4, product <- x5, stocked <- x6, rate <- x7,
  boot <- x8, call <- x9, asked <- x10, boots <- x11, edits <- x12, faults <- x13,
  planted <- x14, ever <- x15, gone <- x16, owed <- x17, written <- x18, crossed <- x19,
  emptied <- x20, met <- x21, mixed <- x22, stopped <- x23, turned <- x24, raced <- x25
TaxRates == INSTANCE Seeds WITH
  Keys <- {"x"}, Langs <- {"fr"}, Replicas <- {1}, SeedOf <- <<Build({}, {}, {})>>,
  Plan <- <<"tax">>, Edited <- {}, Rates <- 1..3, Calls <- {1, 2}, Old <- FALSE, MaxBoots <- 2,
  MaxEdits <- 2, MaxFaults <- 0,
  marker <- x1, rows <- x2, name <- x3, tab <- x4, product <- x5, stocked <- x6, rate <- x7,
  boot <- x8, call <- x9, asked <- x10, boots <- x11, edits <- x12, faults <- x13,
  planted <- x14, ever <- x15, gone <- x16, owed <- x17, written <- x18, crossed <- x19,
  emptied <- x20, met <- x21, mixed <- x22, stopped <- x23, turned <- x24, raced <- x25
Fonts == INSTANCE Seeds WITH
  Keys <- {"x", "y"}, Langs <- {"fr"}, Replicas <- {1},
  SeedOf <- <<Build({"fonts", "threads"}, {"x", "y"}, {"fr"})>>, Plan <- <<"fonts", "threads">>,
  Edited <- {"fonts", "threads"}, Rates <- {}, Calls <- {}, Old <- FALSE, MaxBoots <- 2,
  MaxEdits <- 3, MaxFaults <- 0,
  marker <- x1, rows <- x2, name <- x3, tab <- x4, product <- x5, stocked <- x6, rate <- x7,
  boot <- x8, call <- x9, asked <- x10, boots <- x11, edits <- x12, faults <- x13,
  planted <- x14, ever <- x15, gone <- x16, owed <- x17, written <- x18, crossed <- x19,
  emptied <- x20, met <- x21, mixed <- x22, stopped <- x23, turned <- x24, raced <- x25

-----------------------------------------------------------------------------
\* The slots after the first n: left alone, and Off at the beginning.
After28 == <<x29>>
Off28 == x29 = Off
After25 == <<x26, x27, x28, After28>>
Off25 == x26 = Off /\ x27 = Off /\ x28 = Off /\ Off28
After20 == <<x21, x22, x23, x24, x25, After25>>
Off20 == x21 = Off /\ x22 = Off /\ x23 = Off /\ x24 = Off /\ x25 = Off /\ Off25
After17 == <<x18, x19, x20, After20>>
Off17 == x18 = Off /\ x19 = Off /\ x20 = Off /\ Off20
After14 == <<x15, x16, x17, After17>>
Off14 == x15 = Off /\ x16 = Off /\ x17 = Off /\ Off17
After13 == <<x14, After14>>
Off13 == x14 = Off /\ Off14
After12 == <<x13, After13>>
Off12 == x13 = Off /\ Off13
After11 == <<x12, After12>>
Off11 == x12 = Off /\ Off12
After10 == <<x11, After11>>
Off10 == x11 = Off /\ Off11
After9 == <<x10, After10>>
Off9 == x10 = Off /\ Off10
After8 == <<x9, After9>>
Off8 == x9 = Off /\ Off9
After7 == <<x8, After8>>
Off7 == x8 = Off /\ Off8

Init ==
  \/ /\ act = "money"
     /\ \/ scene = "pricing" /\ Pricing!Init /\ Off7
        \/ scene = "form" /\ Form!Init /\ Off8
        \/ scene = "resume" /\ FormResumed!Init /\ Off8
  \/ /\ act = "proof"
     /\ \/ scene = "twice" /\ AskedTwice!Init /\ Off12
        \/ scene = "edited" /\ AskedEdited!Init /\ Off12
  \/ /\ act = "words"
     /\ \/ scene = "newsletter" /\ Newsletter!Init /\ Off12
        \/ scene = "moves" /\ Moves!Init /\ Off12
        \/ scene = "news" /\ News!Init /\ Off20
        \/ scene = "declined" /\ Declined!Init /\ Off20
        \/ scene = "steps" /\ JobMoves!Init /\ Off20
        \/ scene = "boot" /\ Backfill!Init /\ Off20
        \/ scene = "replies" /\ Replied!Init /\ Off17
        \/ scene = "runs" /\ TwoRuns!Init /\ Off17
        \/ scene = "outbox" /\ Outbox!Init /\ Off10
        \/ scene = "stop" /\ Stopped!Init /\ Off10
  \/ /\ act = "desk"
     /\ \/ scene = "thread" /\ Thread!Init /\ Off14
        \/ scene = "widget" /\ Widget!Init /\ Off14
        \/ scene = "review" /\ Reviewed!Init /\ Off11
        \/ scene = "imported" /\ ImportedToo!Init /\ Off11
        \/ scene = "paid" /\ PaidOrders!Init /\ Off13
        \/ scene = "addresses" /\ AddressBook!Init /\ Off13
        \/ scene = "wishes" /\ Wishes!Init /\ Off13
  \/ /\ act = "goods"
     /\ \/ scene = "matrix" /\ Matrix!Init /\ Off10
        \/ scene = "axes" /\ Axes!Init /\ Off10
        \/ scene = "photos" /\ Photos!Init /\ Off10
        \/ scene = "embroidery" /\ Embroidery!Init /\ Off11
        \/ scene = "listing" /\ Shopfront!Init /\ Off11
        \/ scene = "shelf" /\ Shelf!Init /\ Off10
        \/ scene = "shelves" /\ TwoShelves!Init /\ Off10
  \/ /\ act = "pages"
     /\ \/ scene = "tree" /\ Tree!Init /\ Off9
        \/ scene = "assets" /\ Assets!Init /\ Off9
        \/ scene = "replicas" /\ Replicated!Init /\ Off11
        \/ scene = "pixel" /\ PixelSaved!Init /\ Off11
        \/ scene = "slots" /\ TwoSlots!Init /\ Off11
        \/ scene = "unsaved" /\ Unsaved!Init /\ Off11
        \/ scene = "recorded" /\ Recorded!Init /\ Off13
        \/ scene = "purged" /\ Purged!Init /\ Off13
        \/ scene = "watched" /\ Watched!Init /\ Off13
        \/ scene = "post" /\ Post!Init /\ Off17
        \/ scene = "posts" /\ TwoPosts!Init /\ Off17
        \/ scene = "home" /\ HomeList!Init /\ Off17
        \/ scene = "collection" /\ CollectionList!Init /\ Off17
        \/ scene = "brands" /\ TwoBrands!Init /\ Off17
  \/ /\ act = "boot"
     /\ \/ scene = "countries" /\ Countries!Init /\ Off28
        \/ scene = "zones" /\ TwoZones!Init /\ Off28
        \/ scene = "upgraded" /\ UpgradedShop!Init /\ Off28
        \/ scene = "strip" /\ Strip!Init /\ Off28
        \/ scene = "keys" /\ CarrierKeys!Init /\ Off28
        \/ scene = "cut" /\ CarrierCut!Init /\ Off28
        \/ scene = "counted" /\ CountedVisit!Init
        \/ scene = "twoproducts" /\ TwoProducts!Init
        \/ scene = "told" /\ ToldPixel!Init
        \/ scene = "figures" /\ Figured!Init
        \/ scene = "builds" /\ TwoBuilds!Init /\ Off25
        \/ scene = "renamed" /\ Renamed!Init /\ Off25
        \/ scene = "types" /\ SendInTypes!Init /\ Off25
        \/ scene = "both" /\ BothSeed!Init /\ Off25
        \/ scene = "rates" /\ TaxRates!Init /\ Off25
        \/ scene = "fonts" /\ Fonts!Init /\ Off25

Next ==
  /\ UNCHANGED <<act, scene>>
  /\ \/ /\ act = "money"
        /\ \/ scene = "pricing" /\ Pricing!Next /\ UNCHANGED After7
           \/ scene = "form" /\ Form!Next /\ UNCHANGED After8
           \/ scene = "resume" /\ FormResumed!Next /\ UNCHANGED After8
     \/ /\ act = "proof"
        /\ \/ scene = "twice" /\ AskedTwice!Next /\ UNCHANGED After12
           \/ scene = "edited" /\ AskedEdited!Next /\ UNCHANGED After12
     \/ /\ act = "words"
        /\ \/ scene = "newsletter" /\ Newsletter!Next /\ UNCHANGED After12
           \/ scene = "moves" /\ Moves!Next /\ UNCHANGED After12
           \/ scene = "news" /\ News!Next /\ UNCHANGED After20
           \/ scene = "declined" /\ Declined!Next /\ UNCHANGED After20
           \/ scene = "steps" /\ JobMoves!Next /\ UNCHANGED After20
           \/ scene = "boot" /\ Backfill!Next /\ UNCHANGED After20
           \/ scene = "replies" /\ Replied!Next /\ UNCHANGED After17
           \/ scene = "runs" /\ TwoRuns!Next /\ UNCHANGED After17
           \/ scene = "outbox" /\ Outbox!Next /\ UNCHANGED After10
           \/ scene = "stop" /\ Stopped!Next /\ UNCHANGED After10
     \/ /\ act = "desk"
        /\ \/ scene = "thread" /\ Thread!Next /\ UNCHANGED After14
           \/ scene = "widget" /\ Widget!Next /\ UNCHANGED After14
           \/ scene = "review" /\ Reviewed!Next /\ UNCHANGED After11
           \/ scene = "imported" /\ ImportedToo!Next /\ UNCHANGED After11
           \/ scene = "paid" /\ PaidOrders!Next /\ UNCHANGED After13
           \/ scene = "addresses" /\ AddressBook!Next /\ UNCHANGED After13
           \/ scene = "wishes" /\ Wishes!Next /\ UNCHANGED After13
     \/ /\ act = "goods"
        /\ \/ scene = "matrix" /\ Matrix!Next /\ UNCHANGED After10
           \/ scene = "axes" /\ Axes!Next /\ UNCHANGED After10
           \/ scene = "photos" /\ Photos!Next /\ UNCHANGED After10
           \/ scene = "embroidery" /\ Embroidery!Next /\ UNCHANGED After11
           \/ scene = "listing" /\ Shopfront!Next /\ UNCHANGED After11
           \/ scene = "shelf" /\ Shelf!Next /\ UNCHANGED After10
           \/ scene = "shelves" /\ TwoShelves!Next /\ UNCHANGED After10
     \/ /\ act = "pages"
        /\ \/ scene = "tree" /\ Tree!Next /\ UNCHANGED After9
           \/ scene = "assets" /\ Assets!Next /\ UNCHANGED After9
           \/ scene = "replicas" /\ Replicated!Next /\ UNCHANGED After11
           \/ scene = "pixel" /\ PixelSaved!Next /\ UNCHANGED After11
           \/ scene = "slots" /\ TwoSlots!Next /\ UNCHANGED After11
           \/ scene = "unsaved" /\ Unsaved!Next /\ UNCHANGED After11
           \/ scene = "recorded" /\ Recorded!Next /\ UNCHANGED After13
           \/ scene = "purged" /\ Purged!Next /\ UNCHANGED After13
           \/ scene = "watched" /\ Watched!Next /\ UNCHANGED After13
           \/ scene = "post" /\ Post!Next /\ UNCHANGED After17
           \/ scene = "posts" /\ TwoPosts!Next /\ UNCHANGED After17
           \/ scene = "home" /\ HomeList!Next /\ UNCHANGED After17
           \/ scene = "collection" /\ CollectionList!Next /\ UNCHANGED After17
           \/ scene = "brands" /\ TwoBrands!Next /\ UNCHANGED After17
     \/ /\ act = "boot"
        /\ \/ scene = "countries" /\ Countries!Next /\ UNCHANGED After28
           \/ scene = "zones" /\ TwoZones!Next /\ UNCHANGED After28
           \/ scene = "upgraded" /\ UpgradedShop!Next /\ UNCHANGED After28
           \/ scene = "strip" /\ Strip!Next /\ UNCHANGED After28
           \/ scene = "keys" /\ CarrierKeys!Next /\ UNCHANGED After28
           \/ scene = "cut" /\ CarrierCut!Next /\ UNCHANGED After28
           \/ scene = "counted" /\ CountedVisit!Next
           \/ scene = "twoproducts" /\ TwoProducts!Next
           \/ scene = "told" /\ ToldPixel!Next
           \/ scene = "figures" /\ Figured!Next
           \/ scene = "builds" /\ TwoBuilds!Next /\ UNCHANGED After25
           \/ scene = "renamed" /\ Renamed!Next /\ UNCHANGED After25
           \/ scene = "types" /\ SendInTypes!Next /\ UNCHANGED After25
           \/ scene = "both" /\ BothSeed!Next /\ UNCHANGED After25
           \/ scene = "rates" /\ TaxRates!Next /\ UNCHANGED After25
           \/ scene = "fonts" /\ Fonts!Next /\ UNCHANGED After25

vars == <<act, scene, x1, x2, x3, x4, x5, x6, x7, x8, x9, x10, x11, x12, x13, x14, x15, x16,
          x17, x18, x19, x20, x21, x22, x23, x24, x25, x26, x27, x28, x29>>
Spec == Init /\ [][Next]_vars

-----------------------------------------------------------------------------
(* The properties are the components', on the scenes that play them.           *)
TypeOK ==
  /\ act = "money" =>
       CASE scene = "pricing" -> Pricing!TypeOK
         [] scene = "form" -> Form!TypeOK
         [] scene = "resume" -> FormResumed!TypeOK
  /\ act = "words" =>
       CASE scene = "newsletter" -> Newsletter!TypeOK
         [] scene = "moves" -> Moves!TypeOK
         [] scene = "news" -> News!TypeOK
         [] scene = "declined" -> Declined!TypeOK
         [] scene = "steps" -> JobMoves!TypeOK
         [] scene = "boot" -> Backfill!TypeOK
         [] scene = "replies" -> Replied!TypeOK
         [] scene = "runs" -> TwoRuns!TypeOK
         [] scene = "outbox" -> Outbox!TypeOK
         [] scene = "stop" -> Stopped!TypeOK
  /\ act = "desk" =>
       CASE scene = "thread" -> Thread!TypeOK
         [] scene = "widget" -> Widget!TypeOK
         [] scene = "review" -> Reviewed!TypeOK
         [] scene = "imported" -> ImportedToo!TypeOK
         [] scene = "paid" -> PaidOrders!TypeOK
         [] scene = "addresses" -> AddressBook!TypeOK
         [] scene = "wishes" -> Wishes!TypeOK
  /\ act = "goods" =>
       CASE scene = "matrix" -> Matrix!TypeOK
         [] scene = "axes" -> Axes!TypeOK
         [] scene = "photos" -> Photos!TypeOK
         [] scene = "embroidery" -> Embroidery!TypeOK
         [] scene = "listing" -> Shopfront!TypeOK
         [] scene = "shelf" -> Shelf!TypeOK
         [] scene = "shelves" -> TwoShelves!TypeOK
  /\ act = "pages" =>
       CASE scene = "tree" -> Tree!TypeOK
         [] scene = "assets" -> Assets!TypeOK
         [] scene = "replicas" -> Replicated!TypeOK
         [] scene = "pixel" -> PixelSaved!TypeOK
         [] scene = "slots" -> TwoSlots!TypeOK
         [] scene = "unsaved" -> Unsaved!TypeOK
         [] scene = "recorded" -> Recorded!TypeOK
         [] scene = "purged" -> Purged!TypeOK
         [] scene = "watched" -> Watched!TypeOK
         [] scene = "post" -> Post!TypeOK
         [] scene = "posts" -> TwoPosts!TypeOK
         [] scene = "home" -> HomeList!TypeOK
         [] scene = "collection" -> CollectionList!TypeOK
         [] scene = "brands" -> TwoBrands!TypeOK
  /\ act = "proof" =>
       CASE scene = "twice" -> AskedTwice!TypeOK
         [] scene = "edited" -> AskedEdited!TypeOK
  /\ act = "boot" =>
       CASE scene = "countries" -> Countries!TypeOK
         [] scene = "zones" -> TwoZones!TypeOK
         [] scene = "upgraded" -> UpgradedShop!TypeOK
         [] scene = "strip" -> Strip!TypeOK
         [] scene = "keys" -> CarrierKeys!TypeOK
         [] scene = "cut" -> CarrierCut!TypeOK
         [] scene = "counted" -> CountedVisit!TypeOK
         [] scene = "twoproducts" -> TwoProducts!TypeOK
         [] scene = "told" -> ToldPixel!TypeOK
         [] scene = "figures" -> Figured!TypeOK
         [] scene = "builds" -> TwoBuilds!TypeOK
         [] scene = "renamed" -> Renamed!TypeOK
         [] scene = "types" -> SendInTypes!TypeOK
         [] scene = "both" -> BothSeed!TypeOK
         [] scene = "rates" -> TaxRates!TypeOK
         [] scene = "fonts" -> Fonts!TypeOK

(* PricingEngineService, ShippingService: a coupon's preview is what the       *)
(* order is given, and every basket has a delivery to choose.                  *)
QuoteHonoured ==
  scene = "pricing" => Pricing!PreviewHonoured /\ Pricing!NeverStranded

(* NewsletterCampaignProcessor: a campaign reaches everyone, and no one        *)
(* twice.                                                                      *)
ReachedOnce ==
  act = "words" =>
    CASE scene = "newsletter" -> Newsletter!ReachedOnce
      [] scene = "moves" -> Moves!ReachedOnce
      [] OTHER -> TRUE

(* SupportConversationsService, SupportGateway: no customer's message is       *)
(* hidden or uncounted, and every connected tab sees what is written.          *)
ThreadsSeen ==
  act = "desk" =>
    CASE scene = "thread" -> Thread!InboxTrue /\ Thread!TabsSee
      [] scene = "widget" -> Widget!InboxTrue /\ Widget!TabsSee
      [] OTHER -> TRUE

(* ProductsService: the variants are the attributes' combinations, and a       *)
(* photo in use is shown where it is used.                                     *)
VariantsWhole ==
  act = "goods" =>
    CASE scene = "matrix" -> Matrix!GeneratedMatrix
      [] scene = "axes" -> Axes!GeneratedMatrix
      [] scene = "photos" -> Photos!PhotosShown
      [] OTHER -> TRUE

(* PersonalizationService: a design is charged and drawn as it was quoted,     *)
(* and what the editor offers is accepted.                                     *)
DesignKept ==
  scene = "embroidery" => Embroidery!DesignKept /\ Embroidery!OfferHonoured

(* ProductSearchService, publicList, CategoryFiltersService: the index         *)
(* answers as the database does, the banner lists what is reduced, the         *)
(* pages show all that matches, and a product is found under its categories    *)
(* and their filters.                                                          *)
CatalogueTrue ==
  act = "goods" =>
    CASE scene = "listing" -> Shopfront!SearchTrue /\ Shopfront!BannerTrue /\ Shopfront!PagesWhole
      [] scene = "shelf" -> Shelf!FoundOnShelf
      [] scene = "shelves" -> TwoShelves!FoundOnShelf
      [] OTHER -> TRUE

(* OrderEmailListener, CustomerSmsListener, SupportNotificationProcessor,      *)
(* SmsService: everyone hears once of what happened, as it happened, each      *)
(* side of a message once in a window, and a text goes once to the phone       *)
(* that sends it.                                                              *)
AllHear ==
  act = "words" =>
    CASE scene = "news" -> News!NewsTold
      [] scene = "declined" -> Declined!NewsTold /\ Declined!OneTextAnHour
      [] scene = "steps" -> JobMoves!NewsTold /\ JobMoves!SaysItsStep
      [] scene = "boot" -> Backfill!UntickKept
      [] scene = "replies" -> Replied!OnePerWindow /\ Replied!AllHear
      [] scene = "runs" -> TwoRuns!OnePerWindow /\ TwoRuns!AllHear
      [] scene = "outbox" -> Outbox!TextsTrue
      [] scene = "stop" -> Stopped!TextsTrue
      [] OTHER -> TRUE

(* CheckoutSessionService, MfaService: a checkout is resumed with what was     *)
(* typed, and an admin signs in by the code that was sent, whose counters      *)
(* end.                                                                        *)
KeptForOwner ==
  /\ act = "money" =>
       CASE scene = "form" -> Form!FormKept
         [] scene = "resume" -> FormResumed!FormKept
         [] OTHER -> TRUE
  /\ act = "proof" =>
       CASE scene = "twice" -> AskedTwice!CodeTakes /\ AskedTwice!CountersEnd
         [] scene = "edited" -> AskedEdited!CodeTakes /\ AskedEdited!CountersEnd

(* CustomersService, WishlistService, ReviewsService: each customer is         *)
(* credited once, keeps the wishes made before signing in, and only            *)
(* approved words and present pictures rate a product.                         *)
CustomersTrue ==
  act = "desk" =>
    CASE scene = "paid" -> PaidOrders!CustomersTrue
      [] scene = "addresses" -> AddressBook!CustomersTrue
      [] scene = "wishes" -> Wishes!CustomersTrue
      [] scene = "review" -> Reviewed!ReviewsTrue
      [] scene = "imported" -> ImportedToo!ReviewsTrue
      [] OTHER -> TRUE

(* PlatformSettingsService, SessionReplayService, ip-match: every replica      *)
(* serves what was saved, and a recording plays whole but for what its         *)
(* rules leave out.                                                            *)
SettingsServed ==
  act = "pages" =>
    CASE scene = "replicas" -> Replicated!SettingsTrue
      [] scene = "pixel" -> PixelSaved!SettingsTrue
      [] scene = "slots" -> TwoSlots!SettingsTrue
      [] scene = "unsaved" -> Unsaved!SettingsTrue
      [] scene = "recorded" -> Recorded!ReplayWhole
      [] scene = "purged" -> Purged!ReplayWhole
      [] scene = "watched" -> Watched!ReplayWhole /\ Watched!RulesMatch
      [] OTHER -> TRUE

(* MediaService, BlogService, HomeService, CollectionsService,                 *)
(* assertSameStoreBrand: no folder and no picture in use is lost, a public     *)
(* post keeps its date and its address, a list its order, a basket its         *)
(* brand.                                                                      *)
ContentTrue ==
  act = "pages" =>
    CASE scene = "tree" -> Tree!LibraryWhole
      [] scene = "assets" -> Assets!LibraryWhole
      [] scene = "post" -> Post!PostsTrue
      [] scene = "posts" -> TwoPosts!PostsTrue
      [] scene = "home" -> HomeList!ListKept
      [] scene = "collection" -> CollectionList!ListKept
      [] scene = "brands" -> TwoBrands!BrandKept
      [] OTHER -> TRUE

(* CountriesService, ShippingService, SendcloudService, the seeds,             *)
(* TaxService: a boot adds what is new once and leaves what the admin did.     *)
ShopSet ==
  act = "boot" =>
    CASE scene = "countries" -> Countries!SeededOnce
      [] scene = "zones" -> TwoZones!SeededOnce
      [] scene = "upgraded" -> UpgradedShop!SeededOnce
      [] scene = "strip" -> Strip!StripTrue
      [] scene = "keys" -> CarrierKeys!CarrierHeard
      [] scene = "cut" -> CarrierCut!CarrierHeard
      [] scene = "builds" -> TwoBuilds!SeedsKept /\ TwoBuilds!NamesKept
      [] scene = "renamed" -> Renamed!SeedsKept /\ Renamed!NamesKept
      [] scene = "types" -> SendInTypes!SeedsKept /\ SendInTypes!SendInWhole
      [] scene = "both" -> BothSeed!SendInWhole /\ BothSeed!OneRate
      [] scene = "rates" -> TaxRates!OneRate
      [] scene = "fonts" -> Fonts!SeedsKept
      [] OTHER -> TRUE

(* ShopBehaviorService, ShopBehaviorAnalyticsService, MetaCapiProcessor: a     *)
(* visit is counted in one tab, a purchase told once, and the figures          *)
(* served are those of their hour.                                             *)
FiguresTrue ==
  act = "boot" =>
    CASE scene = "counted" -> CountedVisit!TabsTrue
      [] scene = "twoproducts" -> TwoProducts!TabsTrue
      [] scene = "told" -> ToldPixel!PurchaseTold
      [] scene = "figures" -> Figured!FiguresFresh
      [] OTHER -> TRUE
=============================================================================
