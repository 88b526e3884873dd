---------------------------- MODULE QuotePricing ----------------------------
(***************************************************************************)
(* What a quote request is worth, from the JSON body to the price it is    *)
(* answered: QuoteValidationPipe, the idempotency replay, the fingerprint, *)
(* the three pricing strategies, QuoteMapper and the schemas behind it.    *)
(*                                                                         *)
(* One action serves one request, by a process of any pricing version: a   *)
(* roll-out has two at work.  Requests that run at once meet in the lock   *)
(* and the indexes, and those are QuoteSubmission's subject; here a lock   *)
(* that refuses and an await that fails are outcomes that may always come. *)
(***************************************************************************)
EXTENDS Integers, FiniteSets, SequencesExt

CONSTANTS
    FullHomes, Kitchens, Wardrobes,  \* the bodies posted to each calculator
    Keys,          \* Idempotency-Keys
    Versions,      \* values of the *_PRICING_VERSION settings
    Lower,         \* trim and toLowerCase, on the texts used
    Spelling,      \* the tokens of a text; <<>> is the empty one
    Numeral,       \* the token of a number
    Figures,       \* what the three patterns find in a kitchen's area text
    Shown,         \* the number in a wardrobe's display text, 0 if none
    Parts,         \* the fractions numbers are counted in: decimals are sent
    MaxQuotes      \* bound on the quotes stored

Rooms    == {"living", "kitchen", "bedroom", "bathroom", "dining"}
Bhks     == {"1BHK", "2BHK", "3BHK", "4+ BHK / Villa"}
Packages == {"ESSENTIAL", "STANDARD", "PREMIUM", "LUXURY", "CUSTOM"}

\* A nested object is left out (or null), sent as an array, whose members are
\* all undefined, or sent as the object it should be.
Objects == {"configuration", "location", "rooms", "dimensions", "materials"}
Forms   == {"nothing", "array", "object"}

\* Each calculator's route fixes the kind of body.
ASSUME BodiesAssumption ==
    /\ FullHomes \cup Kitchens \cup Wardrobes # {}
    /\ \A d \in FullHomes \cup Kitchens \cup Wardrobes : d.sent \in [Objects -> Forms]
    /\ \A d \in FullHomes :
          /\ d.calculator = "full_home"
          /\ DOMAIN d.rooms \subseteq Rooms
          /\ \A room \in DOMAIN d.rooms : d.rooms[room] \in DOMAIN Numeral
    /\ \A d \in Kitchens : d.calculator = "kitchen" /\ d.area \in DOMAIN Figures
    /\ \A d \in Wardrobes :
          /\ d.calculator = "wardrobe"
          /\ {d.width, d.height} \subseteq DOMAIN Numeral
          /\ {d.lengthText, d.heightText} \subseteq DOMAIN Shown
          /\ d.accessories \in Seq(DOMAIN Lower)

\* Patterns find digits, never a sign.
ASSUME NumbersAssumption ==
    /\ DOMAIN Numeral \subseteq Int /\ IsInjective(Numeral)
    /\ \A n \in DOMAIN Numeral : Numeral[n] # "undefined"
    /\ \A t \in DOMAIN Figures :
          Figures[t] \in [total : Seq(Nat), walls : Seq(Nat), number : Seq(Nat)]
    /\ \A t \in DOMAIN Shown : Shown[t] \in Nat
    /\ Parts.room \in Nat \ {0} /\ Parts.feet \in Nat \ {0} /\ Parts.side \in Nat \ {0}

\* Packages are written in capitals: no lower-case text and no version holds one.
\* An e-mail address, with the phone number sent beside it, is one token.
ASSUME TextAssumption ==
    /\ \A w \in DOMAIN Spelling : Spelling[w] \in Seq(STRING)
    /\ \A d \in FullHomes :
          /\ {d.area, d.package, Lower[d.city], Lower[d.state]} \subseteq DOMAIN Spelling
          /\ \A i \in DOMAIN Spelling[Lower[d.city]] : Spelling[Lower[d.city]][i] \notin Packages
          /\ \A i \in DOMAIN Spelling[Lower[d.state]] : Spelling[Lower[d.state]][i] \notin Packages
    /\ IsInjective(Spelling)
    /\ \A p \in Packages \cap DOMAIN Spelling : Spelling[p] = <<p>>
    /\ Versions # {} /\ Versions \cap Packages = {} /\ Keys # {}

ASSUME MaxQuotesAssumption == MaxQuotes \in Nat

VARIABLES
    request,   \* the body, key and version of the request served last
    answer,    \* how it was answered, and with which quote
    book,      \* the quotes in MongoDB
    records    \* the idempotency records, each with the quote it answers with

vars == <<request, answer, book, records>>

Requests == FullHomes \cup Kitchens \cup Wardrobes

\* A lookup with a fallback; the catalogue is a function on its known keys.
Rate(catalogue, key, fallback) ==
    IF key \in DOMAIN catalogue THEN catalogue[key] ELSE fallback

------------------------------------------------------------------------------
(* Validation.  ValidateNested says nothing of an object that was not sent,  *)
(* and of an array it looks at the elements.                                *)

ValidFullHome(d) == d.bhk \in Bhks /\ d.package \in Packages

MutantValidRooms(rooms) == Rooms \ {"dining"} \subseteq DOMAIN rooms

ValidRooms(rooms) ==
    /\ Rooms \ {"dining"} \subseteq DOMAIN rooms
    /\ \A room \in DOMAIN rooms : rooms[room] >= 0

\* At least a foot.
ValidDimensions(d) == d.width >= Parts.side /\ d.height >= Parts.side

\* An object is validated where its parent is there to hold it.
Valid(d) ==
    LET given(object) == d.sent["configuration"] = "object" /\ d.sent[object] = "object" IN
    /\ d.calculator = "full_home" /\ given("configuration") => ValidFullHome(d)
    /\ d.calculator = "full_home" /\ given("rooms") => ValidRooms(d.rooms)
    /\ d.calculator = "wardrobe" /\ given("dimensions") => ValidDimensions(d)

------------------------------------------------------------------------------
(* Normalization and the fingerprint.                                       *)

MutantNormalizes(d) == d.sent["configuration"] = "object" /\ d.sent["location"] = "object"

\* normalizeQuoteData, and the summary before it, trim members of the location
\* and reach into members of the configuration: anything else is a TypeError.
Normalizes(d) ==
    /\ d.sent["configuration"] # "nothing" /\ d.sent["location"] = "object"
    /\ d.calculator = "full_home" =>
          d.sent["configuration"] = "object" /\ d.sent["rooms"] # "nothing"
    /\ d.calculator = "wardrobe" =>
          /\ d.sent["configuration"] = "object"
          /\ d.sent["dimensions"] # "nothing" /\ d.sent["materials"] # "nothing"

\* How a template literal writes a member of a nested object.
Text(d, object, t)   == IF d.sent[object] = "object" THEN Spelling[t] ELSE <<"undefined">>
Number(d, object, n) == IF d.sent[object] = "object" THEN Numeral[n] ELSE "undefined"

\* accessories.join(",")
Joined(texts) ==
    IF texts = <<>> THEN <<>>
    ELSE FoldLeft(LAMBDA sum, t : sum \o <<",">> \o Spelling[t], Spelling[Head(texts)], Tail(texts))

\* The part of a configuration that tells two requests apart, written in one text
\* without escapes.  Bathrooms and dining rooms are not in it.
SpecificationsKey(d) ==
    CASE d.calculator = "full_home" ->
            <<d.bhk, "-">> \o Spelling[d.area]
            \o <<"-", "L", Number(d, "rooms", d.rooms.living),
                 "B", Number(d, "rooms", d.rooms.bedroom),
                 "K", Number(d, "rooms", d.rooms.kitchen)>>
      [] d.calculator = "kitchen" ->
            Text(d, "configuration", d.layout) \o <<"-">> \o Text(d, "configuration", d.area)
      [] d.calculator = "wardrobe" ->
            Spelling[d.type]
            \o <<"-", Number(d, "dimensions", d.width), "x", Number(d, "dimensions", d.height), "#">>
            \o Text(d, "materials", d.core) \o <<"-">> \o Text(d, "materials", d.finish)
            \o <<"$">> \o Joined(d.accessories)

\* An undefined package is joined as the empty text.
Package(d) == IF d.sent["configuration"] = "object" THEN Spelling[d.package] ELSE <<>>

MutantPlace(d) == Spelling[d.city] \o <<"|">> \o Spelling[Lower[d.state]]

Place(d) == Spelling[Lower[d.city]] \o <<"|">> \o Spelling[Lower[d.state]]

MutantFingerprint(d, v) ==
    (<<d.calculator, "|">> \o SpecificationsKey(d) \o <<"|", Lower[d.email], "|">>)
    \o Package(d) \o (<<"|">> \o Place(d))

\* The text that is hashed; the hash is injective.
Fingerprint(d, v) ==
    (<<d.calculator, "|">> \o SpecificationsKey(d) \o <<"|", Lower[d.email], "|">>)
    \o Package(d) \o (<<"|">> \o Place(d) \o <<"|", v>>)

------------------------------------------------------------------------------
(* The three strategies.                                                    *)

BaseBhk == [bhk \in Bhks |->
    CASE bhk = "1BHK" -> 100000 [] bhk = "2BHK" -> 200000
      [] bhk = "3BHK" -> 300000 [] OTHER -> 500000]

RoomRates == [living |-> 30000, kitchen |-> 20000, bedroom |-> 30000,
              bathroom |-> 20000, dining |-> 30000]

RoomCost(rooms) ==
    LET cost(room) == Rate(rooms, room, 0) * RoomRates[room] IN
    cost("living") + cost("kitchen") + cost("bedroom") + cost("bathroom") + cost("dining")

\* 1 or 1.25 times 1, 1.4 or 2, hence a price in fortieths of a rupee, and in
\* fractions of a room: this strategy does not round.
FullHomePrice(d) ==
    (Rate(BaseBhk, d.bhk, 0) * Parts.room + RoomCost(d.rooms))
    * (IF d.area = "Below 800 sq. ft." THEN 4 ELSE 5)
    * Rate([PREMIUM |-> 14, LUXURY |-> 20], d.package, 10)

\* What the three patterns find in the text: a total, the walls, any number.
RunningFeet(figures) ==
    IF figures.total # <<>> THEN Head(figures.total)
    ELSE IF figures.walls # <<>> THEN FoldLeft(+, 0, figures.walls)
    ELSE IF figures.number # <<>> THEN Head(figures.number)
    ELSE 0

\* Math.round: the nearest integer, and up from a half.
Round(numerator, denominator) == (2 * numerator + denominator) \div (2 * denominator)

\* Package names are compared as they are written.
KitchenPrice(d) ==
    Round(RunningFeet(Figures[d.area])
              * Rate([ESSENTIAL |-> 1800, PREMIUM |-> 2500, LUXURY |-> 3500], d.package, 2200),
          Parts.feet)

CoreRates   == [c \in {"mdf", "hdhmr", "plywood"} |->
    CASE c = "mdf" -> 80 [] c = "hdhmr" -> 120 [] OTHER -> 160]
Finishes == {"laminate", "acrylic", "veneer", "pu paint", "glass"}
FinishRates == [f \in Finishes |->
    CASE f = "laminate" -> 100 [] f = "acrylic" -> 250 [] f = "veneer" -> 300
      [] f = "pu paint" -> 350 [] OTHER -> 400]
TypeRates   == [t \in {"hinged door", "sliding door", "walk-in"} |->
    CASE t = "hinged door" -> 50 [] t = "sliding door" -> 150 [] OTHER -> 0]
Accessories ==
    {"drawers", "shoe rack", "jewellery organizer", "mirror", "led lighting",
     "soft close hinges", "tie holder", "trouser pull-out"}
AccessoryRates ==
    [a \in Accessories |->
        CASE a = "drawers" -> 3500
          [] a \in {"shoe rack", "led lighting"} -> 2500
          [] a \in {"jewellery organizer", "trouser pull-out"} -> 3000
          [] a = "mirror" -> 2000
          [] a = "soft close hinges" -> 1500
          [] OTHER -> 1000]

\* The dimensions, or else what the display texts say.
Area(d) ==
    IF d.sent["dimensions"] = "object" THEN d.width * d.height
    ELSE Shown[d.lengthText] * Shown[d.heightText]

AccessoryCost(d) ==
    FoldLeft(LAMBDA sum, a : sum + Rate(AccessoryRates, Lower[a], 0), 0, d.accessories)

\* A price per square foot.  Catalogue keys are compared in lower case.
AreaRate(d) ==
    LET material(catalogue, t, fallback) ==
            IF d.sent["materials"] = "object" THEN Rate(catalogue, Lower[t], fallback)
            ELSE fallback IN
    material(CoreRates, d.core, 120) + material(FinishRates, d.finish, 100)
    + Rate(TypeRates, Lower[d.type], 50)

Tier(d) ==
    Rate([essential |-> 100, standard |-> 115, premium |-> 130, luxury |-> 150],
         Lower[d.package], 100)

WardrobePrice(d) ==
    LET square == Parts.side * Parts.side IN
    Round((Area(d) * AreaRate(d) + AccessoryCost(d) * square) * Tier(d), 100 * square)

\* PricingStrategyResolver.
Estimate(d) ==
    CASE d.calculator = "full_home" -> FullHomePrice(d)
      [] d.calculator = "kitchen"   -> KitchenPrice(d)
      [] d.calculator = "wardrobe"  -> WardrobePrice(d)

------------------------------------------------------------------------------
(* What is stored: the mapper's fields, less those the schema does not know. *)

\* What the schemas of the quotes require; an array is no document.
Storable(d) ==
    /\ d.calculator = "full_home" => d.sent["rooms"] = "object" /\ d.area # ""
    /\ d.calculator = "kitchen" => d.sent["configuration"] = "object"

MutantStoredConfiguration(d) ==
    CASE d.calculator = "full_home" ->
            [bhk |-> d.bhk, area |-> d.area, package |-> d.package,
             rooms |-> [room \in Rooms |-> Rate(d.rooms, room, 1)]]
      [] d.calculator = "kitchen"  -> [layout |-> d.layout, area |-> d.area, package |-> d.package]
      [] d.calculator = "wardrobe" -> [dropped |-> TRUE]

\* Room counts default to zero.  The wardrobe schema is empty, so mongoose
\* drops the whole of its configuration.
StoredConfiguration(d) ==
    CASE d.calculator = "full_home" ->
            [bhk |-> d.bhk, area |-> d.area, package |-> d.package,
             rooms |-> [room \in Rooms |-> Rate(d.rooms, room, 0)]]
      [] d.calculator = "kitchen"  -> [layout |-> d.layout, area |-> d.area, package |-> d.package]
      [] d.calculator = "wardrobe" -> [dropped |-> TRUE]

\* Only full-home quotes have a fingerprint.  "asked" and "under", the body and
\* the key, are history.
Quote(d, k, v) ==
    [calculator |-> d.calculator, configuration |-> StoredConfiguration(d),
     estimatedPrice |-> Estimate(d), strategyVersion |-> v,
     fingerPrint |-> IF d.calculator = "full_home" THEN {Fingerprint(d, v)} ELSE {},
     asked |-> d, under |-> k]

\* Each calculator has its model, whose queries see its quotes only.
Existing(d, v) ==
    {q \in book : q.calculator = d.calculator /\ Fingerprint(d, v) \in q.fingerPrint}

\* The record of an earlier success under the caller's key.
Saved(d, k) == {r \in records : r.key = k /\ r.scope = Lower[d.email]}

------------------------------------------------------------------------------
(* Serving a request.                                                       *)

Init ==
    /\ request \in [body : Requests, key : Keys, version : Versions]
    /\ answer = [kind |-> "none", quotes |-> {}]
    /\ book = {}
    /\ records = {}

Serve(d, k, v, kind, quotes) ==
    /\ request' = [body |-> d, key |-> k, version |-> v]
    /\ answer' = [kind |-> kind, quotes |-> quotes]

\* The pipe: 400.
Reject(d, k, v) ==
    /\ ~Valid(d)
    /\ Serve(d, k, v, "invalid", {})
    /\ UNCHANGED <<book, records>>

\* getSavedResult: the answer saved with the quote, whatever the version now.
Replay(d, k, v) ==
    /\ Valid(d)
    /\ \E r \in Saved(d, k) : r.quote.asked = d /\ Serve(d, k, v, "replayed", {r.quote})
    /\ UNCHANGED <<book, records>>

\* 409: the key was used with another body, or the lock is held.
Conflict(d, k, v) ==
    /\ Valid(d)
    /\ (\E r \in Saved(d, k) : r.quote.asked # d) \/ Normalizes(d)
    /\ Serve(d, k, v, "conflict", {})
    /\ UNCHANGED <<book, records>>

\* 500: a TypeError, a body that cannot be stored, a database or Redis that fails
\* before the transaction has committed.  A lock it leaves behind shows as a later
\* Conflict.
Fail(d, k, v) ==
    /\ Valid(d)
    /\ Serve(d, k, v, "error", {})
    /\ UNCHANGED <<book, records>>

\* Path A: a stored quote, for which no record is written.
Retrieve(d, k, v) ==
    /\ Valid(d) /\ Saved(d, k) = {} /\ Normalizes(d)
    /\ \E q \in Existing(d, v) : Serve(d, k, v, "retrieved", {q})
    /\ UNCHANGED <<book, records>>

\* Path B: the quote and its record are stored in one transaction.
Store(d, k, v) ==
    /\ Valid(d) /\ Saved(d, k) = {} /\ Normalizes(d)
    /\ Existing(d, v) = {} /\ Storable(d)
    /\ Cardinality(book) < MaxQuotes
    /\ book' = book \cup {Quote(d, k, v)}
    /\ records' = records \cup {[key |-> k, scope |-> Lower[d.email], quote |-> Quote(d, k, v)]}

Generate(d, k, v) ==
    Store(d, k, v) /\ Serve(d, k, v, "generated", {Quote(d, k, v)})

\* releaseLock fails behind the commit, the commit's outcome is unknown, or the
\* process dies: the quote is stored, the customer gets an error.
GenerateUnanswered(d, k, v) ==
    Store(d, k, v) /\ Serve(d, k, v, "error", {})

\* The TTL index removes a record.
RecordExpires(r) ==
    /\ records' = records \ {r}
    /\ UNCHANGED <<request, answer, book>>

Next ==
    \/ \E d \in Requests, k \in Keys, v \in Versions :
          \/ Reject(d, k, v) \/ Replay(d, k, v) \/ Conflict(d, k, v) \/ Fail(d, k, v)
          \/ Retrieve(d, k, v) \/ Generate(d, k, v) \/ GenerateUnanswered(d, k, v)
    \/ \E r \in records : RecordExpires(r)

Spec == Init /\ [][Next]_vars

------------------------------------------------------------------------------
(* Properties.                                                              *)

\* The shape of the state: prices are natural numbers, whatever sums and catalogues
\* they come from, and a key names one quote of its caller's.
TypeOK ==
    /\ request \in [body : Requests, key : Keys, version : Versions]
    /\ answer.kind \in {"none", "invalid", "replayed", "conflict", "error", "retrieved", "generated"}
    /\ answer.quotes \subseteq book
    /\ Cardinality(book) <= MaxQuotes
    /\ \A q \in book : q.asked \in Requests /\ q.estimatedPrice \in Nat
    /\ \A r \in records : r.quote \in book
    /\ \A r, s \in records : r.key = s.key /\ r.scope = s.scope => r = s

\* Who is shown a stored quote would be given its price: the fingerprint is written
\* without escapes and holds texts the customer chose, and yet no other customer,
\* home or package leads to it.  Only bathrooms and dining rooms, which are priced
\* and not in the fingerprint, may differ, and where city ends and state begins.
RetrievedForSameConfiguration ==
    answer.kind = "retrieved" =>
        \A q \in answer.quotes :
            LET d == request.body
                rooms == [room \in Rooms |->
                             Rate(IF room \in {"bathroom", "dining"} THEN q.asked.rooms
                                  ELSE d.rooms, room, 0)] IN
            /\ Lower[q.asked.email] = Lower[d.email]
            /\ Place(q.asked) = Place(d)
            /\ q.estimatedPrice = FullHomePrice(
                   [bhk |-> d.bhk, area |-> d.area, package |-> d.package, rooms |-> rooms])

\* A price of another pricing version than the serving process's is shown in one
\* case only: as the replay, under its own Idempotency-Key, of the answer the very
\* same body was given before.
OldPricesAreReplays ==
    \A q \in answer.quotes :
        \/ q.strategyVersion = request.version
        \/ /\ answer.kind = "replayed"
           /\ q.asked = request.body /\ q.under = request.key

\* What is stored of a full-home or kitchen quote reproduces its price, with the
\* schema's defaults for the rooms not sent.  (Of a wardrobe nothing is stored.)
StoredQuotesReprice ==
    \A q \in book :
        /\ q.calculator = "full_home" => q.estimatedPrice = FullHomePrice(q.configuration)
        /\ q.calculator = "kitchen" => q.estimatedPrice = KitchenPrice(q.configuration)

\* What may come out at nothing: a kitchen whose text gives less than 1/3600 of a
\* foot, and a wardrobe without priced accessories whose dimensions were sent as an
\* array and whose display texts give less than 1/360 of a square foot.
Trifling(d) ==
    \/ d.calculator = "kitchen" /\ 3600 * RunningFeet(Figures[d.area]) < Parts.feet
    \/ /\ d.calculator = "wardrobe" /\ d.sent["dimensions"] = "array"
       /\ AccessoryCost(d) = 0
       /\ 360 * Shown[d.lengthText] * Shown[d.heightText] < Parts.side * Parts.side

\* Nothing else is ever stored at a price of zero, however little of the body was
\* sent and however many of the strategies' fallbacks it takes.
PricesArePositive ==
    \A q \in book : q.estimatedPrice = 0 => Trifling(q.asked)
==============================================================================
