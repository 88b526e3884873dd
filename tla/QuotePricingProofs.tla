------------------------- MODULE QuotePricingProofs -------------------------
(* Theorems about QuotePricing, for every set of bodies and every bound.    *)
EXTENDS QuotePricing, FoldLemmas, FiniteSetTheorems, SequenceTheorems, TLAPS

------------------------------------------------------------------------------
(* Joined texts.                                                            *)

Cat(s, t) == s \o t

LEMMA CatIsSeq ==
    ASSUME NEW S, NEW s \in Seq(S), NEW t \in Seq(S)
    PROVE  Cat(s, t) \in Seq(S)
BY DEF Cat

LEMMA CatLen ==
    ASSUME NEW S, NEW s \in Seq(S), NEW t \in Seq(S)
    PROVE  Len(Cat(s, t)) = Len(s) + Len(t)
BY DEF Cat

LEMMA CatHead ==
    ASSUME NEW S, NEW s \in Seq(S), NEW t \in Seq(S)
    PROVE  \A i \in 1..Len(s) : Cat(s, t)[i] = s[i]
BY DEF Cat

LEMMA CatTail ==
    ASSUME NEW S, NEW s \in Seq(S), NEW t \in Seq(S)
    PROVE  \A i \in 1..Len(t) : Cat(s, t)[Len(s) + i] = t[i]
BY DEF Cat

LEMMA CatEnd ==
    ASSUME NEW S, NEW s \in Seq(S), NEW t \in Seq(S), Len(t) = 1
    PROVE  Cat(s, t)[Len(s) + 1] = t[1]
<1>1. \A i \in 1..Len(t) : Cat(s, t)[Len(s) + i] = t[i]
  BY CatTail
<1>2. 1 \in 1..Len(t)
  OBVIOUS
<1>3. QED
  BY <1>1, <1>2

LEMMA Lengths ==
    ASSUME NEW S, NEW s \in Seq(S)
    PROVE  Len(s) \in Nat /\ DOMAIN s = 1..Len(s)
OBVIOUS

\* Joined texts are split where the parts' lengths say, from either end.
LEMMA SplitByHead ==
    ASSUME NEW S, NEW a \in Seq(S), NEW b \in Seq(S), NEW c \in Seq(S), NEW d \in Seq(S),
           Cat(a, b) = Cat(c, d), Len(a) = Len(c)
    PROVE  a = c /\ b = d
<1>1. Len(b) = Len(d)
  <2>1. Len(Cat(a, b)) = Len(a) + Len(b)
    BY CatLen
  <2>2. Len(Cat(c, d)) = Len(c) + Len(d)
    BY CatLen
  <2>3. QED
    BY <2>1, <2>2, Lengths
<1>2. \A i \in 1..Len(a) : a[i] = c[i]
  BY CatHead
<1>3. \A i \in 1..Len(b) : b[i] = d[i]
  <2> TAKE i \in 1..Len(b)
  <2>1. Cat(a, b)[Len(a) + i] = b[i]
    BY CatTail
  <2>2. Cat(c, d)[Len(c) + i] = d[i]
    BY <1>1, CatTail
  <2>3. QED
    BY <2>1, <2>2
<1>4. a = c
  BY <1>2, SeqEqual
<1>5. b = d
  BY <1>1, <1>3, SeqEqual
<1>6. QED
  BY <1>4, <1>5

LEMMA SplitByTail ==
    ASSUME NEW S, NEW a \in Seq(S), NEW b \in Seq(S), NEW c \in Seq(S), NEW d \in Seq(S),
           Cat(a, b) = Cat(c, d), Len(b) = Len(d)
    PROVE  a = c /\ b = d
<1>1. Len(a) = Len(c)
  <2>1. Len(Cat(a, b)) = Len(a) + Len(b)
    BY CatLen
  <2>2. Len(Cat(c, d)) = Len(c) + Len(d)
    BY CatLen
  <2>3. QED
    BY <2>1, <2>2, Lengths
<1>2. QED
  BY <1>1, SplitByHead

\* Or at the last of certain tokens.
LEMMA NotBefore ==
    ASSUME NEW S, NEW T, NEW s \in Seq(S), NEW t \in Seq(S), NEW x \in Seq(S), NEW y \in Seq(S),
           Cat(s, x) = Cat(t, y),
           t[Len(t)] \in T, \A i \in 1..Len(x) : x[i] \notin T
    PROVE  ~(Len(s) < Len(t))
<1>1. Len(s) \in Nat /\ Len(t) \in Nat /\ Len(x) \in Nat /\ Len(y) \in Nat
  BY Lengths
<1>2. Len(s) + Len(x) = Len(t) + Len(y)
  <2>1. Len(Cat(s, x)) = Len(s) + Len(x)
    BY CatLen
  <2>2. Len(Cat(t, y)) = Len(t) + Len(y)
    BY CatLen
  <2>3. QED
    BY <2>1, <2>2
<1>3. \A i \in 1..Len(x) : Cat(s, x)[Len(s) + i] = x[i]
  BY CatTail
<1>4. \A i \in 1..Len(t) : Cat(t, y)[i] = t[i]
  BY CatHead
<1> SUFFICES ASSUME Len(s) < Len(t) PROVE FALSE
  OBVIOUS
<1> DEFINE i == Len(t) - Len(s)
<1>5. i \in 1..Len(x) /\ Len(s) + i = Len(t) /\ Len(t) \in 1..Len(t)
  BY <1>1, <1>2
<1> HIDE DEF i
<1>6. x[i] = t[Len(t)]
  BY <1>3, <1>4, <1>5
<1>7. QED
  BY <1>5, <1>6

LEMMA SplitAtLast ==
    ASSUME NEW S, NEW T, NEW a \in Seq(S), NEW b \in Seq(S),
           NEW r \in Seq(S), NEW z \in Seq(S), Len(r) = 1, Len(z) = 1,
           r[1] \in T, z[1] \in T,
           NEW x \in Seq(S), \A i \in 1..Len(x) : x[i] \notin T,
           NEW y \in Seq(S), \A i \in 1..Len(y) : y[i] \notin T,
           Cat(Cat(a, r), x) = Cat(Cat(b, z), y)
    PROVE  a = b /\ r = z /\ x = y
<1> DEFINE s == Cat(a, r)
           t == Cat(b, z)
<1>1. s \in Seq(S) /\ t \in Seq(S) /\ Cat(s, x) = Cat(t, y)
  BY CatIsSeq
<1>2. Len(s) = Len(a) + 1 /\ Len(t) = Len(b) + 1
  BY CatLen
<1>3. s[Len(s)] = r[1] /\ t[Len(t)] = z[1]
  BY <1>2, CatEnd
<1> HIDE DEF s, t
<1>4. Len(s) = Len(t)
  <2>1. ~(Len(s) < Len(t))
    BY <1>1, <1>3, NotBefore
  <2>2. ~(Len(t) < Len(s))
    BY <1>1, <1>3, NotBefore
  <2>3. QED
    BY <1>1, <2>1, <2>2, Lengths
<1>5. s = t /\ x = y
  BY <1>1, <1>4, SplitByHead
<1>6. a = b /\ r = z
  <2>1. Cat(a, r) = Cat(b, z)
    BY <1>5 DEF s, t
  <2>2. QED
    BY <2>1, SplitByTail
<1>7. QED
  BY <1>5, <1>6

------------------------------------------------------------------------------
(* What a full home's fingerprint tells apart.                              *)

Literals == {"full_home", "undefined", "|", "-", "L", "B", "K"}

\* Every token a full home's fingerprint may hold.
Tokens ==
    Literals \cup Bhks \cup Packages \cup Versions
    \cup {Numeral[n] : n \in DOMAIN Numeral} \cup {Lower[d.email] : d \in FullHomes}
    \cup UNION {{Spelling[w][i] : i \in DOMAIN Spelling[w]} : w \in DOMAIN Spelling}

Servable(d) == Valid(d) /\ Normalizes(d)

Homes == {d \in FullHomes : Servable(d)}

LEMMA LiteralTokens == Literals \subseteq Tokens
BY DEF Tokens

LEMMA SpelledTokens ==
    ASSUME NEW w \in DOMAIN Spelling
    PROVE  Spelling[w] \in Seq(Tokens)
<1>1. ASSUME NEW S, NEW T, NEW t \in Seq(S), \A i \in DOMAIN t : t[i] \in T
      PROVE  t \in Seq(T)
  BY <1>1
<1>2. Spelling[w] \in Seq(STRING)
  BY TextAssumption
<1>3. \A i \in DOMAIN Spelling[w] : Spelling[w][i] \in Tokens
  BY DEF Tokens
<1>4. QED
  BY <1>1, <1>2, <1>3

LEMMA TuplesOfTokens ==
    /\ \A a \in Tokens : <<a>> \in Seq(Tokens)
    /\ \A a \in Tokens, b \in Tokens : <<a, b>> \in Seq(Tokens) /\ Len(<<a, b>>) = 2
    /\ \A a \in Tokens, b \in Tokens, c \in Tokens :
          <<a, b, c>> \in Seq(Tokens) /\ Len(<<a, b, c>>) = 3
    /\ \A a \in Tokens, b \in Tokens, c \in Tokens :
          LET t == <<"-", "L", a, "B", b, "K", c>> IN t \in Seq(Tokens) /\ Len(t) = 7
<1>1. ASSUME NEW S, NEW a \in S PROVE <<a>> \in Seq(S)
  OBVIOUS
<1>2. ASSUME NEW S, NEW a \in S, NEW b \in S
      PROVE  <<a, b>> \in Seq(S) /\ Len(<<a, b>>) = 2
  OBVIOUS
<1>3. ASSUME NEW S, NEW a \in S, NEW b \in S, NEW c \in S
      PROVE  <<a, b, c>> \in Seq(S) /\ Len(<<a, b, c>>) = 3
  OBVIOUS
<1>4. ASSUME NEW S, NEW a \in S, NEW b \in S, NEW c \in S, "-" \in S, "L" \in S, "B" \in S, "K" \in S
      PROVE  LET t == <<"-", "L", a, "B", b, "K", c>> IN t \in Seq(S) /\ Len(t) = 7
  BY <1>4
<1>5. QED
  BY <1>1, <1>2, <1>3, <1>4, LiteralTokens DEF Literals

\* The members of a servable home, as the fingerprint writes them.
Living(d)  == Number(d, "rooms", d.rooms.living)
Bedroom(d) == Number(d, "rooms", d.rooms.bedroom)
Kitchen(d) == Number(d, "rooms", d.rooms.kitchen)

LEMMA HomesTokens ==
    ASSUME NEW d \in Homes
    PROVE  /\ d.calculator = "full_home"
           /\ d.bhk \in Tokens /\ Lower[d.email] \in Tokens
           /\ Package(d) = <<d.package>>
           /\ Package(d) \in Seq(Tokens) /\ Len(Package(d)) = 1 /\ Package(d)[1] \in Packages
           /\ Spelling[d.area] \in Seq(Tokens) /\ d.area \in DOMAIN Spelling
           /\ Living(d) \in Tokens /\ Bedroom(d) \in Tokens /\ Kitchen(d) \in Tokens
<1>1. d \in FullHomes /\ Valid(d) /\ Normalizes(d)
  BY DEF Homes, Servable
<1>2. d.calculator = "full_home" /\ d.sent["configuration"] = "object"
  BY <1>1, BodiesAssumption DEF Normalizes
<1>3. d.bhk \in Bhks /\ d.package \in Packages
  BY <1>1, <1>2 DEF Valid, ValidFullHome
<1>4. d.bhk \in Tokens /\ d.package \in Tokens
  BY <1>3 DEF Tokens
<1>5. d.area \in DOMAIN Spelling /\ d.package \in DOMAIN Spelling
  BY <1>1, TextAssumption
<1>6. Spelling[d.area] \in Seq(Tokens) /\ Spelling[d.package] = <<d.package>>
  BY <1>3, <1>5, SpelledTokens, TextAssumption
<1>7. Lower[d.email] \in Tokens
  BY <1>1 DEF Tokens
<1>8. Package(d) = <<d.package>>
  BY <1>2, <1>6 DEF Package
<1>9. Package(d) \in Seq(Tokens) /\ Len(Package(d)) = 1 /\ Package(d)[1] \in Packages
  <2>1. ASSUME NEW S, NEW a \in S PROVE <<a>> \in Seq(S) /\ Len(<<a>>) = 1 /\ <<a>>[1] = a
    OBVIOUS
  <2>2. QED
    BY <1>3, <1>4, <1>8, <2>1
<1>10. /\ Living(d) \in Tokens /\ Bedroom(d) \in Tokens /\ Kitchen(d) \in Tokens
  <2>1. CASE d.sent["rooms"] # "object"
    BY <2>1, LiteralTokens DEF Literals, Living, Bedroom, Kitchen, Number
  <2>2. CASE d.sent["rooms"] = "object"
    <3>1. {"living", "bedroom", "kitchen"} \subseteq DOMAIN d.rooms
      BY <1>1, <1>2, <2>2 DEF Valid, ValidRooms, Rooms
    <3>2. {d.rooms["living"], d.rooms["bedroom"], d.rooms["kitchen"]} \subseteq DOMAIN Numeral
      BY <1>1, <3>1, BodiesAssumption
    <3>3. \A n \in DOMAIN Numeral : Numeral[n] \in Tokens
      BY DEF Tokens
    <3>4. QED
      BY <2>2, <3>2, <3>3 DEF Living, Bedroom, Kitchen, Number
  <2>3. QED
    BY <2>1, <2>2
<1>11. QED
  BY <1>2, <1>3, <1>4, <1>5, <1>6, <1>7, <1>8, <1>9, <1>10

\* What stands in front of the package, and what behind it, as it is joined.
Heading(d) == Cat(<<d.bhk, "-">>, Spelling[d.area])
Counts(d)  == <<"-", "L", Living(d), "B", Bedroom(d), "K", Kitchen(d)>>
Caller(d)  == <<"|", Lower[d.email], "|">>
Kind(d)    == <<d.calculator, "|">>
Home(d)    == Cat(Kind(d), Cat(Heading(d), Counts(d)))
Fore(d)    == Cat(Home(d), Caller(d))
City(d)    == Cat(<<"|">>, Place(d))
Aft(d, v)  == Cat(City(d), <<"|", v>>)

LEMMA PlacesTokens ==
    ASSUME NEW d \in Homes, NEW v \in Versions
    PROVE  /\ Place(d) \in Seq(Tokens)
           /\ City(d) \in Seq(Tokens)
           /\ Aft(d, v) \in Seq(Tokens)
           /\ \A i \in 1..Len(Aft(d, v)) : Aft(d, v)[i] \notin Packages
<1> DEFINE city == Spelling[Lower[d.city]]
           state == Spelling[Lower[d.state]]
           Free(t) == t \in Seq(Tokens \ Packages)
<1>1. "|" \in Tokens \ Packages /\ v \in Tokens \ Packages
  BY TextAssumption, LiteralTokens DEF Tokens, Literals, Packages
<1>2. /\ city \in Seq(Tokens) /\ state \in Seq(Tokens)
      /\ \A i \in DOMAIN city : city[i] \notin Packages
      /\ \A i \in DOMAIN state : state[i] \notin Packages
  BY SpelledTokens, TextAssumption DEF Homes
<1>3. ASSUME NEW S, NEW C, NEW t \in Seq(S), \A i \in DOMAIN t : t[i] \notin C
      PROVE  t \in Seq(S \ C)
  BY <1>3
<1>4. Free(city) /\ Free(state)
  BY <1>2, <1>3
<1>5. Free(<<"|">>) /\ Free(<<"|", v>>)
  <2>1. ASSUME NEW S, NEW a \in S, NEW b \in S PROVE <<a>> \in Seq(S) /\ <<a, b>> \in Seq(S)
    OBVIOUS
  <2>2. QED
    BY <1>1, <2>1
<1> HIDE DEF city, state
<1>6. Free(Place(d)) /\ Free(City(d)) /\ Free(Aft(d, v))
  <2>1. Free(Cat(city, <<"|">>))
    BY <1>4, <1>5, CatIsSeq
  <2>2. Free(Cat(Cat(city, <<"|">>), state))
    BY <1>4, <2>1, CatIsSeq
  <2>3. Free(Place(d))
    BY <2>2 DEF Place, Cat, city, state
  <2>4. Free(City(d))
    BY <1>5, <2>3, CatIsSeq DEF City
  <2>5. Free(Aft(d, v))
    BY <1>5, <2>4, CatIsSeq DEF Aft
  <2>6. QED
    BY <2>3, <2>4, <2>5
<1>7. ASSUME NEW S, NEW C, NEW t \in Seq(S \ C)
      PROVE  t \in Seq(S) /\ \A i \in 1..Len(t) : t[i] \notin C
  OBVIOUS
<1>8. QED
  BY <1>6, <1>7

LEMMA PartsTokens ==
    ASSUME NEW d \in Homes
    PROVE  /\ <<d.bhk, "-">> \in Seq(Tokens) /\ Len(<<d.bhk, "-">>) = 2
           /\ Heading(d) \in Seq(Tokens)
           /\ Counts(d) \in Seq(Tokens) /\ Len(Counts(d)) = 7
           /\ Caller(d) \in Seq(Tokens) /\ Len(Caller(d)) = 3
           /\ Kind(d) \in Seq(Tokens) /\ Len(Kind(d)) = 2
           /\ Cat(Heading(d), Counts(d)) \in Seq(Tokens)
           /\ Home(d) \in Seq(Tokens)
           /\ Fore(d) \in Seq(Tokens)
<1>1. {"full_home", "|", "-"} \subseteq Tokens
  BY LiteralTokens DEF Literals
<1>2. <<d.bhk, "-">> \in Seq(Tokens) /\ Len(<<d.bhk, "-">>) = 2
  BY <1>1, HomesTokens, TuplesOfTokens
<1>3. Counts(d) \in Seq(Tokens) /\ Len(Counts(d)) = 7
  BY HomesTokens, TuplesOfTokens DEF Counts
<1>4. Caller(d) \in Seq(Tokens) /\ Len(Caller(d)) = 3
  BY <1>1, HomesTokens, TuplesOfTokens DEF Caller
<1>5. Kind(d) \in Seq(Tokens) /\ Len(Kind(d)) = 2
  BY <1>1, HomesTokens, TuplesOfTokens DEF Kind
<1>6. Heading(d) \in Seq(Tokens)
  BY <1>2, CatIsSeq, HomesTokens DEF Heading
<1>7. Cat(Heading(d), Counts(d)) \in Seq(Tokens)
  BY <1>3, <1>6, CatIsSeq
<1>8. Home(d) \in Seq(Tokens)
  BY <1>5, <1>7, CatIsSeq DEF Home
<1>9. Fore(d) \in Seq(Tokens)
  BY <1>4, <1>8, CatIsSeq DEF Fore
<1>10. QED
  BY <1>2, <1>3, <1>4, <1>5, <1>6, <1>7, <1>8, <1>9

LEMMA FingerprintParts ==
    ASSUME NEW d \in Homes, NEW v \in Versions
    PROVE  Fingerprint(d, v) = Cat(Cat(Fore(d), Package(d)), Aft(d, v))
BY HomesTokens
   DEF Fingerprint, SpecificationsKey, Cat, Fore, Home, Kind, Heading, Counts, Caller,
       Living, Bedroom, Kitchen, Aft, City

\* Homes with one fingerprint agree in whatever the fingerprint is made of, free
\* texts and all: the package is the last of its tokens written in capitals, and
\* on either side the rest is read off from its fixed end.
LEMMA Decoded ==
    ASSUME NEW d \in Homes, NEW e \in Homes, NEW v \in Versions, NEW w \in Versions,
           Fingerprint(d, v) = Fingerprint(e, w)
    PROVE  /\ v = w /\ Place(d) = Place(e) /\ d.package = e.package
           /\ Lower[d.email] = Lower[e.email]
           /\ d.bhk = e.bhk /\ d.area = e.area
           /\ Living(d) = Living(e) /\ Bedroom(d) = Bedroom(e) /\ Kitchen(d) = Kitchen(e)
<1>1. Fore(d) = Fore(e) /\ Package(d) = Package(e) /\ Aft(d, v) = Aft(e, w)
  <2>1. Cat(Cat(Fore(d), Package(d)), Aft(d, v)) = Cat(Cat(Fore(e), Package(e)), Aft(e, w))
    BY FingerprintParts
  <2>2. /\ Fore(d) \in Seq(Tokens) /\ Fore(e) \in Seq(Tokens)
        /\ Package(d) \in Seq(Tokens) /\ Len(Package(d)) = 1 /\ Package(d)[1] \in Packages
        /\ Package(e) \in Seq(Tokens) /\ Len(Package(e)) = 1 /\ Package(e)[1] \in Packages
    BY HomesTokens, PartsTokens
  <2>3. /\ Aft(d, v) \in Seq(Tokens) /\ Aft(e, w) \in Seq(Tokens)
        /\ \A i \in 1..Len(Aft(d, v)) : Aft(d, v)[i] \notin Packages
        /\ \A i \in 1..Len(Aft(e, w)) : Aft(e, w)[i] \notin Packages
    BY PlacesTokens
  <2>4. QED
    BY <2>1, <2>2, <2>3, SplitAtLast
<1>2. City(d) = City(e) /\ v = w
  <2> DEFINE s == <<"|", v>>
             t == <<"|", w>>
  <2>1. s \in Seq(Tokens) /\ Len(s) = 2 /\ t \in Seq(Tokens) /\ Len(t) = 2
    BY LiteralTokens, TuplesOfTokens DEF Literals, Tokens
  <2>2. Cat(City(d), s) = Cat(City(e), t)
    BY <1>1 DEF Aft
  <2>3. City(d) \in Seq(Tokens) /\ City(e) \in Seq(Tokens)
    BY PlacesTokens
  <2> HIDE DEF s, t
  <2>4. City(d) = City(e) /\ s = t
    BY <2>1, <2>2, <2>3, SplitByTail
  <2>5. QED
    BY <2>4 DEF s, t
<1>3. Place(d) = Place(e)
  <2>1. <<"|">> \in Seq(Tokens)
    BY LiteralTokens, TuplesOfTokens DEF Literals
  <2>2. Cat(<<"|">>, Place(d)) = Cat(<<"|">>, Place(e))
    BY <1>2 DEF City
  <2>3. QED
    BY <2>1, <2>2, PlacesTokens, SplitByHead
<1>4. Home(d) = Home(e) /\ Caller(d) = Caller(e)
  <2>1. Cat(Home(d), Caller(d)) = Cat(Home(e), Caller(e))
    BY <1>1 DEF Fore
  <2>2. QED
    BY <2>1, PartsTokens, SplitByTail
<1>5. Cat(Heading(d), Counts(d)) = Cat(Heading(e), Counts(e))
  <2>1. Cat(Kind(d), Cat(Heading(d), Counts(d))) = Cat(Kind(e), Cat(Heading(e), Counts(e)))
    BY <1>4 DEF Home
  <2>2. QED
    BY <2>1, PartsTokens, SplitByHead
<1>6. Heading(d) = Heading(e) /\ Counts(d) = Counts(e)
  BY <1>5, PartsTokens, SplitByTail
<1>7. d.bhk = e.bhk /\ d.area = e.area
  <2> DEFINE s == <<d.bhk, "-">>
             t == <<e.bhk, "-">>
  <2>1. Cat(s, Spelling[d.area]) = Cat(t, Spelling[e.area])
    BY <1>6 DEF Heading
  <2>2. /\ Spelling[d.area] \in Seq(Tokens) /\ d.area \in DOMAIN Spelling
        /\ Spelling[e.area] \in Seq(Tokens) /\ e.area \in DOMAIN Spelling
    BY HomesTokens
  <2>3. s \in Seq(Tokens) /\ Len(s) = 2 /\ t \in Seq(Tokens) /\ Len(t) = 2
    BY PartsTokens
  <2> HIDE DEF s, t
  <2>4. s = t /\ Spelling[d.area] = Spelling[e.area]
    BY <2>1, <2>2, <2>3, SplitByHead
  <2>5. d.area = e.area
    BY <2>2, <2>4, TextAssumption DEF IsInjective
  <2>6. QED
    BY <2>4, <2>5 DEF s, t
<1>8. Lower[d.email] = Lower[e.email]
  BY <1>4 DEF Caller
<1>9. Living(d) = Living(e) /\ Bedroom(d) = Bedroom(e) /\ Kitchen(d) = Kitchen(e)
  BY <1>6 DEF Counts
<1>10. d.package = e.package
  <2>1. <<d.package>> = <<e.package>>
    BY <1>1, HomesTokens
  <2>2. QED
    BY <2>1
<1>11. QED
  BY <1>2, <1>3, <1>7, <1>8, <1>9, <1>10

------------------------------------------------------------------------------
(* Prices.                                                                  *)

\* A rate is one of the catalogue's or the fallback.
LEMMA RateIsOneOf ==
    ASSUME NEW catalogue, NEW key, NEW amounts, NEW fallback \in amounts,
           \A k \in DOMAIN catalogue : catalogue[k] \in amounts
    PROVE  Rate(catalogue, key, fallback) \in amounts
BY DEF Rate

\* What the catalogues hold.
LEMMA BaseAmounts == \A k \in DOMAIN BaseBhk : BaseBhk[k] \in Nat \ {0}
BY DEF BaseBhk

LEMMA AccessoryAmounts == \A k \in DOMAIN AccessoryRates : AccessoryRates[k] \in Nat
BY DEF AccessoryRates

LEMMA CoreAmounts == \A k \in DOMAIN CoreRates : CoreRates[k] \in Nat /\ CoreRates[k] >= 80
BY DEF CoreRates

LEMMA FinishAmounts == \A k \in DOMAIN FinishRates : FinishRates[k] \in Nat /\ FinishRates[k] >= 100
BY DEF FinishRates

LEMMA TypeAmounts == \A k \in DOMAIN TypeRates : TypeRates[k] \in Nat
BY DEF TypeRates

LEMMA AccessoryCostIsNat ==
    ASSUME NEW d, NEW W, d.accessories \in Seq(W)
    PROVE  AccessoryCost(d) \in Nat
<1> DEFINE w == d.accessories
           n == Len(w)
           rate(a) == Rate(AccessoryRates, Lower[a], 0)
           g == [i \in 1..n |-> rate(w[i])]
           Sums(f) == f = [s \in SUBSET (1..n) |->
                             IF s = {} THEN 0 ELSE f[s \ {Max(s)}] + rate(w[Max(s)])]
           chosen == CHOOSE f : Sums(f)
<1>1. n \in Nat /\ DOMAIN w = 1..n
  OBVIOUS
<1>2. g \in [1..n -> Nat]
  BY AccessoryAmounts, RateIsOneOf
<1>3. ASSUME NEW f PROVE Sums(f) <=> SumsOver(f, 1..n, g)
  <2>1. ASSUME NEW s \in SUBSET (1..n), s # {} PROVE g[Max(s)] = rate(w[Max(s)])
    <3>1. Max(s) \in 1..n
      BY <1>1, <2>1, MaxIn
    <3>2. QED
      BY <3>1
  <2> HIDE DEF g, rate
  <2>2. QED
    BY <2>1 DEF SumsOver
<1> HIDE DEF g, rate
<1>4. \E f : Sums(f)
  BY <1>1, <1>3, FoldExists
<1>5. Sums(chosen)
  BY <1>4
<1> HIDE DEF n
<1>6. AccessoryCost(d) = chosen[1..n]
  BY <1>1 DEF AccessoryCost, FoldLeft, MapThenFoldSet, rate
<1> HIDE DEF chosen, Sums
<1>7. SumsOver(chosen, 1..n, g)
  BY <1>3, <1>5
<1>8. QED
  BY <1>1, <1>2, <1>6, <1>7, FoldIsNat

\* The homes that can be stored.
Housed(d) == d \in Homes /\ Storable(d)

LEMMA HousedRooms ==
    ASSUME NEW d, Housed(d)
    PROVE  /\ d.calculator = "full_home" /\ d.sent["rooms"] = "object"
           /\ {"living", "kitchen", "bedroom", "bathroom"} \subseteq DOMAIN d.rooms
           /\ \A room \in DOMAIN d.rooms : d.rooms[room] \in DOMAIN Numeral
           /\ \A room : Rate(d.rooms, room, 0) \in Nat
<1>1. d \in FullHomes /\ Valid(d) /\ Normalizes(d)
  BY DEF Housed, Homes, Servable
<1>2. d.calculator = "full_home" /\ d.sent["rooms"] = "object" /\ d.sent["configuration"] = "object"
  BY <1>1, BodiesAssumption DEF Housed, Storable, Normalizes
<1>3. ValidRooms(d.rooms)
  BY <1>1, <1>2 DEF Valid
<1>4. \A room \in DOMAIN d.rooms : d.rooms[room] \in DOMAIN Numeral
  BY <1>1, BodiesAssumption
<1>5. \A room : Rate(d.rooms, room, 0) \in Nat
  BY <1>3, <1>4, NumbersAssumption DEF ValidRooms, Rate
<1>6. QED
  BY <1>2, <1>3, <1>4, <1>5 DEF ValidRooms, Rooms

\* A home has a base price, and no room takes anything from it.
LEMMA FullHomesCost ==
    ASSUME NEW d, Housed(d)
    PROVE  FullHomePrice(d) \in Nat \ {0}
<1> DEFINE base == Rate(BaseBhk, d.bhk, 0) * Parts.room
           share == IF d.area = "Below 800 sq. ft." THEN 4 ELSE 5
           tier == Rate([PREMIUM |-> 14, LUXURY |-> 20], d.package, 10)
<1>1. d \in FullHomes /\ ValidFullHome(d)
  BY BodiesAssumption DEF Housed, Homes, Servable, Normalizes, Valid
<1>2. base \in Nat \ {0}
  <2>1. Rate(BaseBhk, d.bhk, 0) \in Nat \ {0}
    <3>1. d.bhk \in DOMAIN BaseBhk
      BY <1>1 DEF ValidFullHome, BaseBhk
    <3>2. QED
      BY <3>1, BaseAmounts DEF Rate
  <2>2. ASSUME NEW x \in Nat \ {0}, NEW y \in Nat \ {0} PROVE x * y \in Nat \ {0}
    OBVIOUS
  <2>3. QED
    BY <2>1, <2>2, NumbersAssumption
<1>3. RoomCost(d.rooms) \in Nat
  <2>1. /\ Rate(d.rooms, "living", 0) \in Nat /\ Rate(d.rooms, "kitchen", 0) \in Nat
        /\ Rate(d.rooms, "bedroom", 0) \in Nat /\ Rate(d.rooms, "bathroom", 0) \in Nat
        /\ Rate(d.rooms, "dining", 0) \in Nat
    BY HousedRooms
  <2>2. QED
    BY <2>1 DEF RoomCost, RoomRates
<1>4. tier \in {10, 14, 20} /\ share \in {4, 5}
  BY DEF Rate
<1>5. FullHomePrice(d) = (base + RoomCost(d.rooms)) * share * tier
  BY DEF FullHomePrice
<1> HIDE DEF base, share, tier
<1>6. QED
  BY <1>2, <1>3, <1>4, <1>5

\* Rounding makes nothing of less than a half.
LEMMA RoundingHalf ==
    ASSUME NEW n \in Nat, NEW m \in Nat \ {0}
    PROVE  Round(n, m) \in Nat /\ (Round(n, m) = 0 => 2 * n < m)
<1>1. ASSUME NEW x \in Nat, NEW y \in Nat \ {0}
      PROVE  x \div y \in Nat /\ (x >= y => x \div y # 0)
  OBVIOUS
<1>2. 2 * n + m \in Nat /\ 2 * m \in Nat \ {0}
  OBVIOUS
<1>3. Round(n, m) \in Nat /\ (2 * n + m >= 2 * m => Round(n, m) # 0)
  BY <1>1, <1>2 DEF Round
<1>4. QED
  BY <1>3

LEMMA KitchensCost ==
    ASSUME NEW d \in Kitchens
    PROVE  /\ KitchenPrice(d) \in Nat
           /\ KitchenPrice(d) = 0 => 3600 * RunningFeet(Figures[d.area]) < Parts.feet
<1> DEFINE figures == Figures[d.area]
           rate == Rate([ESSENTIAL |-> 1800, PREMIUM |-> 2500, LUXURY |-> 3500], d.package, 2200)
           feet == RunningFeet(figures)
<1>1. /\ figures.total \in Seq(Nat) /\ figures.walls \in Seq(Nat) /\ figures.number \in Seq(Nat)
  BY BodiesAssumption, NumbersAssumption
<1>2. FoldLeft(+, 0, figures.walls) \in Nat
  BY <1>1, SumIsNat
<1>3. \A w \in Seq(Nat) : w # <<>> => Head(w) \in Nat
  OBVIOUS
<1> HIDE DEF figures
<1>4. feet \in Nat
  BY <1>1, <1>2, <1>3 DEF RunningFeet
<1>5. rate \in {1800, 2200, 2500, 3500}
  BY DEF Rate
<1>6. KitchenPrice(d) = Round(feet * rate, Parts.feet)
  BY DEF KitchenPrice, figures
<1> HIDE DEF rate, feet
<1>7. feet * rate \in Nat /\ 1800 * feet <= feet * rate
  BY <1>4, <1>5
<1>8. Parts.feet \in Nat \ {0}
  BY NumbersAssumption
<1>9. KitchenPrice(d) \in Nat /\ (KitchenPrice(d) = 0 => 2 * (feet * rate) < Parts.feet)
  BY <1>6, <1>7, <1>8, RoundingHalf
<1>10. KitchenPrice(d) = 0 => 3600 * feet < Parts.feet
  <2> DEFINE product == feet * rate
  <2> HIDE DEF product
  <2>1. product \in Nat /\ 1800 * feet <= product
    BY <1>7 DEF product
  <2>2. KitchenPrice(d) = 0 => 2 * product < Parts.feet
    BY <1>9 DEF product
  <2>3. QED
    BY <1>4, <1>8, <2>1, <2>2
<1>11. QED
  BY <1>9, <1>10 DEF feet, figures

\* Every rate has its fallback, and only an array goes without an area.
LEMMA WardrobesCost ==
    ASSUME NEW d \in Wardrobes, Servable(d)
    PROVE  /\ WardrobePrice(d) \in Nat
           /\ WardrobePrice(d) = 0 => Trifling(d)
<1> DEFINE square == Parts.side * Parts.side
           area == Area(d)
           rate == AreaRate(d)
           extra == AccessoryCost(d)
           tier == Tier(d)
           sum == area * rate + extra * square
<1>1. /\ d.calculator = "wardrobe" /\ d.sent \in [Objects -> Forms]
      /\ d.width \in Int /\ d.height \in Int
      /\ Shown[d.lengthText] \in Nat /\ Shown[d.heightText] \in Nat
      /\ d.accessories \in Seq(DOMAIN Lower)
  BY BodiesAssumption, NumbersAssumption
<1>2. Parts.side \in Nat \ {0}
  BY NumbersAssumption
<1>3. \A x \in Nat, y \in Nat : x * y \in Nat
  OBVIOUS
<1>4. square \in Nat \ {0}
  <2>1. ASSUME NEW x \in Nat \ {0} PROVE x * x \in Nat \ {0}
    OBVIOUS
  <2>2. QED
    BY <1>2, <2>1
<1>5. /\ d.sent["configuration"] = "object"
      /\ d.sent["dimensions"] = "object" \/ d.sent["dimensions"] = "array"
  BY <1>1 DEF Servable, Normalizes, Objects, Forms
<1>6. d.sent["dimensions"] = "object" => area \in Nat /\ area >= square
  <2>1. SUFFICES ASSUME d.sent["dimensions"] = "object" PROVE area \in Nat /\ area >= square
    OBVIOUS
  <2>2. d.width >= Parts.side /\ d.height >= Parts.side
    BY <1>1, <1>5, <2>1 DEF Servable, Valid, ValidDimensions
  <2>3. ASSUME NEW x \in Int, NEW y \in Int, NEW z \in Nat \ {0}, x >= z, y >= z
        PROVE  x * y \in Nat /\ x * y >= z * z
    <3>1. x \in Nat /\ y \in Nat
      BY <2>3
    <3>2. x * y >= z * y
      BY <2>3, <3>1
    <3>3. z * y >= z * z
      BY <2>3, <3>1
    <3>4. x * y \in Nat /\ z * y \in Nat /\ z * z \in Nat
      BY <3>1
    <3>5. QED
      BY <3>2, <3>3, <3>4
  <2>4. area = d.width * d.height
    BY <2>1 DEF Area
  <2>5. QED
    BY <1>1, <1>2, <2>2, <2>3, <2>4
<1>7. d.sent["dimensions"] = "array" =>
         area \in Nat /\ area = Shown[d.lengthText] * Shown[d.heightText]
  BY <1>1, <1>3 DEF Area
<1>8. area \in Nat
  BY <1>5, <1>6, <1>7
<1>9. extra \in Nat
  BY <1>1, AccessoryCostIsNat
<1>10. rate \in Nat /\ rate >= 180
  <2> DEFINE core == IF d.sent["materials"] = "object"
                     THEN Rate(CoreRates, Lower[d.core], 120) ELSE 120
             finish == IF d.sent["materials"] = "object"
                       THEN Rate(FinishRates, Lower[d.finish], 100) ELSE 100
             type == Rate(TypeRates, Lower[d.type], 50)
  <2>1. core \in Nat /\ core >= 80
    BY CoreAmounts DEF Rate
  <2>2. finish \in Nat /\ finish >= 100
    BY FinishAmounts DEF Rate
  <2>3. type \in Nat
    BY TypeAmounts DEF Rate
  <2>4. rate = core + finish + type
    BY DEF AreaRate
  <2> HIDE DEF core, finish, type, rate
  <2>5. QED
    BY <2>1, <2>2, <2>3, <2>4
<1>11. tier \in {100, 115, 130, 150}
  BY DEF Tier, Rate
<1>12. WardrobePrice(d) = Round(sum * tier, 100 * square)
  BY DEF WardrobePrice
<1>13. area * rate \in Nat /\ area * rate >= 180 * area
  <2> HIDE DEF area, rate
  <2>1. \A x \in Nat, y \in Nat : y >= 180 => x * y >= 180 * x
    OBVIOUS
  <2>2. QED
    BY <1>3, <1>8, <1>10, <2>1
<1>14. extra * square \in Nat /\ (extra # 0 => extra * square >= square)
  <2> HIDE DEF extra, square
  <2>1. \A x \in Nat \ {0}, y \in Nat : x * y >= y
    OBVIOUS
  <2>2. QED
    BY <1>3, <1>4, <1>9, <2>1
<1> DEFINE floor == area * rate
           fittings == extra * square
<1>15. sum = floor + fittings
  OBVIOUS
<1> HIDE DEF floor, fittings, square, area, rate, extra, tier, sum
<1>16. sum \in Nat /\ sum * tier \in Nat /\ sum * tier >= 100 * sum
  BY <1>11, <1>13, <1>14, <1>15 DEF floor, fittings
<1>17. 100 * square \in Nat \ {0}
  BY <1>4
<1>18. WardrobePrice(d) \in Nat /\ (WardrobePrice(d) = 0 => 2 * (sum * tier) < 100 * square)
  BY <1>12, <1>16, <1>17, RoundingHalf
<1>19. WardrobePrice(d) = 0 => 2 * sum < square
  <2> DEFINE total == sum * tier
  <2>1. total \in Nat /\ total >= 100 * sum
    BY <1>16
  <2>2. WardrobePrice(d) = 0 => 2 * total < 100 * square
    BY <1>18
  <2> HIDE DEF total
  <2>3. QED
    BY <1>4, <1>16, <2>1, <2>2
<1>20. floor \in Nat /\ fittings \in Nat /\ floor >= 180 * area
  BY <1>13, <1>14 DEF floor, fittings
<1>21. WardrobePrice(d) = 0 => extra = 0 /\ 360 * area < square
  <2>1. extra # 0 => fittings >= square
    BY <1>14 DEF fittings
  <2>2. QED
    BY <1>4, <1>8, <1>9, <1>15, <1>19, <1>20, <2>1
<1>22. WardrobePrice(d) = 0 => d.sent["dimensions"] = "array"
  BY <1>4, <1>5, <1>6, <1>8, <1>21
<1>23. d.sent["dimensions"] = "array" =>
          360 * Shown[d.lengthText] * Shown[d.heightText] = 360 * area
  <2>1. \A x \in Nat, y \in Nat : 360 * x * y = 360 * (x * y)
    OBVIOUS
  <2>2. QED
    BY <1>1, <1>7, <2>1
<1>24. QED
  BY <1>1, <1>18, <1>21, <1>22, <1>23 DEF Trifling, extra, square

\* What is stored costs something, but for those trifles.
LEMMA ServedCost ==
    ASSUME NEW d \in Requests, Servable(d), Storable(d)
    PROVE  Estimate(d) \in Nat /\ (Estimate(d) = 0 => Trifling(d))
<1>1. CASE d \in FullHomes
  <2>1. Housed(d)
    BY <1>1 DEF Housed, Homes
  <2>2. QED
    BY <1>1, <2>1, FullHomesCost, BodiesAssumption DEF Estimate
<1>2. CASE d \in Kitchens
  BY <1>2, KitchensCost, BodiesAssumption DEF Estimate, Trifling
<1>3. CASE d \in Wardrobes
  BY <1>3, WardrobesCost, BodiesAssumption DEF Estimate
<1>4. QED
  BY <1>1, <1>2, <1>3 DEF Requests

------------------------------------------------------------------------------
(* The book and the answers given from it.                                  *)

\* What a quote holds is what its request said, at the version it was priced.
Recorded(q) ==
    /\ q.asked \in Requests /\ Servable(q.asked) /\ Storable(q.asked)
    /\ q.calculator = q.asked.calculator
    /\ q.configuration = StoredConfiguration(q.asked)
    /\ q.estimatedPrice = Estimate(q.asked)
    /\ q.strategyVersion \in Versions
    /\ q.fingerPrint = IF q.calculator = "full_home"
                       THEN {Fingerprint(q.asked, q.strategyVersion)} ELSE {}

\* Why a quote was shown.
Shows(q) ==
    \/ answer.kind = "generated" /\ q.strategyVersion = request.version
    \/ /\ answer.kind = "retrieved"
       /\ Servable(request.body) /\ q.calculator = request.body.calculator
       /\ Fingerprint(request.body, request.version) \in q.fingerPrint
    \/ /\ answer.kind = "replayed"
       /\ q.asked = request.body /\ q.under = request.key

Kinds == {"none", "invalid", "replayed", "conflict", "error", "retrieved", "generated"}

ShelfInv ==
    /\ IsFiniteSet(book) /\ Cardinality(book) <= MaxQuotes
    /\ \A q \in book : Recorded(q)

RecordsInv ==
    /\ \A r \in records : r.quote \in book /\ r.key = r.quote.under
    /\ \A r, s \in records : r.key = s.key /\ r.scope = s.scope => r = s

AnswerInv ==
    /\ request \in [body : Requests, key : Keys, version : Versions]
    /\ answer.kind \in Kinds
    /\ \A q \in answer.quotes : q \in book /\ Shows(q)

BookInv == ShelfInv /\ RecordsInv /\ AnswerInv

LEMMA StorePreserves ==
    ASSUME NEW d \in Requests, NEW k \in Keys, NEW v \in Versions,
           ShelfInv, RecordsInv, Store(d, k, v)
    PROVE  ShelfInv' /\ RecordsInv' /\ Quote(d, k, v) \in book'
<1>1. /\ book' = book \cup {Quote(d, k, v)} /\ Cardinality(book) < MaxQuotes
      /\ records' = records \cup {[key |-> k, scope |-> Lower[d.email], quote |-> Quote(d, k, v)]}
      /\ Saved(d, k) = {} /\ Servable(d) /\ Storable(d)
  BY DEF Store, Servable
<1>2. Recorded(Quote(d, k, v)) /\ Quote(d, k, v).under = k
  BY <1>1 DEF Recorded, Quote
<1>3. IsFiniteSet(book') /\ Cardinality(book') <= MaxQuotes
  <2>1. IsFiniteSet(book) /\ Cardinality(book) \in Nat
    BY FS_CardinalityType DEF ShelfInv
  <2>2. /\ IsFiniteSet(book')
        /\ Cardinality(book') \in {Cardinality(book), Cardinality(book) + 1}
    BY <1>1, <2>1, FS_AddElement
  <2>3. QED
    BY <1>1, <2>1, <2>2, MaxQuotesAssumption
<1>4. ShelfInv'
  BY <1>1, <1>2, <1>3 DEF ShelfInv
<1>5. RecordsInv'
  <2> DEFINE new == [key |-> k, scope |-> Lower[d.email], quote |-> Quote(d, k, v)]
  <2>1. new.key = k /\ new.scope = Lower[d.email] /\ new.quote = Quote(d, k, v)
    OBVIOUS
  <2>2. \A r \in records : ~(r.key = new.key /\ r.scope = new.scope)
    BY <1>1, <2>1 DEF Saved
  <2>3. records' = records \cup {new}
    BY <1>1
  <2> HIDE DEF new
  <2>4. QED
    BY <1>1, <1>2, <2>1, <2>2, <2>3 DEF RecordsInv
<1>6. QED
  BY <1>1, <1>4, <1>5

LEMMA BookInvHolds == Spec => []BookInv
<1>1. Init => BookInv
  BY MaxQuotesAssumption, FS_EmptySet
     DEF Init, BookInv, ShelfInv, RecordsInv, AnswerInv, Kinds
<1>2. BookInv /\ [Next]_vars => BookInv'
  <2> SUFFICES ASSUME BookInv, [Next]_vars PROVE BookInv'
    OBVIOUS
  <2>0. ShelfInv /\ RecordsInv /\ AnswerInv
    BY DEF BookInv
  <2>1. ASSUME UNCHANGED <<book, records>> PROVE ShelfInv' /\ RecordsInv'
    BY <2>0, <2>1 DEF ShelfInv, RecordsInv
  <2>2. ASSUME NEW d \in Requests, NEW k \in Keys, NEW v \in Versions,
               \/ Reject(d, k, v) \/ Replay(d, k, v) \/ Conflict(d, k, v) \/ Fail(d, k, v)
               \/ Retrieve(d, k, v) \/ Generate(d, k, v) \/ GenerateUnanswered(d, k, v)
        PROVE  BookInv'
    <3>1. ASSUME NEW kind, Serve(d, k, v, kind, {}), kind \in Kinds PROVE AnswerInv'
      BY <3>1 DEF Serve, AnswerInv
    <3>2. ASSUME NEW kind, NEW q, q \in book', Serve(d, k, v, kind, {q}), kind \in Kinds, Shows(q)'
          PROVE  AnswerInv'
      BY <3>2 DEF Serve, AnswerInv
    <3>3. CASE Reject(d, k, v) \/ Conflict(d, k, v) \/ Fail(d, k, v)
      <4>1. AnswerInv'
        BY <3>1, <3>3 DEF Reject, Conflict, Fail, Kinds
      <4>2. QED
        BY <2>1, <3>3, <4>1 DEF Reject, Conflict, Fail, BookInv
    <3>4. CASE Replay(d, k, v)
      <4>1. PICK r \in Saved(d, k) : r.quote.asked = d /\ Serve(d, k, v, "replayed", {r.quote})
        BY <3>4 DEF Replay
      <4>2. r.quote \in book /\ r.quote.under = k /\ UNCHANGED <<book, records>>
        BY <2>0, <3>4, <4>1 DEF Replay, Saved, RecordsInv
      <4>3. Shows(r.quote)'
        BY <4>1, <4>2 DEF Shows, Serve
      <4>4. AnswerInv'
        BY <3>2, <4>1, <4>2, <4>3 DEF Kinds
      <4>5. QED
        BY <2>1, <4>2, <4>4 DEF BookInv
    <3>5. CASE Retrieve(d, k, v)
      <4>1. PICK q \in Existing(d, v) : Serve(d, k, v, "retrieved", {q})
        BY <3>5 DEF Retrieve
      <4>2. UNCHANGED <<book, records>> /\ Servable(d)
        BY <3>5 DEF Retrieve, Servable
      <4>3. q \in book /\ q.calculator = d.calculator /\ Fingerprint(d, v) \in q.fingerPrint
        BY DEF Existing
      <4>4. answer'.kind = "retrieved" /\ request'.body = d /\ request'.version = v
        BY <4>1 DEF Serve
      <4>5. Shows(q)'
        BY <4>2, <4>3, <4>4 DEF Shows
      <4>6. AnswerInv'
        BY <3>2, <4>1, <4>2, <4>3, <4>5 DEF Kinds
      <4>7. QED
        BY <2>1, <4>2, <4>6 DEF BookInv
    <3>6. CASE Generate(d, k, v)
      <4> DEFINE q == Quote(d, k, v)
      <4>1. Store(d, k, v) /\ Serve(d, k, v, "generated", {q})
        BY <3>6 DEF Generate
      <4>2. ShelfInv' /\ RecordsInv' /\ q \in book'
        BY <2>0, <4>1, StorePreserves
      <4>3. q.strategyVersion = v
        BY DEF Quote
      <4> HIDE DEF q
      <4>4. Shows(q)'
        BY <4>1, <4>3 DEF Shows, Serve
      <4>5. AnswerInv'
        BY <3>2, <4>1, <4>2, <4>4 DEF Kinds
      <4>6. QED
        BY <4>2, <4>5 DEF BookInv
    <3>7. CASE GenerateUnanswered(d, k, v)
      <4>1. Store(d, k, v) /\ Serve(d, k, v, "error", {})
        BY <3>7 DEF GenerateUnanswered
      <4>2. QED
        BY <2>0, <3>1, <4>1, StorePreserves DEF BookInv, Kinds
    <3>8. QED
      BY <2>2, <3>3, <3>4, <3>5, <3>6, <3>7
  <2>3. ASSUME NEW r \in records, RecordExpires(r) PROVE BookInv'
    <3>1. UNCHANGED <<request, answer, book>> /\ records' \subseteq records
      BY <2>3 DEF RecordExpires
    <3>2. ShelfInv' /\ RecordsInv'
      BY <2>0, <3>1 DEF ShelfInv, RecordsInv
    <3>3. AnswerInv'
      BY <2>0, <3>1 DEF AnswerInv, Shows
    <3>4. QED
      BY <3>2, <3>3 DEF BookInv
  <2>4. CASE UNCHANGED vars
    <3>1. AnswerInv'
      BY <2>0, <2>4 DEF vars, AnswerInv, Shows
    <3>2. QED
      BY <2>1, <2>4, <3>1 DEF vars, BookInv
  <2>5. QED
    BY <2>2, <2>3, <2>4 DEF Next
<1>3. QED
  BY <1>1, <1>2, PTL DEF Spec

\* The state keeps its shape: every price is a natural number, whatever sums and
\* catalogues it comes from, and a key names one quote of its caller's.
THEOREM TypeCorrect == Spec => []TypeOK
<1>1. BookInv => TypeOK
  <2> SUFFICES ASSUME BookInv PROVE TypeOK
    OBVIOUS
  <2>1. /\ request \in [body : Requests, key : Keys, version : Versions]
        /\ answer.kind \in Kinds /\ answer.quotes \subseteq book
    BY DEF BookInv, AnswerInv
  <2>2. \A q \in book : q.asked \in Requests /\ q.estimatedPrice \in Nat
    BY ServedCost DEF BookInv, ShelfInv, Recorded
  <2>3. QED
    BY <2>1, <2>2 DEF BookInv, ShelfInv, RecordsInv, Kinds, TypeOK
<1>2. QED
  BY <1>1, BookInvHolds, PTL

\* Nothing but a trifle is stored at a price of zero.
THEOREM PricesHold == Spec => []PricesArePositive
<1>1. BookInv => PricesArePositive
  BY ServedCost DEF BookInv, ShelfInv, Recorded, PricesArePositive
<1>2. QED
  BY <1>1, BookInvHolds, PTL

\* A full home costs the same with the optional rooms' counts filled in.
LEMMA DefaultsReprice ==
    ASSUME NEW d, d.calculator = "full_home"
    PROVE  FullHomePrice(StoredConfiguration(d)) = FullHomePrice(d)
<1> DEFINE c == StoredConfiguration(d)
<1>1. /\ c.bhk = d.bhk /\ c.area = d.area /\ c.package = d.package
      /\ c.rooms = [room \in Rooms |-> Rate(d.rooms, room, 0)]
  BY DEF StoredConfiguration
<1>2. \A room \in Rooms : Rate(c.rooms, room, 0) = Rate(d.rooms, room, 0)
  <2> HIDE DEF c
  <2>1. DOMAIN c.rooms = Rooms /\ \A room \in Rooms : c.rooms[room] = Rate(d.rooms, room, 0)
    BY <1>1
  <2>2. ASSUME NEW room \in Rooms PROVE Rate(c.rooms, room, 0) = c.rooms[room]
    BY <2>1 DEF Rate
  <2>3. QED
    BY <2>1, <2>2
<1> HIDE DEF c
<1>3. RoomCost(c.rooms) = RoomCost(d.rooms)
  BY <1>2 DEF RoomCost, Rooms
<1>4. FullHomePrice(c) = FullHomePrice(d)
  BY <1>1, <1>3 DEF FullHomePrice
<1>5. QED
  BY <1>4 DEF c

\* The configuration stored with a full-home or a kitchen quote has its price.
THEOREM QuotesReprice == Spec => []StoredQuotesReprice
<1>1. BookInv => StoredQuotesReprice
  <2> SUFFICES ASSUME BookInv, NEW q \in book
               PROVE  /\ q.calculator = "full_home" =>
                            q.estimatedPrice = FullHomePrice(q.configuration)
                      /\ q.calculator = "kitchen" =>
                            q.estimatedPrice = KitchenPrice(q.configuration)
    BY DEF StoredQuotesReprice
  <2>1. Recorded(q)
    BY DEF BookInv, ShelfInv
  <2>2. CASE q.calculator = "full_home"
    BY <2>1, <2>2, DefaultsReprice DEF Recorded, Estimate
  <2>3. CASE q.calculator = "kitchen"
    <3>1. /\ q.estimatedPrice = KitchenPrice(q.asked)
          /\ q.configuration.package = q.asked.package
          /\ q.configuration.area = q.asked.area
      BY <2>1, <2>3 DEF Recorded, Estimate, StoredConfiguration
    <3>2. QED
      BY <2>3, <3>1 DEF KitchenPrice
  <2>4. QED
    BY <2>2, <2>3
<1>2. QED
  BY <1>1, BookInvHolds, PTL

------------------------------------------------------------------------------
(* What a fingerprint fixes.                                                *)

\* A home that can be stored shares its fingerprint with homes of its own rooms.
LEMMA SameRooms ==
    ASSUME NEW d \in Homes, NEW e, Housed(e), NEW v \in Versions, NEW w \in Versions,
           Fingerprint(d, v) = Fingerprint(e, w)
    PROVE  /\ v = w /\ Place(d) = Place(e) /\ Lower[d.email] = Lower[e.email]
           /\ d.bhk = e.bhk /\ d.area = e.area /\ d.package = e.package
           /\ \A room \in {"living", "bedroom", "kitchen"} :
                 Rate(d.rooms, room, 0) = Rate(e.rooms, room, 0)
<1>1. e \in Homes
  BY DEF Housed
<1>2. Living(d) = Living(e) /\ Bedroom(d) = Bedroom(e) /\ Kitchen(d) = Kitchen(e)
  BY <1>1, Decoded
<1>3. /\ e.sent["rooms"] = "object"
      /\ {"living", "kitchen", "bedroom"} \subseteq DOMAIN e.rooms
      /\ {e.rooms["living"], e.rooms["bedroom"], e.rooms["kitchen"]} \subseteq DOMAIN Numeral
  BY HousedRooms
<1>4. d.sent["rooms"] = "object"
  BY <1>2, <1>3, NumbersAssumption DEF Living, Number
<1>5. /\ {"living", "kitchen", "bedroom"} \subseteq DOMAIN d.rooms
      /\ {d.rooms["living"], d.rooms["bedroom"], d.rooms["kitchen"]} \subseteq DOMAIN Numeral
  <2>1. d \in FullHomes /\ d.sent["configuration"] = "object" /\ Valid(d)
    BY BodiesAssumption DEF Homes, Servable, Normalizes
  <2>2. ValidRooms(d.rooms)
    BY <1>4, <2>1, BodiesAssumption DEF Valid
  <2>3. QED
    BY <2>1, <2>2, BodiesAssumption DEF ValidRooms, Rooms
<1>6. /\ Numeral[d.rooms["living"]] = Numeral[e.rooms["living"]]
      /\ Numeral[d.rooms["bedroom"]] = Numeral[e.rooms["bedroom"]]
      /\ Numeral[d.rooms["kitchen"]] = Numeral[e.rooms["kitchen"]]
  BY <1>2, <1>3, <1>4 DEF Living, Bedroom, Kitchen, Number
<1>7. \A m, n \in DOMAIN Numeral : Numeral[m] = Numeral[n] => m = n
  BY NumbersAssumption DEF IsInjective
<1>8. /\ d.rooms["living"] = e.rooms["living"]
      /\ d.rooms["bedroom"] = e.rooms["bedroom"]
      /\ d.rooms["kitchen"] = e.rooms["kitchen"]
  BY <1>3, <1>5, <1>6, <1>7
<1>9. QED
  BY <1>1, <1>3, <1>5, <1>8, Decoded DEF Rate

\* A price is told by these.
LEMMA SamePrice ==
    ASSUME NEW d, NEW e, d.bhk = e.bhk, d.area = e.area, d.package = e.package,
           \A room \in Rooms : Rate(d.rooms, room, 0) = Rate(e.rooms, room, 0)
    PROVE  FullHomePrice(d) = FullHomePrice(e)
<1>1. RoomCost(d.rooms) = RoomCost(e.rooms)
  BY DEF RoomCost, Rooms
<1>2. QED
  BY <1>1 DEF FullHomePrice

\* Full homes with one fingerprint come from one customer, are in one place, at one
\* pricing version, and cost the same, unless bathrooms or dining rooms make the
\* difference: no text the customer may choose makes one request pass for another,
\* although the fingerprint is joined without escapes.
THEOREM FingerprintsFixPrices ==
    ASSUME NEW d, NEW e, Housed(d), Housed(e), NEW v \in Versions, NEW w \in Versions,
           Fingerprint(d, v) = Fingerprint(e, w)
    PROVE  /\ v = w /\ Lower[d.email] = Lower[e.email] /\ Place(d) = Place(e)
           /\ \/ Estimate(d) = Estimate(e)
              \/ \E room \in {"bathroom", "dining"} :
                    Rate(d.rooms, room, 0) # Rate(e.rooms, room, 0)
<1>1. d \in Homes
  BY DEF Housed
<1>2. /\ v = w /\ Place(d) = Place(e) /\ Lower[d.email] = Lower[e.email]
      /\ d.bhk = e.bhk /\ d.area = e.area /\ d.package = e.package
      /\ \A room \in {"living", "bedroom", "kitchen"} :
            Rate(d.rooms, room, 0) = Rate(e.rooms, room, 0)
  BY <1>1, SameRooms
<1>3. CASE \A room \in {"bathroom", "dining"} : Rate(d.rooms, room, 0) = Rate(e.rooms, room, 0)
  <2>1. \A room \in Rooms : Rate(d.rooms, room, 0) = Rate(e.rooms, room, 0)
    BY <1>2, <1>3 DEF Rooms
  <2>2. FullHomePrice(d) = FullHomePrice(e)
    BY <1>2, <2>1, SamePrice
  <2>3. Estimate(d) = Estimate(e)
    BY <2>2, HousedRooms DEF Estimate
  <2>4. QED
    BY <1>2, <2>3
<1>4. QED
  BY <1>2, <1>3

\* What a retrieved quote has in common with the request it answers.
LEMMA Found ==
    ASSUME BookInv, NEW q \in answer.quotes, answer.kind = "retrieved"
    PROVE  /\ Recorded(q) /\ Housed(q.asked) /\ request.body \in Homes
           /\ request.version \in Versions /\ q.strategyVersion \in Versions
           /\ Fingerprint(request.body, request.version)
                 = Fingerprint(q.asked, q.strategyVersion)
<1>1. q \in book /\ Shows(q) /\ Recorded(q)
  BY DEF BookInv, ShelfInv, AnswerInv
<1>2. /\ request.body \in Requests /\ request.version \in Versions
      /\ Servable(request.body) /\ q.calculator = request.body.calculator
      /\ Fingerprint(request.body, request.version) \in q.fingerPrint
  BY <1>1 DEF BookInv, AnswerInv, Shows
<1>3. q.calculator = "full_home" /\ q.asked.calculator = "full_home"
  BY <1>1, <1>2 DEF Recorded
<1>4. q.asked \in FullHomes /\ request.body \in FullHomes
  BY <1>1, <1>2, <1>3, BodiesAssumption DEF Recorded, Requests
<1>5. QED
  BY <1>1, <1>2, <1>3, <1>4 DEF Recorded, Housed, Homes

\* A stored price is shown for nothing that would be priced otherwise, up to the
\* bathrooms and dining rooms.
THEOREM RetrievalsMatch == Spec => []RetrievedForSameConfiguration
<1>1. BookInv => RetrievedForSameConfiguration
  <2> SUFFICES ASSUME BookInv, answer.kind = "retrieved", NEW q \in answer.quotes
               PROVE  LET d == request.body
                          rooms == [room \in Rooms |->
                             Rate(IF room \in {"bathroom", "dining"} THEN q.asked.rooms
                                  ELSE d.rooms, room, 0)] IN
                      /\ Lower[q.asked.email] = Lower[d.email]
                      /\ Place(q.asked) = Place(d)
                      /\ q.estimatedPrice = FullHomePrice(
                            [bhk |-> d.bhk, area |-> d.area, package |-> d.package,
                             rooms |-> rooms])
    BY DEF RetrievedForSameConfiguration
  <2> DEFINE d == request.body
             a == q.asked
             rooms == [room \in Rooms |->
                          Rate(IF room \in {"bathroom", "dining"} THEN a.rooms
                               ELSE d.rooms, room, 0)]
             c == [bhk |-> d.bhk, area |-> d.area, package |-> d.package, rooms |-> rooms]
  <2>1. /\ Place(d) = Place(a) /\ Lower[d.email] = Lower[a.email]
        /\ d.bhk = a.bhk /\ d.area = a.area /\ d.package = a.package
        /\ \A room \in {"living", "bedroom", "kitchen"} :
              Rate(d.rooms, room, 0) = Rate(a.rooms, room, 0)
    BY Found, SameRooms
  <2>2. q.estimatedPrice = FullHomePrice(a)
    BY Found, HousedRooms DEF Recorded, Estimate
  <2>3. c.bhk = a.bhk /\ c.area = a.area /\ c.package = a.package /\ c.rooms = rooms
    BY <2>1
  <2>4. ASSUME NEW room \in Rooms PROVE Rate(rooms, room, 0) = Rate(a.rooms, room, 0)
    <3>1. Rate(rooms, room, 0) = rooms[room]
      BY DEF Rate
    <3>2. room \in {"bathroom", "dining"} \/ room \in {"living", "bedroom", "kitchen"}
      BY DEF Rooms
    <3>3. QED
      BY <2>1, <3>1, <3>2
  <2> HIDE DEF a, c, d, rooms
  <2>5. FullHomePrice(c) = FullHomePrice(a)
    BY <2>3, <2>4, SamePrice
  <2>6. QED
    BY <2>1, <2>2, <2>5 DEF a, c, d, rooms
<1>2. QED
  BY <1>1, BookInvHolds, PTL

\* An old version's price is shown as the replay of an answer, and never else.
THEOREM OldPricesHold == Spec => []OldPricesAreReplays
<1>1. BookInv => OldPricesAreReplays
  <2> SUFFICES ASSUME BookInv, NEW q \in answer.quotes
               PROVE  \/ q.strategyVersion = request.version
                      \/ /\ answer.kind = "replayed"
                         /\ q.asked = request.body /\ q.under = request.key
    BY DEF OldPricesAreReplays
  <2>1. Shows(q)
    BY DEF BookInv, AnswerInv
  <2>2. CASE answer.kind = "retrieved"
    BY <2>2, Found, SameRooms
  <2>3. QED
    BY <2>1, <2>2 DEF Shows
<1>2. QED
  BY <1>1, BookInvHolds, PTL
==============================================================================
