--------------------------- MODULE MCQuotePricing ---------------------------
(* Bodies for QuotePricing: homes that differ in one room at a time and homes *)
(* whose texts hold the fingerprint's separators, kitchens described in every *)
(* way the patterns know, wardrobes in odd spellings, and of each kind bodies *)
(* with an object left out or sent as an array or a value out of range.       *)
EXTENDS QuotePricing, TLC

Whole == [object \in Objects |-> "object"]

Home == [calculator |-> "full_home", sent |-> Whole, email |-> "ada",
         city |-> "Pune", state |-> "MH", package |-> "PREMIUM", bhk |-> "2BHK",
         area |-> "Below 800 sq. ft.",
         rooms |-> [living |-> 1, kitchen |-> 1, bedroom |-> 2, bathroom |-> 1]]

\* Were the city not put in lower case, these two would have one fingerprint.
Long  == [Home EXCEPT !.area = "S-L1B2K1|ada|PREMIUM|x", !.package = "LUXURY"]
Short == [Home EXCEPT !.area = "S", !.city = "x-L1B2K1|ada|LUXURY|Pune"]

MCFullHomes ==
    {Home,
     [Home EXCEPT !.rooms = @ @@ [dining |-> 1], !.email = "ADA"],
     [Home EXCEPT !.email = "eve"],
     [Home EXCEPT !.city = "Pune|MH", !.state = "IN"],
     [Home EXCEPT !.city = "Pune", !.state = "MH|IN"],
     Long, Short,
     [Home EXCEPT !.sent.rooms = "array"],
     [Home EXCEPT !.sent.location = "array"],
     [Home EXCEPT !.rooms.living = -20]}

Kitchen == [calculator |-> "kitchen", sent |-> Whole, email |-> "ada", city |-> "Pune",
            state |-> "MH", package |-> "Premium", layout |-> "L", area |-> "A: 8ft, B: 10ft"]

MCKitchens ==
    {Kitchen,
     [Kitchen EXCEPT !.package = "PREMIUM", !.area = "(Total: 0.0001ft)"],
     [Kitchen EXCEPT !.sent.configuration = "array"]}

Wardrobe == [calculator |-> "wardrobe", sent |-> Whole, email |-> "ada",
             city |-> "Pune", state |-> "MH", package |-> "PREMIUM", type |-> "Sliding Door",
             width |-> 12, height |-> 16, lengthText |-> "", heightText |-> "8",
             core |-> "HDHMR", finish |-> "Teak", accessories |-> <<"Drawers">>]

MCWardrobes ==
    {Wardrobe,
     [Wardrobe EXCEPT !.sent.dimensions = "array", !.accessories = <<>>],
     [Wardrobe EXCEPT !.sent.dimensions = "nothing", !.sent.materials = "array",
                      !.accessories = <<>>]}

MCFigures ==
    [t \in {k.area : k \in MCKitchens} |->
        IF t = "A: 8ft, B: 10ft"
        THEN [total |-> <<>>, walls |-> <<80000, 100000>>, number |-> <<80000>>]
        ELSE [total |-> <<1>>, walls |-> <<1>>, number |-> <<1>>]]

MCShown == [t \in {"", "8"} |-> IF t = "8" THEN 16 ELSE 0]
MCParts == [room |-> 1, feet |-> 10000, side |-> 2]

MCNumeral == [n \in -20 .. 16 |-> ToString(n)]

Texts ==
    {"ada", "ADA", "eve", "Pune", "MH", "MH|IN", "Pune|MH", "IN", "x-L1B2K1|ada|LUXURY|Pune",
     "PREMIUM", "LUXURY", "Premium", "", "Below 800 sq. ft.", "S",
     "S-L1B2K1|ada|PREMIUM|x", "L", "A: 8ft, B: 10ft",
     "(Total: 0.0001ft)", "Sliding Door", "HDHMR", "Teak", "Drawers"}

MCLower ==
    [t \in Texts |->
        CASE t = "ADA" -> "ada" [] t = "Pune" -> "pune" [] t = "MH" -> "mh" [] t = "IN" -> "in"
          [] t = "MH|IN" -> "mh|in" [] t = "Pune|MH" -> "pune|mh"
          [] t = "x-L1B2K1|ada|LUXURY|Pune" -> "x-l1b2k1|ada|luxury|pune"
          [] t = "PREMIUM" -> "premium" [] t = "Sliding Door" -> "sliding door"
          [] t = "HDHMR" -> "hdhmr" [] t = "Teak" -> "teak" [] t = "Drawers" -> "drawers"
          [] OTHER -> t]

\* A text is one token unless it holds a separator.
MCSpelling ==
    [t \in Texts \cup {MCLower[t] : t \in Texts} |->
        CASE t = "" -> <<>>
          [] t = "MH|IN"   -> <<"MH", "|", "IN">>
          [] t = "Pune|MH" -> <<"Pune", "|", "MH">>
          [] t = "mh|in"   -> <<"mh", "|", "in">>
          [] t = "pune|mh" -> <<"pune", "|", "mh">>
          [] t = "S-L1B2K1|ada|PREMIUM|x" ->
                <<"S", "-", "L", "1", "B", "2", "K", "1", "|", "ada", "|", "PREMIUM", "|", "x">>
          [] t = "x-L1B2K1|ada|LUXURY|Pune" ->
                <<"x", "-", "L", "1", "B", "2", "K", "1", "|", "ada", "|", "LUXURY", "|", "Pune">>
          [] t = "x-l1b2k1|ada|luxury|pune" ->
                <<"x", "-", "l", "1", "b", "2", "k", "1", "|", "ada", "|", "luxury", "|", "pune">>
          [] OTHER -> <<t>>]
==============================================================================
