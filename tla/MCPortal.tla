------------------------------ MODULE MCPortal ------------------------------
(* A small instance of Portal: two registrations that want one name, one      *)
(* without a verified e-mail who types another's; uploads of two files.       *)
EXTENDS Portal

CONSTANTS r1, r2, old, s1

Plain == [kind |-> "me", sid |-> s1, token |-> "adas", username |-> "ada",
          email |-> "none", phone |-> "none", files |-> 1, key |-> <<r1, 1>>]

MCCalls ==
    {Plain,
     [Plain EXCEPT !.kind = "register", !.sid = "no cookie", !.email = "bob@x"],
     [Plain EXCEPT !.kind = "register", !.sid = "no cookie", !.token = "bobs",
                   !.username = "ada ", !.email = "ada@x"],
     [Plain EXCEPT !.kind = "register", !.sid = "no cookie", !.token = "bobs",
                   !.username = "bob", !.email = "ada@x"],
     [Plain EXCEPT !.kind = "register", !.sid = "no cookie", !.username = "ab "],
     [Plain EXCEPT !.kind = "presign", !.files = 2],
     [Plain EXCEPT !.kind = "confirm"],
     [Plain EXCEPT !.kind = "confirm", !.key = <<old, 1>>]}

MCPending == {<<old, 1>>}

\* Ada's address is verified, Bob's phone.
MCFirebase ==
    [t \in {"adas", "bobs"} |->
        IF t = "adas"
        THEN [uid |-> "ada", email |-> "Ada@X", emailVerified |-> TRUE,
              phone |-> "none", disabled |-> FALSE]
        ELSE [uid |-> "bob", email |-> "none", emailVerified |-> FALSE,
              phone |-> "p1", disabled |-> FALSE]]
MCLower == [e \in {"Ada@X", "ada@x", "bob@x", "none"} |-> IF e = "Ada@X" THEN "ada@x" ELSE e]
MCTrim  == [n \in {"ada", "ada ", "bob", "ab "} |->
                CASE n = "ada " -> "ada" [] n = "ab " -> "ab" [] OTHER -> n]
==============================================================================
