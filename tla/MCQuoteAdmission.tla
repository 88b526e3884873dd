--------------------------- MODULE MCQuoteAdmission ---------------------------
(* A small instance of QuoteAdmission: ada asks twice, the second time with   *)
(* her e-mail in capitals, another phone and the token of the first time.     *)
EXTENDS QuoteAdmission, TLC

CONSTANTS r1, r2, ip, ada, ADA, p1, p2, human, site

MCMessage ==
    (r1 :> [ip |-> ip, email |-> ada, phone |-> p1, token |-> human]) @@
    (r2 :> [ip |-> ip, email |-> ADA, phone |-> p2, token |-> human])
MCNormal == [s \in {ada, ADA, p1, p2} |-> IF s = ADA THEN ada ELSE s]
MCLimit  == [l \in Layers |-> 1]
MCAssessment ==
    human :> [success |-> TRUE, action |-> "quote_submit", hostname |-> site, score |-> 90]
==============================================================================
