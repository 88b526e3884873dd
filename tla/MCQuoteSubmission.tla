-------------------------- MODULE MCQuoteSubmission --------------------------
(* Small instances of QuoteSubmission for TLC.                             *)
EXTENDS QuoteSubmission, TLC

CONSTANTS p1, p2, p3, p4, c1, c2, f1, f3, f4

\* p1 and p2 differ in a field the fingerprint leaves out (the name, say), p3 comes
\* from another caller, p4 is p1's caller asking for a kitchen.
MCCallerOf == [p \in Payloads |-> IF p = p3 THEN c2 ELSE c1]
MCFingerprintOf ==
    [p \in Payloads |-> IF p \in {p1, p2} THEN f1 ELSE IF p = p3 THEN f3 ELSE f4]

MCSymmetry == Permutations(Requests) \cup Permutations(Keys)
==============================================================================
