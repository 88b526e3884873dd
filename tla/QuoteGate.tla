------------------------------ MODULE QuoteGate ------------------------------
(***************************************************************************)
(* What admission promises, with no breaker, timeout or layer that runs    *)
(* beside another in it: every request pays each layer from the purse of   *)
(* the person behind it, once, and shows a token that is good once; then   *)
(* it has its verdict, which is final.                                     *)
(***************************************************************************)
EXTENDS Integers

CONSTANTS
    Requests, Layers,
    Purses,     \* whom the layers count
    Size,       \* what a purse can hold
    PurseOf,    \* the purse from which each request pays each layer
    TokenOf,    \* the token each request shows
    Genuine     \* the tokens that Google vouches for

VARIABLES
    verdict,    \* the verdict on each request
    left,       \* what each purse holds
    spent,      \* the requests and layers that were paid
    redeemed    \* the tokens that were shown

vars == <<verdict, left, spent, redeemed>>

Undecided(r) == verdict[r] = "undecided"
Decide(r, v) == Undecided(r) /\ verdict' = [verdict EXCEPT ![r] = v]

Init ==
    /\ verdict = [r \in Requests |-> "undecided"]
    /\ left = Size
    /\ spent = {}
    /\ redeemed = {}

\* A payment, for which the request may have waited in vain, or no longer.
Pay(r, l) ==
    LET purse == PurseOf[r][l] IN
    /\ <<r, l>> \notin spent
    /\ left[purse] > 0
    /\ left' = [left EXCEPT ![purse] = @ - 1]
    /\ spent' = spent \cup {<<r, l>>}
    /\ UNCHANGED verdict \/ Decide(r, "unavailable")
    /\ UNCHANGED redeemed

Show(r) == redeemed' = redeemed \cup {TokenOf[r]}

\* Who has paid every layer and shows a genuine, unused token is let in ...
Judge(r) ==
    /\ \A l \in Layers : <<r, l>> \in spent
    /\ Show(r)
    /\ Decide(r, IF TokenOf[r] \in Genuine \ redeemed THEN "admitted" ELSE "forbidden")
    /\ UNCHANGED <<left, spent>>

\* ... and nobody else is: a purse may be empty,
Refuse(r) ==
    /\ \E l \in Layers : <<r, l>> \notin spent /\ left[PurseOf[r][l]] = 0
    /\ Decide(r, "limited")
    /\ UNCHANGED <<left, spent, redeemed>>

\* or something may not answer, perhaps not even after the token was shown.
GiveUp(r) ==
    /\ Decide(r, "unavailable")
    /\ \/ UNCHANGED redeemed
       \/ (\A l \in Layers : <<r, l>> \in spent) /\ Show(r)
    /\ UNCHANGED <<left, spent>>

Refill(p) ==
    \E n \in (left[p] + 1)..Size[p] :
        /\ left' = [left EXCEPT ![p] = n]
        /\ UNCHANGED <<verdict, spent, redeemed>>

Next ==
    \/ \E r \in Requests : Judge(r) \/ Refuse(r) \/ GiveUp(r)
    \/ \E r \in Requests, l \in Layers : Pay(r, l)
    \/ \E p \in Purses : Refill(p)

Spec == Init /\ [][Next]_vars
==============================================================================
