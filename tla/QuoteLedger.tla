----------------------------- MODULE QuoteLedger -----------------------------
(***************************************************************************)
(* What quote creation promises, with no lock, transaction or failure in   *)
(* it: a book of quotes, a memo of which quote answered each key, and the  *)
(* answers given.  A quote and its memo entry appear in one step; every    *)
(* success names a quote of the book.                                      *)
(***************************************************************************)
CONSTANTS Requests, Keys, Payloads, Callers, Fingerprints,
          CallerOf, FingerprintOf, Indexed, None

VARIABLES
    msg,     \* the key and payload of each request
    book,    \* the quotes, by the request they were made for
    memo,    \* the quote remembered for each caller and key
    answers  \* what each request was answered

vars == <<msg, book, memo, answers>>

Identity(r)    == <<CallerOf[msg[r].payload], msg[r].key>>
Fingerprint(r) == FingerprintOf[msg[r].payload]

Unanswered == [status |-> "none", quote |-> None]

Init ==
    /\ msg \in [Requests -> [key : Keys, payload : Payloads]]
    /\ book = {}
    /\ memo = [i \in Callers \X Keys |-> None]
    /\ answers = [r \in Requests |-> Unanswered]

\* A request gets a quote of its own: its key is free, and so is its
\* fingerprint where fingerprints are unique.
Issue(r) ==
    /\ r \notin book /\ answers[r] = Unanswered
    /\ memo[Identity(r)] = None
    /\ Fingerprint(r) \in Indexed =>
          \A q \in book : Fingerprint(q) # Fingerprint(r)
    /\ book' = book \cup {r}
    /\ memo' = [memo EXCEPT ![Identity(r)] = r]
    /\ UNCHANGED <<msg, answers>>

\* Why a request may be shown quote q: it is its own, or remembered for its key
\* and made for the same payload, or the one quote of its fingerprint.
MayShow(r, q) ==
    \/ q = r
    \/ memo[Identity(r)] = q /\ msg[q].payload = msg[r].payload
    \/ Fingerprint(r) \in Indexed /\ Fingerprint(q) = Fingerprint(r)

Show(r, q) ==
    /\ answers[r] = Unanswered
    /\ q \in book /\ MayShow(r, q)
    /\ answers' = [answers EXCEPT ![r] = [status |-> "ok", quote |-> q]]
    /\ UNCHANGED <<msg, book, memo>>

TurnAway(r) ==
    /\ answers[r] = Unanswered
    /\ \E status \in {"conflict", "refused", "failed"} :
          answers' = [answers EXCEPT ![r] = [status |-> status, quote |-> None]]
    /\ UNCHANGED <<msg, book, memo>>

Forget(i) ==
    /\ memo[i] # None
    /\ memo' = [memo EXCEPT ![i] = None]
    /\ UNCHANGED <<msg, book, answers>>

Next ==
    \/ \E r \in Requests : Issue(r) \/ TurnAway(r) \/ \E q \in book : Show(r, q)
    \/ \E i \in Callers \X Keys : Forget(i)

Spec == Init /\ [][Next]_vars
==============================================================================
