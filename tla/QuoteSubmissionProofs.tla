------------------------ MODULE QuoteSubmissionProofs ------------------------
(* Theorems about QuoteSubmission, for every value of its constants.       *)
EXTENDS QuoteSubmission, FiniteSetTheorems, TLAPS

USE DEF store, session, history

------------------------------------------------------------------------------
(* Types.                                                                  *)

\* What a handler carries from await to await: location, reply and error.
FlowOK ==
    /\ pc \in [Requests -> Locations]
    /\ reply \in [Requests -> Reply]
    /\ failure \in [Requests -> {"none", "claimed", "duplicateQuote", "other"}]

\* What its open transaction holds.
SessionOK ==
    /\ draft \in [Requests -> Record \cup {None}]
    /\ registered \in [Requests -> BOOLEAN]
    /\ snapshot \in [Requests -> Snapshot]

\* Going on to the next await keeps the handler well formed.
LEMMA GotoType ==
    ASSUME FlowOK, NEW r \in Requests, NEW l \in Locations, Goto(r, l)
    PROVE  FlowOK'
BY DEF FlowOK, Goto

\* So does answering the client.
LEMMA AnswerType ==
    ASSUME FlowOK, NEW r \in Requests, NEW q \in Quote,
           NEW status \in {"ok", "conflict", "refused", "failed"},
           Answer(r, status, q)
    PROVE  FlowOK'
<1>1. [status |-> status, quote |-> q] \in Reply
  BY DEF Reply
<1>2. "done" \in Locations
  BY DEF Locations, Settled
<1>3. QED
  BY <1>1, <1>2 DEF FlowOK, Answer

\* Undoing a transaction leaves an empty session.
LEMMA AbortType ==
    ASSUME SessionOK, NEW r \in Requests, Abort(r)
    PROVE  SessionOK'
<1>1. Blank \in Snapshot
  BY DEF Blank, Snapshot
<1>2. QED
  BY <1>1 DEF SessionOK, Abort

\* Leaving the transaction for the catch block keeps both well formed.
LEMMA ThrowType ==
    ASSUME FlowOK, SessionOK, NEW r \in Requests,
           NEW error \in {"claimed", "duplicateQuote", "other"}, Throw(r, error)
    PROVE  FlowOK' /\ SessionOK'
<1>1. "recover" \in Locations
  BY DEF Locations, Section
<1>2. FlowOK'
  BY <1>1 DEF FlowOK, Throw
<1>3. SessionOK'
  BY AbortType DEF Throw
<1>4. QED
  BY <1>2, <1>3

\* So does withTransaction's retry.
LEMMA RerunType ==
    ASSUME FlowOK, SessionOK, NEW r \in Requests, Rerun(r)
    PROVE  FlowOK' /\ SessionOK'
<1>1. "claim" \in Locations
  BY DEF Locations, Section
<1>2. QED
  BY <1>1, GotoType, AbortType DEF Rerun

\* The rest of the state.
StoreOK ==
    /\ msg \in [Requests -> [key : Keys, payload : Payloads]]
    /\ inflight \in [Requests -> Quote]
    /\ lock \in [Fingerprints -> Quote]
    /\ records \in [Identities -> Record \cup {None}]
    /\ quotes \subseteq Requests
    /\ customers \subseteq Callers
    /\ resubmitted \in [Requests -> Nat]
    /\ tasks \in [Requests -> Nat]
    /\ retired \subseteq Quote
    /\ lapsed \subseteq Fingerprints

\* TypeOK is the three parts together.
LEMMA TypeParts == TypeOK <=> FlowOK /\ SessionOK /\ StoreOK
BY DEF TypeOK, FlowOK, SessionOK, StoreOK

\* What a request carries, and what the record of its key holds.
LEMMA RequestType ==
    ASSUME StoreOK, NEW r \in Requests
    PROVE  /\ Payload(r) \in Payloads
           /\ Caller(r) \in Callers
           /\ Fingerprint(r) \in Fingerprints
           /\ Identity(r) \in Identities
           /\ records[Identity(r)] # None => records[Identity(r)] \in Record
           /\ records[Identity(r)] # None => records[Identity(r)].quote \in Quote
BY PayloadAssumption
   DEF StoreOK, Payload, Caller, Fingerprint, Identity, Identities, Record

\* Every state has the shape TypeOK describes.
THEOREM TypeCorrect == Spec => []TypeOK
<1>1. Init => TypeOK
  BY DEF Init, TypeOK, NoReply, Blank, Locations, Section, Transaction, Settled,
         Reply, Quote, Snapshot, Identities
<1>2. TypeOK /\ [Next]_vars => TypeOK'
  <2> SUFFICES ASSUME FlowOK, SessionOK, StoreOK, [Next]_vars
               PROVE  FlowOK' /\ SessionOK' /\ StoreOK'
    BY TypeParts, PTL
  <2>0. /\ {"lookup", "guard", "existing", "claim", "release", "settle"}
              \subseteq Locations
        /\ {"customer", "insert", "save", "commit"} \subseteq Locations
        /\ None \in Quote
        /\ Requests \subseteq Quote
    BY DEF Locations, Section, Transaction, Quote
  <2>1. ASSUME NEW r \in Requests, Enter(r) PROVE FlowOK' /\ SessionOK' /\ StoreOK'
    <3>1. FlowOK'
      BY <2>1, <2>0, GotoType, AnswerType DEF Enter, Admit, Refuse
    <3>2. SessionOK' /\ StoreOK'
      BY <2>1 DEF Enter, Admit, Refuse, SessionOK, StoreOK
    <3>3. QED
      BY <3>1, <3>2
  <2>2. ASSUME NEW r \in Requests, LookUpSaved(r)
        PROVE  FlowOK' /\ SessionOK' /\ StoreOK'
    <3>1. FlowOK'
      BY <2>2, <2>0, GotoType, AnswerType, RequestType DEF LookUpSaved
    <3>2. SessionOK' /\ StoreOK'
      BY <2>2 DEF LookUpSaved, SessionOK, StoreOK
    <3>3. QED
      BY <3>1, <3>2
  <2>3. ASSUME NEW r \in Requests, AcquireLock(r) \/ AcquireLockFails(r)
        PROVE  FlowOK' /\ SessionOK' /\ StoreOK'
    <3>1. FlowOK'
      BY <2>3, <2>0, GotoType, AnswerType DEF AcquireLock, AcquireLockFails
    <3>2. SessionOK' /\ StoreOK'
      BY <2>3, <2>0 DEF AcquireLock, AcquireLockFails, SessionOK, StoreOK
    <3>3. QED
      BY <3>1, <3>2
  <2>4. ASSUME NEW r \in Requests, ResendExisting(r)
        PROVE  FlowOK' /\ SessionOK' /\ StoreOK'
    <3>1. PICK q \in Existing(r) :
             /\ resubmitted' = [resubmitted EXCEPT ![q] = @ + 1]
             /\ inflight' = [inflight EXCEPT ![r] = q]
             /\ Answer(r, "ok", q)
      BY <2>4 DEF ResendExisting
    <3>2. q \in Requests /\ q \in Quote /\ resubmitted[q] + 1 \in Nat
      BY <2>0 DEF Existing, StoreOK
    <3>3. resubmitted' \in [Requests -> Nat]
      BY <3>1, <3>2 DEF StoreOK
    <3>4. FlowOK'
      BY <3>1, <3>2, AnswerType
    <3>5. SessionOK' /\ StoreOK'
      BY <2>4, <3>1, <3>2, <3>3 DEF ResendExisting, SessionOK, StoreOK
    <3>6. QED
      BY <3>4, <3>5
  <2>5. ASSUME NEW r \in Requests, FindNoExisting(r) \/ QueryFails(r)
        PROVE  FlowOK' /\ SessionOK' /\ StoreOK'
    <3>1. FlowOK'
      BY <2>5, <2>0, GotoType, AnswerType DEF FindNoExisting, QueryFails
    <3>2. SessionOK' /\ StoreOK'
      BY <2>5 DEF FindNoExisting, QueryFails, SessionOK, StoreOK
    <3>3. QED
      BY <3>1, <3>2
  <2>6. ASSUME NEW r \in Requests, Claim(r)
        PROVE  FlowOK' /\ SessionOK' /\ StoreOK'
    <3>1. CASE Rerun(r) \/ Throw(r, "claimed")
      BY <2>6, <3>1, RerunType, ThrowType DEF Claim, StoreOK
    <3>2. CASE /\ draft' = [draft EXCEPT ![r] =
                  [payload |-> Payload(r), status |-> "PROCESSING", quote |-> None]]
               /\ snapshot' = [snapshot EXCEPT ![r] =
                  [quotes |-> quotes, customers |-> customers]]
               /\ Goto(r, "customer")
               /\ UNCHANGED registered
      <4>1. [payload |-> Payload(r), status |-> "PROCESSING", quote |-> None] \in Record
        BY <2>0, RequestType DEF Record
      <4>2. [quotes |-> quotes, customers |-> customers] \in Snapshot
        BY DEF Snapshot, StoreOK
      <4>3. SessionOK'
        BY <3>2, <4>1, <4>2 DEF SessionOK
      <4>4. FlowOK' /\ StoreOK'
        BY <2>6, <3>2, <2>0, GotoType DEF Claim, StoreOK
      <4>5. QED
        BY <4>3, <4>4
    <3>3. QED
      BY <2>6, <3>1, <3>2 DEF Claim
  <2>7. ASSUME NEW r \in Requests, FindOrCreateCustomer(r)
        PROVE  FlowOK' /\ SessionOK' /\ StoreOK'
    <3>1. FlowOK' /\ SessionOK'
      BY <2>7, <2>0, GotoType, RerunType DEF FindOrCreateCustomer, SessionOK
    <3>2. QED
      BY <2>7, <3>1 DEF FindOrCreateCustomer, StoreOK
  <2>8. ASSUME NEW r \in Requests, InsertQuote(r)
        PROVE  FlowOK' /\ SessionOK' /\ StoreOK'
    <3>1. FlowOK' /\ SessionOK'
      BY <2>8, <2>0, GotoType, RerunType, ThrowType DEF InsertQuote, SessionOK
    <3>2. QED
      BY <2>8, <3>1 DEF InsertQuote, StoreOK
  <2>9. ASSUME NEW r \in Requests, SaveResult(r)
        PROVE  FlowOK' /\ SessionOK' /\ StoreOK'
    <3>1. SessionOK'
      <4>1. draft[r] \in Record
        BY <2>9 DEF SaveResult, SessionOK
      <4>2. [draft[r] EXCEPT !.status = "COMPLETED", !.quote = r] \in Record
        BY <4>1, <2>0 DEF Record
      <4>3. draft' \in [Requests -> Record \cup {None}]
        BY <2>9, <4>2 DEF SaveResult, SessionOK
      <4>4. QED
        BY <2>9, <4>3 DEF SaveResult, SessionOK
    <3>2. FlowOK' /\ StoreOK'
      BY <2>9, <2>0, GotoType DEF SaveResult, StoreOK
    <3>3. QED
      BY <3>1, <3>2
  <2>10. ASSUME NEW r \in Requests, Commit(r) \/ CommitUnknown(r)
         PROVE  FlowOK' /\ SessionOK' /\ StoreOK'
    <3>1. FlowOK' /\ SessionOK'
      BY <2>10, <2>0, GotoType, AbortType, ThrowType DEF Commit, CommitUnknown
    <3>2. StoreOK'
      BY <2>10, RequestType DEF Commit, CommitUnknown, Publish, StoreOK, SessionOK
    <3>3. QED
      BY <3>1, <3>2
  <2>11. ASSUME NEW r \in Requests, TransactionFails(r)
         PROVE  FlowOK' /\ SessionOK' /\ StoreOK'
    BY <2>11, ThrowType DEF TransactionFails, StoreOK
  <2>12. ASSUME NEW r \in Requests, RecoverLock(r)
         PROVE  FlowOK' /\ SessionOK' /\ StoreOK'
    <3>1. FlowOK'
      BY <2>12, <2>0, GotoType DEF RecoverLock
    <3>2. SessionOK' /\ StoreOK'
      BY <2>12, <2>0 DEF RecoverLock, Unlock, SessionOK, StoreOK
    <3>3. QED
      BY <3>1, <3>2
  <2>13. ASSUME NEW r \in Requests, SettleFailure(r)
         PROVE  FlowOK' /\ SessionOK' /\ StoreOK'
    <3>1. FlowOK'
      BY <2>13, <2>0, AnswerType, RequestType DEF SettleFailure
    <3>2. SessionOK' /\ StoreOK'
      BY <2>13 DEF SettleFailure, SessionOK, StoreOK
    <3>3. QED
      BY <3>1, <3>2
  <2>14. ASSUME NEW r \in Requests, Release(r) \/ ReleaseFails(r)
         PROVE  FlowOK' /\ SessionOK' /\ StoreOK'
    <3>1. FlowOK'
      BY <2>14, <2>0, AnswerType DEF Release, ReleaseFails
    <3>2. SessionOK' /\ StoreOK'
      BY <2>14, <2>0 DEF Release, ReleaseFails, Unlock, SessionOK, StoreOK
    <3>3. QED
      BY <3>1, <3>2
  <2>15. ASSUME NEW r \in Requests, Dispatch(r)
         PROVE  FlowOK' /\ SessionOK' /\ StoreOK'
    <3>1. FlowOK' /\ SessionOK'
      BY <2>15 DEF Dispatch, DispatchLands, DispatchFails, FlowOK, SessionOK
    <3>2. StoreOK'
      <4>1. CASE DispatchLands(r)
        <5>1. inflight[r] \in Requests /\ tasks[inflight[r]] + 1 \in Nat
          BY <4>1 DEF DispatchLands, StoreOK, Quote
        <5>2. tasks' \in [Requests -> Nat]
          BY <4>1, <5>1 DEF DispatchLands, StoreOK
        <5>3. QED
          BY <4>1, <5>2, <2>0 DEF DispatchLands, StoreOK
      <4>2. CASE DispatchFails(r)
        BY <4>2, <2>0 DEF DispatchFails, StoreOK
      <4>3. QED
        BY <2>15, <4>1, <4>2 DEF Dispatch
    <3>3. QED
      BY <3>1, <3>2
  <2>16. ASSUME NEW r \in Requests, Crash(r)
         PROVE  FlowOK' /\ SessionOK' /\ StoreOK'
    <3>1. FlowOK'
      BY <2>16 DEF Crash, FlowOK, Locations, Settled
    <3>2. SessionOK' /\ StoreOK'
      BY <2>16, <2>0, AbortType DEF Crash, StoreOK
    <3>3. QED
      BY <3>1, <3>2
  <2>17. ASSUME NEW f \in Fingerprints, LockExpires(f)
         PROVE  FlowOK' /\ SessionOK' /\ StoreOK'
    BY <2>17, <2>0 DEF LockExpires, FlowOK, SessionOK, StoreOK
  <2>18. ASSUME NEW i \in Identities, RecordExpires(i)
         PROVE  FlowOK' /\ SessionOK' /\ StoreOK'
    <3>1. records[i].quote \in Quote
      BY <2>18 DEF RecordExpires, StoreOK, Record
    <3>2. QED
      BY <2>18, <3>1 DEF RecordExpires, FlowOK, SessionOK, StoreOK
  <2>19. CASE UNCHANGED vars
    BY <2>19 DEF vars, FlowOK, SessionOK, StoreOK
  <2>20. QED
    BY <2>1, <2>2, <2>3, <2>4, <2>5, <2>6, <2>7, <2>8, <2>9, <2>10, <2>11, <2>12,
       <2>13, <2>14, <2>15, <2>16, <2>17, <2>18, <2>19 DEF Next, Handle, Quiet
<1>3. QED
  BY <1>1, <1>2, PTL DEF Spec

------------------------------------------------------------------------------
(* One quote per key.  What makes it inductive: an open transaction owns    *)
(* its key (no record of it is committed, and no other open transaction     *)
(* holds it), and carries a draft of its own payload which, once the        *)
(* transaction is ready to commit, names its own quote.                     *)

\* What the record a transaction has written says at each await.
DraftInv ==
    \A r \in Requests : pc[r] \in Transaction =>
        /\ draft[r] \in Record
        /\ draft[r].payload = Payload(r)
        /\ pc[r] = "commit" => draft[r].status = "COMPLETED" /\ draft[r].quote = r

\* Two open transactions never hold the record of one key.
OwnershipInv ==
    /\ \A r \in Requests : pc[r] \in Transaction => records[Identity(r)] = None
    /\ \A r, s \in Requests :
          pc[r] \in Transaction /\ pc[s] \in Transaction /\ Identity(r) = Identity(s)
              => r = s

\* The inductive invariant behind OneQuotePerKey.
KeyInv == DraftInv /\ OwnershipInv /\ OneQuotePerKey

\* A step that leaves the committed state alone, and no transaction further on
\* than it was ...
KeyFrame ==
    /\ UNCHANGED <<msg, records, quotes, retired>>
    /\ \A s \in Requests : pc'[s] \in Transaction =>
          /\ pc[s] \in Transaction
          /\ draft'[s] = draft[s]
          /\ pc'[s] = "commit" => pc[s] = "commit"

\* ... preserves the invariant of keys and quotes.
LEMMA KeyFramePreserves ==
    ASSUME KeyInv, KeyFrame
    PROVE  KeyInv'
<1>1. /\ \A r : Payload(r)' = Payload(r)
      /\ \A r : Identity(r)' = Identity(r)
  BY DEF KeyFrame, Payload, Identity, Caller
<1>2. DraftInv'
  BY <1>1 DEF KeyInv, KeyFrame, DraftInv
<1>3. OwnershipInv'
  BY <1>1 DEF KeyInv, KeyFrame, OwnershipInv
<1>4. OneQuotePerKey'
  BY <1>1 DEF KeyInv, KeyFrame, OneQuotePerKey
<1>5. QED
  BY <1>2, <1>3, <1>4 DEF KeyInv

\* Committing keeps it: the key was free, so no retained quote loses its record.
LEMMA PublishPreserves ==
    ASSUME TypeOK, KeyInv, NEW r \in Requests, pc[r] = "commit", Publish(r),
           UNCHANGED <<msg, retired>>,
           pc'[r] \notin Transaction,
           \A s \in Requests \ {r} : pc'[s] = pc[s] /\ draft'[s] = draft[s]
    PROVE  KeyInv'
<1> USE DEF Publish
<1>1. /\ \A s : Payload(s)' = Payload(s)
      /\ \A s : Identity(s)' = Identity(s)
  BY DEF Payload, Identity, Caller
<1>2. pc[r] \in Transaction
  BY DEF Transaction
<1>3. /\ Identity(r) \in Identities
      /\ records \in [Identities -> Record \cup {None}]
      /\ \A s \in Requests : Identity(s) \in Identities
  BY TypeParts, RequestType DEF StoreOK
<1>4. /\ records[Identity(r)] = None
      /\ draft[r] \in Record /\ draft[r].status = "COMPLETED"
      /\ draft[r].quote = r /\ draft[r].payload = Payload(r)
  BY <1>2 DEF KeyInv, OwnershipInv, DraftInv
<1>5. DraftInv'
  BY <1>1 DEF KeyInv, DraftInv
<1>6. OwnershipInv'
  BY <1>1, <1>2, <1>3 DEF KeyInv, OwnershipInv
<1>7. OneQuotePerKey'
  <2>1. \A i \in Identities : records'[i] # None =>
           /\ records'[i].status = "COMPLETED"
           /\ records'[i].quote \in quotes'
           /\ Identity(records'[i].quote) = i
           /\ Payload(records'[i].quote) = records'[i].payload
    BY <1>3, <1>4 DEF KeyInv, OneQuotePerKey
  <2>2. ASSUME NEW q \in quotes' \ retired'
        PROVE  records'[Identity(q)] # None /\ records'[Identity(q)].quote = q
    <3>1. CASE q = r
      BY <1>3, <1>4, <3>1, NoneAssumption DEF Record
    <3>2. CASE q # r
      <4>1. records[Identity(q)] # None /\ records[Identity(q)].quote = q
        BY <2>2, <3>2 DEF KeyInv, OneQuotePerKey
      <4>2. Identity(q) # Identity(r)
        BY <1>4, <4>1
      <4>3. QED
        BY <1>3, <4>1, <4>2
    <3>3. QED
      BY <3>1, <3>2
  <2>3. QED
    BY <1>1, <2>1, <2>2 DEF OneQuotePerKey
<1>8. QED
  BY <1>5, <1>6, <1>7 DEF KeyInv

\* The invariant of keys and quotes holds at every step.
LEMMA KeyInvHolds == Spec => []KeyInv
<1>1. Init => KeyInv
  BY DEF Init, KeyInv, DraftInv, OwnershipInv, OneQuotePerKey, Transaction
<1>2. TypeOK /\ KeyInv /\ [Next]_vars => KeyInv'
  <2> SUFFICES ASSUME TypeOK, KeyInv, [Next]_vars PROVE KeyInv'
    OBVIOUS
  <2> USE KeyFramePreserves DEF KeyFrame
  <2>0. /\ pc \in [Requests -> Locations]
        /\ draft \in [Requests -> Record \cup {None}]
        /\ records \in [Identities -> Record \cup {None}]
        /\ \A r \in Requests : Identity(r) \in Identities /\ Payload(r) \in Payloads
    BY TypeParts, RequestType DEF TypeOK
  <2> USE <2>0
  <2>1. ASSUME NEW r \in Requests, Enter(r) \/ LookUpSaved(r) \/ AcquireLock(r)
                                   \/ AcquireLockFails(r)
        PROVE  KeyInv'
    BY <2>1 DEF Enter, Admit, Refuse, LookUpSaved, AcquireLock, AcquireLockFails,
                Goto, Answer, Transaction
  <2>2. ASSUME NEW r \in Requests, ResendExisting(r) \/ FindNoExisting(r) \/ QueryFails(r)
        PROVE  KeyInv'
    BY <2>2 DEF ResendExisting, FindNoExisting, QueryFails, Goto, Answer, Transaction
  <2>3. ASSUME NEW r \in Requests, Rerun(r) \/ Throw(r, "claimed")
                                   \/ Throw(r, "duplicateQuote") \/ Throw(r, "other"),
               UNCHANGED <<msg, store, history>>
        PROVE  KeyInv'
    BY <2>3 DEF Rerun, Throw, Goto, Abort, Transaction
  <2>4. ASSUME NEW r \in Requests, Claim(r) PROVE KeyInv'
    <3>1. CASE Rerun(r) \/ Throw(r, "claimed")
      BY <2>3, <2>4, <3>1 DEF Claim
    <3>2. CASE /\ ~ClaimConflict(r) /\ ~KeyTaken(r)
               /\ draft' = [draft EXCEPT ![r] =
                  [payload |-> Payload(r), status |-> "PROCESSING", quote |-> None]]
               /\ Goto(r, "customer")
      <4>1. /\ pc[r] = "claim" /\ records[Identity(r)] = None
            /\ \A s \in Requests \ {r} :
                  pc[s] \in Transaction => Identity(s) # Identity(r)
        BY <2>4, <3>2 DEF Claim, ClaimConflict, KeyTaken, Others, InTransaction
      <4>2. /\ UNCHANGED <<msg, records, quotes, retired>>
            /\ pc' = [pc EXCEPT ![r] = "customer"]
            /\ \A s : Payload(s)' = Payload(s) /\ Identity(s)' = Identity(s)
        BY <2>4, <3>2 DEF Claim, Goto, Payload, Identity, Caller
      <4>3. [payload |-> Payload(r), status |-> "PROCESSING", quote |-> None] \in Record
        BY DEF Record, Quote
      <4>4. DraftInv'
        BY <3>2, <4>2, <4>3 DEF KeyInv, DraftInv
      <4>5. OwnershipInv'
        BY <4>1, <4>2 DEF KeyInv, OwnershipInv
      <4>6. OneQuotePerKey'
        BY <4>2 DEF KeyInv, OneQuotePerKey
      <4>7. QED
        BY <4>4, <4>5, <4>6 DEF KeyInv
    <3>3. QED
      BY <2>4, <3>1, <3>2 DEF Claim
  <2>5. ASSUME NEW r \in Requests, FindOrCreateCustomer(r) PROVE KeyInv'
    <3>1. CASE Rerun(r)
      BY <2>3, <2>5, <3>1 DEF FindOrCreateCustomer
    <3>2. CASE Goto(r, "insert") /\ UNCHANGED draft
      BY <2>5, <3>2 DEF FindOrCreateCustomer, Goto, Transaction
    <3>3. QED
      BY <2>5, <3>1, <3>2 DEF FindOrCreateCustomer
  <2>6. ASSUME NEW r \in Requests, InsertQuote(r) PROVE KeyInv'
    <3>1. CASE Rerun(r) \/ Throw(r, "duplicateQuote")
      BY <2>3, <2>6, <3>1 DEF InsertQuote
    <3>2. CASE Goto(r, "save") /\ UNCHANGED draft
      BY <2>6, <3>2 DEF InsertQuote, Goto, Transaction
    <3>3. QED
      BY <2>6, <3>1, <3>2 DEF InsertQuote
  <2>7. ASSUME NEW r \in Requests, SaveResult(r) PROVE KeyInv'
    <3>1. /\ UNCHANGED <<msg, records, quotes, retired>>
          /\ pc' = [pc EXCEPT ![r] = "commit"] /\ pc[r] = "save"
          /\ \A s : Payload(s)' = Payload(s) /\ Identity(s)' = Identity(s)
          /\ draft' = [draft EXCEPT ![r] =
                          [draft[r] EXCEPT !.status = "COMPLETED", !.quote = r]]
      BY <2>7 DEF SaveResult, Goto, Payload, Identity, Caller
    <3>2. draft[r] \in Record /\ draft[r].payload = Payload(r)
      BY <3>1 DEF KeyInv, DraftInv, Transaction
    <3>3. DraftInv'
      <4> DEFINE done == [draft[r] EXCEPT !.status = "COMPLETED", !.quote = r]
      <4>1. /\ done \in Record /\ done.payload = Payload(r)
            /\ done.status = "COMPLETED" /\ done.quote = r
        BY <3>2 DEF Record, Quote
      <4>2. draft'[r] = done
        BY <3>1
      <4> HIDE DEF done
      <4>3. QED
        BY <3>1, <4>1, <4>2 DEF KeyInv, DraftInv
    <3>4. OwnershipInv'
      BY <3>1 DEF KeyInv, OwnershipInv, Transaction
    <3>5. OneQuotePerKey'
      BY <3>1 DEF KeyInv, OneQuotePerKey
    <3>6. QED
      BY <3>3, <3>4, <3>5 DEF KeyInv
  <2>8. ASSUME NEW r \in Requests, Commit(r) \/ CommitUnknown(r) PROVE KeyInv'
    <3>1. /\ pc[r] = "commit" /\ Publish(r) /\ UNCHANGED <<msg, retired>>
          /\ pc'[r] \notin Transaction
          /\ \A s \in Requests \ {r} : pc'[s] = pc[s] /\ draft'[s] = draft[s]
      BY <2>8 DEF Commit, CommitUnknown, Throw, Goto, Abort, Transaction
    <3>2. QED
      BY <3>1, PublishPreserves
  <2>9. ASSUME NEW r \in Requests, TransactionFails(r) PROVE KeyInv'
    BY <2>3, <2>9 DEF TransactionFails
  <2>10. ASSUME NEW r \in Requests, RecoverLock(r) \/ SettleFailure(r)
         PROVE  KeyInv'
    BY <2>10 DEF RecoverLock, SettleFailure, Goto, Answer, Transaction
  <2>11. ASSUME NEW r \in Requests, Release(r) \/ ReleaseFails(r) \/ Dispatch(r)
         PROVE  KeyInv'
    BY <2>11 DEF Release, ReleaseFails, Dispatch, DispatchLands, DispatchFails,
                 Answer, Transaction
  <2>12. ASSUME NEW r \in Requests, Crash(r) PROVE KeyInv'
    BY <2>12 DEF Crash, Abort, Transaction, Settled
  <2>13. ASSUME NEW f \in Fingerprints, LockExpires(f) PROVE KeyInv'
    BY <2>13 DEF LockExpires
  <2>14. ASSUME NEW i \in Identities, RecordExpires(i) PROVE KeyInv'
    <3>1. /\ UNCHANGED <<msg, pc, draft, quotes>>
          /\ records' = [records EXCEPT ![i] = None]
          /\ retired' = retired \cup {records[i].quote}
          /\ \A s : Payload(s)' = Payload(s) /\ Identity(s)' = Identity(s)
      BY <2>14 DEF RecordExpires, Payload, Identity, Caller
    <3>2. DraftInv' /\ OwnershipInv'
      BY <3>1 DEF KeyInv, DraftInv, OwnershipInv
    <3>3. OneQuotePerKey'
      BY <3>1 DEF KeyInv, OneQuotePerKey
    <3>4. QED
      BY <3>2, <3>3 DEF KeyInv
  <2>15. CASE UNCHANGED vars
    BY <2>15 DEF vars
  <2>16. QED
    BY <2>1, <2>2, <2>4, <2>5, <2>6, <2>7, <2>8, <2>9, <2>10, <2>11, <2>12, <2>13,
       <2>14, <2>15 DEF Next, Handle, Quiet
<1>3. QED
  BY <1>1, <1>2, TypeCorrect, PTL DEF Spec

\* No key ever has two quotes within the retention window, and a record and its
\* quote are committed together.
THEOREM OneQuotePerKeyHolds == Spec => []OneQuotePerKey
BY KeyInvHolds, PTL DEF KeyInv

------------------------------------------------------------------------------
(* The submission lock.  A handler in the guarded section holds its         *)
(* fingerprint's lock unless that lock has once expired under a handler: so *)
(* releaseLock, which never looks whose key it deletes, deletes its own.    *)

\* A handler between lock and release owns the lock, unless it once expired.
GuardInv ==
    \A r \in Requests : pc[r] \in Section /\ Fingerprint(r) \notin lapsed
        => lock[Fingerprint(r)] = r

\* As long as no lock of a fingerprint expired under a handler, at most one
\* handler is between isDuplicateSubmission and releaseLock.
THEOREM GuardExcludesHolds == Spec => []GuardExcludes
<1>1. Init => GuardInv
  BY DEF Init, GuardInv, Section, Transaction
<1>2. TypeOK /\ GuardInv /\ [Next]_vars => GuardInv'
  <2> SUFFICES ASSUME TypeOK, GuardInv, [Next]_vars PROVE GuardInv'
    OBVIOUS
  <2>1. /\ pc \in [Requests -> Locations]
        /\ lock \in [Fingerprints -> Quote]
        /\ \A r \in Requests : Fingerprint(r) \in Fingerprints
        /\ UNCHANGED msg => \A r : Fingerprint(r)' = Fingerprint(r)
    BY TypeParts, RequestType DEF TypeOK, Fingerprint, Payload
  <2> USE <2>1 DEF GuardInv
  <2>2. ASSUME UNCHANGED <<msg, lock, lapsed>>,
               \A s \in Requests : pc'[s] \in Section => pc[s] \in Section
        PROVE  GuardInv'
    BY <2>2
  <2>3. ASSUME NEW r \in Requests, Enter(r) \/ LookUpSaved(r) \/ ResendExisting(r)
                                   \/ FindNoExisting(r) \/ QueryFails(r)
        PROVE  GuardInv'
    BY <2>2, <2>3 DEF Enter, Admit, Refuse, LookUpSaved, ResendExisting,
        FindNoExisting, QueryFails, Goto, Answer, Section, Transaction
  <2>4. ASSUME NEW r \in Requests, AcquireLock(r) \/ AcquireLockFails(r)
        PROVE  GuardInv'
    <3>1. CASE UNCHANGED lock /\ Answer(r, "conflict", None)
      BY <2>2, <2>4, <3>1 DEF AcquireLock, AcquireLockFails, Answer, Section, Transaction
    <3>2. CASE UNCHANGED lock /\ Answer(r, "failed", None)
      BY <2>2, <2>4, <3>2 DEF AcquireLock, AcquireLockFails, Answer, Section, Transaction
    <3>3. CASE /\ lock[Fingerprint(r)] = None
               /\ lock' = [lock EXCEPT ![Fingerprint(r)] = r]
      <4>1. /\ UNCHANGED <<msg, lapsed>>
            /\ \A s \in Requests \ {r} : pc'[s] = pc[s]
        BY <2>4 DEF AcquireLock, AcquireLockFails, Goto, Answer
      <4>2. ASSUME NEW s \in Requests, pc'[s] \in Section, Fingerprint(s) \notin lapsed
            PROVE  lock'[Fingerprint(s)] = s
        <5>1. CASE s = r
          BY <3>3, <5>1
        <5>2. CASE s # r
          BY <3>3, <4>1, <4>2, <5>2, NoneAssumption
        <5>3. QED
          BY <5>1, <5>2
      <4>3. QED
        BY <4>1, <4>2
    <3>4. QED
      BY <2>4, <3>1, <3>2, <3>3 DEF AcquireLock, AcquireLockFails, LockFree
  <2>5. ASSUME NEW r \in Requests, Claim(r) \/ FindOrCreateCustomer(r) \/ InsertQuote(r)
        PROVE  GuardInv'
    BY <2>2, <2>5 DEF Claim, FindOrCreateCustomer, InsertQuote, Goto, Rerun, Throw,
                      Section, Transaction
  <2>6. ASSUME NEW r \in Requests, SaveResult(r) \/ Commit(r) \/ CommitUnknown(r)
                                   \/ TransactionFails(r)
        PROVE  GuardInv'
    BY <2>2, <2>6 DEF SaveResult, Commit, CommitUnknown, TransactionFails, Goto, Throw,
                      InTransaction, Section, Transaction
  <2>7. ASSUME NEW r \in Requests, SettleFailure(r) \/ Dispatch(r) \/ Crash(r)
        PROVE  GuardInv'
    BY <2>2, <2>7 DEF SettleFailure, Dispatch, DispatchLands, DispatchFails, Crash,
                      Answer, Section, Transaction, Settled
  <2>8. ASSUME NEW r \in Requests, RecoverLock(r) \/ Release(r) \/ ReleaseFails(r)
        PROVE  GuardInv'
    <3>1. /\ pc[r] \in Section /\ pc'[r] \notin Section
          /\ \A s \in Requests \ {r} : pc'[s] = pc[s]
          /\ Unlock(r) \/ UNCHANGED lock
          /\ UNCHANGED <<msg, lapsed>>
      BY <2>8 DEF RecoverLock, Release, ReleaseFails, Goto, Answer, Section, Transaction
    <3>2. ASSUME NEW s \in Requests, pc'[s] \in Section, Fingerprint(s) \notin lapsed
          PROVE  lock'[Fingerprint(s)] = s
      <4>1. s # r /\ lock[Fingerprint(s)] = s
        BY <3>1, <3>2
      <4>2. Fingerprint(s) # Fingerprint(r)
        BY <3>1, <3>2, <4>1
      <4>3. QED
        BY <3>1, <4>1, <4>2 DEF Unlock
    <3>3. QED
      BY <3>1, <3>2
  <2>9. ASSUME NEW f \in Fingerprints, LockExpires(f) PROVE GuardInv'
    <3>1. ASSUME NEW s \in Requests, pc[s] \in Section, Fingerprint(s) \notin lapsed'
          PROVE  lock'[Fingerprint(s)] = s
      <4>1. lock[Fingerprint(s)] = s
        BY <2>9, <3>1 DEF LockExpires
      <4>2. Fingerprint(s) # f
        BY <2>9, <3>1, <4>1 DEF LockExpires
      <4>3. QED
        BY <2>9, <4>1, <4>2 DEF LockExpires
    <3>2. QED
      BY <2>9, <3>1 DEF LockExpires
  <2>10. ASSUME NEW i \in Identities, RecordExpires(i) PROVE GuardInv'
    BY <2>2, <2>10 DEF RecordExpires
  <2>11. CASE UNCHANGED vars
    BY <2>2, <2>11 DEF vars
  <2>12. QED
    BY <2>3, <2>4, <2>5, <2>6, <2>7, <2>8, <2>9, <2>10, <2>11 DEF Next, Handle, Quiet
<1>3. GuardInv => GuardExcludes
  BY DEF GuardInv, GuardExcludes
<1>4. QED
  BY <1>1, <1>2, <1>3, TypeCorrect, PTL DEF Spec

------------------------------------------------------------------------------
(* One quote per full-home fingerprint.  Inserted but uncommitted quotes     *)
(* count: the unique index holds between them and the committed ones.        *)

\* Quotes the unique index counts: committed, or inserted by an open transaction.
Inserted(r) == r \in quotes \/ pc[r] \in {"save", "commit"}

\* No two of them share a full-home fingerprint.
IndexInv ==
    \A r, s \in Requests :
        /\ Inserted(r) /\ Inserted(s)
        /\ Fingerprint(r) = Fingerprint(s) /\ Fingerprint(r) \in Indexed
        => r = s

\* The index lets no two in, with or without the lock.
LEMMA IndexInvHolds == Spec => []IndexInv
<1>1. Init => IndexInv
  BY DEF Init, IndexInv, Inserted
<1>2. TypeOK /\ IndexInv /\ [Next]_vars => IndexInv'
  <2> SUFFICES ASSUME TypeOK, IndexInv, [Next]_vars PROVE IndexInv'
    OBVIOUS
  <2>1. /\ pc \in [Requests -> Locations]
        /\ UNCHANGED msg => \A r : Fingerprint(r)' = Fingerprint(r)
    BY DEF TypeOK, Fingerprint, Payload
  <2>2. ASSUME UNCHANGED msg, \A s \in Requests : Inserted(s)' => Inserted(s)
        PROVE  IndexInv'
    BY <2>1, <2>2 DEF IndexInv
  <2> USE <2>1, <2>2 DEF Inserted
  <2>3. ASSUME NEW r \in Requests, Enter(r) \/ LookUpSaved(r) \/ ResendExisting(r)
                                   \/ FindNoExisting(r) \/ QueryFails(r)
        PROVE  IndexInv'
    BY <2>3 DEF Enter, Admit, Refuse, LookUpSaved, ResendExisting, FindNoExisting,
                QueryFails, Goto, Answer
  <2>4. ASSUME NEW r \in Requests, AcquireLock(r) \/ AcquireLockFails(r)
                                   \/ RecoverLock(r) \/ SettleFailure(r)
        PROVE  IndexInv'
    BY <2>4 DEF AcquireLock, AcquireLockFails, RecoverLock, SettleFailure, Goto, Answer
  <2>5. ASSUME NEW r \in Requests, Claim(r) \/ FindOrCreateCustomer(r)
                                   \/ TransactionFails(r)
        PROVE  IndexInv'
    BY <2>5 DEF Claim, FindOrCreateCustomer, TransactionFails, Goto, Rerun, Throw
  <2>6. ASSUME NEW r \in Requests, InsertQuote(r) PROVE IndexInv'
    <3>1. CASE Rerun(r) \/ Throw(r, "duplicateQuote")
      BY <2>6, <3>1 DEF InsertQuote, Rerun, Throw, Goto
    <3>2. CASE Rivals(r) = {} /\ Goto(r, "save")
      <4>1. UNCHANGED <<msg, quotes>> /\ pc' = [pc EXCEPT ![r] = "save"]
        BY <2>6, <3>2 DEF InsertQuote, Goto
      <4>2. ASSUME NEW s \in Requests \ {r}, Inserted(s), Fingerprint(r) \in Indexed
            PROVE  Fingerprint(s) # Fingerprint(r)
        BY <3>2, <4>2 DEF Rivals
      <4>3. QED
        BY <4>1, <4>2 DEF IndexInv
    <3>3. QED
      BY <2>6, <3>1, <3>2 DEF InsertQuote
  <2>7. ASSUME NEW r \in Requests, SaveResult(r) \/ Commit(r) \/ CommitUnknown(r)
        PROVE  IndexInv'
    BY <2>7 DEF SaveResult, Commit, CommitUnknown, Publish, Goto, Throw
  <2>8. ASSUME NEW r \in Requests, Release(r) \/ ReleaseFails(r) \/ Dispatch(r)
                                   \/ Crash(r)
        PROVE  IndexInv'
    BY <2>8 DEF Release, ReleaseFails, Dispatch, DispatchLands, DispatchFails, Crash,
                Answer, Settled
  <2>9. ASSUME (\E f \in Fingerprints : LockExpires(f))
               \/ (\E i \in Identities : RecordExpires(i)) \/ UNCHANGED vars
        PROVE  IndexInv'
    BY <2>9 DEF LockExpires, RecordExpires, vars
  <2>10. QED
    BY <2>3, <2>4, <2>5, <2>6, <2>7, <2>8, <2>9 DEF Next, Handle, Quiet
<1>3. QED
  BY <1>1, <1>2, TypeCorrect, PTL DEF Spec

\* Two quotes never share a full-home fingerprint, with or without the lock.
THEOREM OneQuotePerFullHomeHolds == Spec => []OneQuotePerFullHome
<1>1. TypeOK /\ IndexInv => OneQuotePerFullHome
  BY DEF TypeOK, IndexInv, Inserted, OneQuotePerFullHome
<1>2. QED
  BY <1>1, TypeCorrect, IndexInvHolds, PTL

------------------------------------------------------------------------------
(* Customers.  A transaction past findOrCreateCustomer inserted the         *)
(* customer itself or found it committed, and snapshots only look back.     *)

\* Where a transaction's customer comes from.
CustomerInv ==
    /\ CustomersHaveQuotes
    /\ \A r \in Requests : snapshot[r].customers \subseteq customers
    /\ \A r \in Requests : pc[r] \in {"insert", "save", "commit"} =>
          registered[r] \/ Caller(r) \in customers

\* A customer is committed with its first quote and never without one.
THEOREM CustomersHaveQuotesHolds == Spec => []CustomersHaveQuotes
<1>1. Init => CustomerInv
  BY DEF Init, CustomerInv, CustomersHaveQuotes, Blank
<1>2. TypeOK /\ CustomerInv /\ [Next]_vars => CustomerInv'
  <2> SUFFICES ASSUME TypeOK, CustomerInv, [Next]_vars PROVE CustomerInv'
    OBVIOUS
  <2>1. /\ pc \in [Requests -> Locations] /\ quotes \subseteq Requests
        /\ registered \in [Requests -> BOOLEAN]
        /\ snapshot \in [Requests -> Snapshot]
        /\ UNCHANGED msg => \A r : Caller(r)' = Caller(r)
    BY DEF TypeOK, Caller, Payload
  <2>2. ASSUME UNCHANGED <<msg, quotes, customers>>,
               \A s \in Requests :
                  /\ snapshot'[s] = snapshot[s] \/ snapshot'[s] = Blank
                  /\ pc'[s] \in {"insert", "save", "commit"} =>
                        /\ pc[s] \in {"insert", "save", "commit"}
                        /\ registered'[s] = registered[s]
        PROVE  CustomerInv'
    BY <2>1, <2>2 DEF CustomerInv, CustomersHaveQuotes, Blank
  <2> USE <2>1
  <2>3. ASSUME NEW r \in Requests, Enter(r) \/ LookUpSaved(r) \/ ResendExisting(r)
                                   \/ FindNoExisting(r) \/ QueryFails(r)
        PROVE  CustomerInv'
    BY <2>2, <2>3 DEF Enter, Admit, Refuse, LookUpSaved, ResendExisting,
        FindNoExisting, QueryFails, Goto, Answer
  <2>4. ASSUME NEW r \in Requests, AcquireLock(r) \/ AcquireLockFails(r)
                                   \/ RecoverLock(r) \/ SettleFailure(r)
        PROVE  CustomerInv'
    BY <2>2, <2>4 DEF AcquireLock, AcquireLockFails, RecoverLock, SettleFailure,
                      Goto, Answer
  <2>5. ASSUME NEW r \in Requests, Rerun(r) \/ Throw(r, "claimed")
                                   \/ Throw(r, "duplicateQuote") \/ Throw(r, "other"),
               UNCHANGED <<msg, store, history>>
        PROVE  CustomerInv'
    BY <2>2, <2>5 DEF Rerun, Throw, Goto, Abort
  <2>6. ASSUME NEW r \in Requests, Claim(r) PROVE CustomerInv'
    <3>1. CASE Rerun(r) \/ Throw(r, "claimed")
      BY <2>5, <2>6, <3>1 DEF Claim
    <3>2. CASE /\ snapshot' = [snapshot EXCEPT ![r] =
                     [quotes |-> quotes, customers |-> customers]]
               /\ Goto(r, "customer") /\ UNCHANGED registered
      <4>1. UNCHANGED <<msg, quotes, customers>> /\ pc' = [pc EXCEPT ![r] = "customer"]
        BY <2>6, <3>2 DEF Claim, Goto
      <4>2. QED
        BY <3>2, <4>1 DEF CustomerInv, CustomersHaveQuotes
    <3>3. QED
      BY <2>6, <3>1, <3>2 DEF Claim
  <2>7. ASSUME NEW r \in Requests, FindOrCreateCustomer(r) PROVE CustomerInv'
    <3>1. CASE Rerun(r)
      BY <2>5, <2>7, <3>1 DEF FindOrCreateCustomer
    <3>2. CASE ~Rerun(r)
      <4>1. /\ UNCHANGED <<msg, quotes, customers, snapshot>>
            /\ pc' = [pc EXCEPT ![r] = "insert"]
            /\ \/ Caller(r) \in snapshot[r].customers /\ UNCHANGED registered
               \/ registered' = [registered EXCEPT ![r] = TRUE]
        BY <2>7, <3>2 DEF FindOrCreateCustomer, Goto
      <4>2. QED
        BY <4>1 DEF CustomerInv, CustomersHaveQuotes
    <3>3. QED
      BY <3>1, <3>2
  <2>8. ASSUME NEW r \in Requests, InsertQuote(r) PROVE CustomerInv'
    <3>1. CASE Rerun(r) \/ Throw(r, "duplicateQuote")
      BY <2>5, <2>8, <3>1 DEF InsertQuote
    <3>2. CASE Goto(r, "save") /\ UNCHANGED session
      BY <2>2, <2>8, <3>2 DEF InsertQuote, Goto
    <3>3. QED
      BY <2>8, <3>1, <3>2 DEF InsertQuote
  <2>9. ASSUME NEW r \in Requests, SaveResult(r) PROVE CustomerInv'
    BY <2>2, <2>9 DEF SaveResult, Goto
  <2>10. ASSUME NEW r \in Requests, Commit(r) \/ CommitUnknown(r) PROVE CustomerInv'
    <3>1. /\ UNCHANGED msg /\ quotes' = quotes \cup {r} /\ pc[r] = "commit"
          /\ customers' = customers \cup IF registered[r] THEN {Caller(r)} ELSE {}
          /\ snapshot' = [snapshot EXCEPT ![r] = Blank]
          /\ registered' = [registered EXCEPT ![r] = FALSE]
          /\ \A s \in Requests \ {r} : pc'[s] = pc[s]
          /\ pc'[r] \notin {"insert", "save", "commit"}
      BY <2>10 DEF Commit, CommitUnknown, Publish, Abort, Goto, Throw
    <3>2. CustomersHaveQuotes'
      BY <3>1 DEF CustomerInv, CustomersHaveQuotes
    <3>3. QED
      BY <3>1, <3>2 DEF CustomerInv, Blank
  <2>11. ASSUME NEW r \in Requests, TransactionFails(r) PROVE CustomerInv'
    BY <2>5, <2>11 DEF TransactionFails
  <2>12. ASSUME NEW r \in Requests, Release(r) \/ ReleaseFails(r) \/ Dispatch(r)
                                    \/ Crash(r)
         PROVE  CustomerInv'
    BY <2>2, <2>12 DEF Release, ReleaseFails, Dispatch, DispatchLands, DispatchFails,
                       Crash, Abort, Answer, Settled
  <2>13. ASSUME (\E f \in Fingerprints : LockExpires(f))
                \/ (\E i \in Identities : RecordExpires(i)) \/ UNCHANGED vars
         PROVE  CustomerInv'
    BY <2>2, <2>13 DEF LockExpires, RecordExpires, vars
  <2>14. QED
    BY <2>3, <2>4, <2>6, <2>7, <2>8, <2>9, <2>10, <2>11, <2>12, <2>13
       DEF Next, Handle, Quiet
<1>3. CustomerInv => CustomersHaveQuotes
  BY DEF CustomerInv
<1>4. QED
  BY <1>1, <1>2, <1>3, TypeCorrect, PTL DEF Spec

------------------------------------------------------------------------------
(* Answers.  A success names a committed quote which was made for the same   *)
(* key and payload, or is the one of its full-home fingerprint.              *)

\* What makes q a true answer to r.
TrueAnswer(r, q) ==
    /\ q \in quotes
    /\ Fingerprint(q) = Fingerprint(r)
    /\ \/ Identity(q) = Identity(r) /\ Payload(q) = Payload(r)
       \/ Fingerprint(r) \in Indexed

\* Every success, given or about to be, is a true answer.
AnswerInv ==
    /\ \A r \in Requests : pc[r] = "release" => r \in quotes
    /\ \A r \in Requests : reply[r].status = "ok" => TrueAnswer(r, reply[r].quote)

\* A record of the request's own payload leads to a true answer.
LEMMA SavedAnswer ==
    ASSUME TypeOK, KeyInv, NEW r \in Requests,
           records[Identity(r)] # None, SamePayload(r, records[Identity(r)])
    PROVE  TrueAnswer(r, records[Identity(r)].quote)
<1>1. Identity(r) \in Identities
  BY TypeParts, RequestType
<1>2. QED
  BY <1>1 DEF KeyInv, OneQuotePerKey, SamePayload, TrueAnswer, Fingerprint

\* A step that answers r with q, or nobody with success, keeps the invariant.
LEMMA AnswerStep ==
    ASSUME TypeOK, AnswerInv, UNCHANGED msg, quotes \subseteq quotes',
           \A s \in Requests : pc'[s] = "release" => pc[s] = "release" \/ s \in quotes',
           \A s \in Requests : reply'[s].status = "ok" =>
              reply'[s] = reply[s] \/ TrueAnswer(s, reply'[s].quote)
    PROVE  AnswerInv'
<1>1. /\ \A s : Fingerprint(s)' = Fingerprint(s)
      /\ \A s : Payload(s)' = Payload(s)
      /\ \A s : Identity(s)' = Identity(s)
  BY DEF Fingerprint, Payload, Identity, Caller
<1>2. ASSUME NEW s \in Requests, reply'[s].status = "ok"
      PROVE  TrueAnswer(s, reply[s].quote)'
  <2>1. TrueAnswer(s, reply'[s].quote)
    BY <1>2 DEF AnswerInv
  <2>2. QED
    BY <1>1, <2>1 DEF TrueAnswer
<1>3. QED
  BY <1>2 DEF AnswerInv

\* True answers are all the service ever gives.
LEMMA AnswerInvHolds == Spec => []AnswerInv
<1>1. Init => AnswerInv
  BY DEF Init, AnswerInv, NoReply
<1>2. TypeOK /\ KeyInv /\ AnswerInv /\ [Next]_vars => AnswerInv'
  <2> SUFFICES ASSUME TypeOK, KeyInv, AnswerInv, [Next]_vars PROVE AnswerInv'
    OBVIOUS
  <2>1. /\ pc \in [Requests -> Locations] /\ reply \in [Requests -> Reply]
        /\ quotes \subseteq Requests
    BY DEF TypeOK
  <2> USE <2>1, AnswerStep
  <2>2. ASSUME NEW r \in Requests, Enter(r) \/ AcquireLock(r) \/ AcquireLockFails(r)
                                   \/ FindNoExisting(r) \/ QueryFails(r)
        PROVE  AnswerInv'
    BY <2>2 DEF Enter, Admit, Refuse, AcquireLock, AcquireLockFails, FindNoExisting,
                QueryFails, Goto, Answer
  <2>3. ASSUME NEW r \in Requests, LookUpSaved(r) \/ SettleFailure(r)
        PROVE  AnswerInv'
    <3>1. /\ UNCHANGED <<msg, quotes>>
          /\ pc'[r] # "release"
          /\ \A s \in Requests \ {r} : pc'[s] = pc[s] /\ reply'[s] = reply[s]
          /\ reply'[r].status = "ok" =>
                \/ reply'[r] = reply[r]
                \/ /\ records[Identity(r)] # None
                   /\ SamePayload(r, records[Identity(r)])
                   /\ reply'[r].quote = records[Identity(r)].quote
      BY <2>3 DEF LookUpSaved, SettleFailure, Goto, Answer
    <3>2. QED
      BY <3>1, SavedAnswer
  <2>4. ASSUME NEW r \in Requests, ResendExisting(r) PROVE AnswerInv'
    <3>1. PICK q \in Existing(r) : Answer(r, "ok", q)
      BY <2>4 DEF ResendExisting
    <3>2. TrueAnswer(r, q)
      BY DEF Existing, TrueAnswer
    <3>3. QED
      BY <2>4, <3>1, <3>2 DEF ResendExisting, Answer
  <2>5. ASSUME NEW r \in Requests, Claim(r) \/ FindOrCreateCustomer(r) \/ InsertQuote(r)
                                   \/ SaveResult(r) \/ TransactionFails(r)
                                   \/ RecoverLock(r)
        PROVE  AnswerInv'
    BY <2>5 DEF Claim, FindOrCreateCustomer, InsertQuote, SaveResult,
                TransactionFails, RecoverLock, Goto, Rerun, Throw
  <2>6. ASSUME NEW r \in Requests, Commit(r) \/ CommitUnknown(r) PROVE AnswerInv'
    BY <2>6 DEF Commit, CommitUnknown, Publish, Goto, Throw
  <2>7. ASSUME NEW r \in Requests, Release(r) \/ ReleaseFails(r) PROVE AnswerInv'
    <3>1. TrueAnswer(r, r)
      BY <2>7 DEF Release, ReleaseFails, AnswerInv, TrueAnswer
    <3>2. QED
      BY <2>7, <3>1 DEF Release, ReleaseFails, Answer
  <2>8. ASSUME NEW r \in Requests, Dispatch(r) \/ Crash(r) PROVE AnswerInv'
    BY <2>8 DEF Dispatch, DispatchLands, DispatchFails, Crash
  <2>9. ASSUME (\E f \in Fingerprints : LockExpires(f))
               \/ (\E i \in Identities : RecordExpires(i)) \/ UNCHANGED vars
        PROVE  AnswerInv'
    BY <2>9 DEF LockExpires, RecordExpires, vars
  <2>10. QED
    BY <2>2, <2>3, <2>4, <2>5, <2>6, <2>7, <2>8, <2>9 DEF Next, Handle, Quiet
<1>3. QED
  BY <1>1, <1>2, TypeCorrect, KeyInvHolds, PTL DEF Spec

\* No client is ever told of a quote that is not committed, nor of one whose
\* fingerprint is not that of what it sent.
THEOREM AnswersAreTrueHolds == Spec => []AnswersAreTrue
<1>1. AnswerInv => AnswersAreTrue
  BY DEF AnswerInv, AnswersAreTrue, TrueAnswer
<1>2. QED
  BY <1>1, AnswerInvHolds, PTL

\* Retries are idempotent: while the quote's record is retained, all successes
\* for one key and payload name one quote.
THEOREM SameKeySameAnswerHolds == Spec => []SameKeySameAnswer
<1>1. TypeOK /\ KeyInv /\ AnswerInv /\ OneQuotePerFullHome => SameKeySameAnswer
  <2> SUFFICES ASSUME TypeOK, KeyInv, AnswerInv, OneQuotePerFullHome,
                      NEW r1 \in Requests, NEW r2 \in Requests,
                      reply[r1].status = "ok", reply[r2].status = "ok",
                      Identity(r1) = Identity(r2), Payload(r1) = Payload(r2),
                      {reply[r1].quote, reply[r2].quote} \cap retired = {}
               PROVE  reply[r1].quote = reply[r2].quote
    BY DEF SameKeySameAnswer
  <2>1. /\ TrueAnswer(r1, reply[r1].quote)
        /\ TrueAnswer(r2, reply[r2].quote)
        /\ Fingerprint(r1) = Fingerprint(r2)
    BY DEF AnswerInv, Fingerprint
  <2>2. CASE Fingerprint(r1) \in Indexed
    BY <2>1, <2>2 DEF OneQuotePerFullHome, TrueAnswer
  <2>3. CASE Fingerprint(r1) \notin Indexed
    <3>1. Identity(reply[r1].quote) = Identity(reply[r2].quote)
      BY <2>1, <2>3 DEF TrueAnswer
    <3>2. QED
      BY <2>1, <3>1 DEF TrueAnswer, KeyInv, OneQuotePerKey
  <2>4. QED
    BY <2>2, <2>3
<1>2. QED
  BY <1>1, TypeCorrect, KeyInvHolds, AnswerInvHolds, OneQuotePerFullHomeHolds, PTL

------------------------------------------------------------------------------
(* A promise the code does not keep, and how far it keeps it.               *)

\* Of kitchens and wardrobes the README's promise of a reused key holds: two
\* successes with one key carry the same payload while their quotes' records
\* are retained.
ChangedKitchenConflicts ==
    \A r, s \in Requests :
        /\ Fingerprint(r) \notin Indexed /\ Fingerprint(s) \notin Indexed
        /\ reply[r].status = "ok" /\ reply[s].status = "ok"
        /\ Identity(r) = Identity(s) /\ reply[r].quote \notin retired
        /\ reply[s].quote \notin retired
        => Payload(r) = Payload(s)

\* A reused key with changed data is answered with success only through the
\* look-up of an existing full-home quote: where that finds nothing the record
\* decides, and the record's payload is compared.
THEOREM ChangedKitchenConflictsHolds == Spec => []ChangedKitchenConflicts
<1>1. TypeOK /\ KeyInv /\ AnswerInv => ChangedKitchenConflicts
  <2> SUFFICES ASSUME TypeOK, KeyInv, AnswerInv,
                      NEW r \in Requests, NEW s \in Requests,
                      Fingerprint(r) \notin Indexed, Fingerprint(s) \notin Indexed,
                      reply[r].status = "ok", reply[s].status = "ok",
                      Identity(r) = Identity(s),
                      {reply[r].quote, reply[s].quote} \cap retired = {}
               PROVE  Payload(r) = Payload(s)
    BY DEF ChangedKitchenConflicts
  <2>1. /\ TrueAnswer(r, reply[r].quote)
        /\ TrueAnswer(s, reply[s].quote)
    BY DEF AnswerInv
  <2>2. /\ Identity(reply[r].quote) = Identity(reply[s].quote)
        /\ Payload(reply[r].quote) = Payload(r)
        /\ Payload(reply[s].quote) = Payload(s)
    BY <2>1 DEF TrueAnswer
  <2>3. reply[r].quote = reply[s].quote
    BY <2>1, <2>2 DEF TrueAnswer, KeyInv, OneQuotePerKey
  <2>4. QED
    BY <2>2, <2>3
<1>2. QED
  BY <1>1, TypeCorrect, KeyInvHolds, AnswerInvHolds, PTL

------------------------------------------------------------------------------
(* Tasks.  The one task a quote is owed for its creation is due once its    *)
(* handler has released the lock; until then nothing may be on its way.     *)

\* The dispatches of a quote that are on their way.
Flying(q) == {r \in Requests : inflight[r] = q}

Due(q) == IF q \in quotes /\ pc[q] # "release" THEN 1 ELSE 0

Balanced(q) == tasks[q] + Cardinality(Flying(q)) <= resubmitted[q] + Due(q)

\* A request has a quote only from its commit on.
Uncommitted == {"idle", "lookup", "guard", "existing", "claim"} \cup Transaction
CommitInv ==
    \A q \in Requests : /\ pc[q] \in Uncommitted => q \notin quotes
                        /\ pc[q] = "release" => q \in quotes

OwedInv == CommitInv /\ \A q \in Requests : Balanced(q)

LEMMA FlyingFinite ==
    \A q : /\ IsFiniteSet(Flying(q)) /\ Cardinality(Flying(q)) \in Nat
          /\ IsFiniteSet(Flying(q)') /\ Cardinality(Flying(q)') \in Nat
BY RequestsAssumption, FS_Subset, FS_CardinalityType DEF Flying

\* Fewer dispatches on their way and more owed keep the balance.
LEMMA BalanceKept ==
    ASSUME TypeOK, NEW q \in Requests, Balanced(q), Flying(q)' \subseteq Flying(q),
           resubmitted'[q] \in Nat, tasks'[q] = tasks[q],
           resubmitted[q] + Due(q) <= resubmitted'[q] + Due(q)'
    PROVE  Balanced(q)'
<1>1. Cardinality(Flying(q)') <= Cardinality(Flying(q))
  BY FlyingFinite, FS_Subset
<1>2. /\ tasks[q] \in Nat /\ resubmitted[q] \in Nat /\ Due(q) \in Nat /\ Due(q)' \in Nat
  BY DEF TypeOK, Due
<1>3. tasks[q] + Cardinality(Flying(q)) <= resubmitted[q] + Due(q)
  BY DEF Balanced
<1>4. tasks'[q] + Cardinality(Flying(q)') <= resubmitted'[q] + Due(q)'
  BY <1>1, <1>2, <1>3, FlyingFinite
<1>5. QED
  BY <1>4 DEF Balanced

\* One more dispatch is paid for by one more that is owed.
LEMMA BalanceOfDispatch ==
    ASSUME TypeOK, NEW q \in Requests, NEW r \in Requests, Balanced(q),
           Flying(q)' \subseteq Flying(q) \cup {r},
           resubmitted'[q] \in Nat, tasks'[q] = tasks[q],
           resubmitted[q] + Due(q) + 1 <= resubmitted'[q] + Due(q)'
    PROVE  Balanced(q)'
<1>1. Cardinality(Flying(q)') <= Cardinality(Flying(q)) + 1
  <2>1. /\ IsFiniteSet(Flying(q) \cup {r})
        /\ Cardinality(Flying(q) \cup {r}) \in {Cardinality(Flying(q)), Cardinality(Flying(q)) + 1}
    BY FlyingFinite, FS_AddElement
  <2>2. Cardinality(Flying(q)') <= Cardinality(Flying(q) \cup {r})
    BY <2>1, FS_Subset
  <2>3. QED
    BY <2>1, <2>2, FlyingFinite
<1>2. /\ tasks[q] \in Nat /\ resubmitted[q] \in Nat /\ Due(q) \in Nat /\ Due(q)' \in Nat
  BY DEF TypeOK, Due
<1>3. tasks[q] + Cardinality(Flying(q)) <= resubmitted[q] + Due(q)
  BY DEF Balanced
<1>4. tasks'[q] + Cardinality(Flying(q)') <= resubmitted'[q] + Due(q)'
  BY <1>1, <1>2, <1>3, FlyingFinite
<1>5. QED
  BY <1>4 DEF Balanced

\* A step that starts no dispatch, commits nothing and ends no handler's release
\* but for the better.
LEMMA OwedFrame ==
    ASSUME TypeOK, TypeOK', OwedInv, UNCHANGED <<tasks, quotes>>,
           \A s \in Requests : inflight'[s] \in {inflight[s], None},
           \A s \in Requests : resubmitted[s] <= resubmitted'[s],
           \A s \in Requests : /\ pc'[s] \in Uncommitted => pc[s] \in Uncommitted
                               /\ pc'[s] = "release" => pc[s] = "release"
    PROVE  OwedInv'
<1>1. CommitInv'
  BY DEF OwedInv, CommitInv
<1>2. ASSUME NEW q \in Requests PROVE Balanced(q)'
  <2>1. Flying(q)' \subseteq Flying(q)
    BY NoneAssumption DEF Flying
  <2>2. Due(q) <= Due(q)' /\ Due(q) \in Nat /\ Due(q)' \in Nat
    BY DEF Due
  <2>3. /\ resubmitted[q] \in Nat /\ resubmitted'[q] \in Nat
    BY DEF TypeOK
  <2>4. resubmitted[q] + Due(q) <= resubmitted'[q] + Due(q)'
    BY <2>2, <2>3
  <2>5. QED
    BY <2>1, <2>3, <2>4, BalanceKept DEF OwedInv
<1>3. QED
  BY <1>1, <1>2 DEF OwedInv

\* A commit makes a quote whose task is not due before its release.
LEMMA OwedCommit ==
    ASSUME TypeOK, TypeOK', OwedInv, NEW r \in Requests, pc[r] = "commit", Publish(r),
           UNCHANGED <<inflight, tasks>>, pc'[r] \in {"release", "recover"},
           \A s \in Requests \ {r} : pc'[s] = pc[s]
    PROVE  OwedInv'
<1>1. quotes' = quotes \cup {r} /\ UNCHANGED resubmitted /\ r \notin quotes
  BY DEF Publish, OwedInv, CommitInv, Uncommitted, Transaction
<1>2. CommitInv'
  BY <1>1 DEF OwedInv, CommitInv, Uncommitted, Transaction
<1>3. ASSUME NEW q \in Requests PROVE Balanced(q)'
  <2>1. Flying(q)' = Flying(q)
    BY DEF Flying
  <2>2. Due(q) <= Due(q)' /\ Due(q) \in Nat /\ Due(q)' \in Nat
    BY <1>1 DEF Due
  <2>3. resubmitted[q] \in Nat /\ resubmitted'[q] = resubmitted[q]
    BY <1>1 DEF TypeOK
  <2>4. resubmitted[q] + Due(q) <= resubmitted'[q] + Due(q)'
    BY <2>2, <2>3
  <2>5. QED
    BY <2>1, <2>3, <2>4, BalanceKept DEF OwedInv
<1>4. QED
  BY <1>2, <1>3 DEF OwedInv

\* No notification task, created or on its way, without a quote or a resubmission
\* that calls for it.
THEOREM TasksAreOwedHolds == Spec => []TasksAreOwed
<1>1. Init /\ TypeOK => OwedInv
  <2> SUFFICES ASSUME Init, TypeOK PROVE OwedInv
    OBVIOUS
  <2>1. CommitInv
    BY DEF Init, CommitInv
  <2>2. ASSUME NEW q \in Requests PROVE Balanced(q)
    <3>1. Flying(q) = {}
      BY NoneAssumption DEF Init, Flying
    <3>2. QED
      BY <3>1, FS_EmptySet DEF Init, Balanced, Due
  <2>3. QED
    BY <2>1, <2>2 DEF OwedInv
<1>2. TypeOK /\ TypeOK' /\ OwedInv /\ [Next]_vars => OwedInv'
  <2> SUFFICES ASSUME TypeOK, TypeOK', OwedInv, [Next]_vars PROVE OwedInv'
    OBVIOUS
  <2>0. /\ pc \in [Requests -> Locations] /\ inflight \in [Requests -> Quote]
        /\ tasks \in [Requests -> Nat] /\ resubmitted \in [Requests -> Nat]
        /\ CommitInv /\ \A q \in Requests : Balanced(q)
    BY DEF TypeOK, OwedInv
  <2>1. ASSUME NEW r \in Requests, Enter(r) \/ LookUpSaved(r) \/ AcquireLock(r)
                                   \/ AcquireLockFails(r) \/ FindNoExisting(r)
        PROVE  OwedInv'
    BY <2>0, <2>1, OwedFrame
    DEF Enter, Admit, Refuse, LookUpSaved, AcquireLock, AcquireLockFails, FindNoExisting,
        Goto, Answer, Uncommitted, Transaction
  <2>2. ASSUME NEW r \in Requests, QueryFails(r) PROVE OwedInv'
    <3>1. \A s \in Requests : resubmitted[s] <= resubmitted'[s]
      BY <2>0, <2>2 DEF QueryFails, Existing
    <3>2. QED
      BY <2>0, <2>2, <3>1, OwedFrame DEF QueryFails, Answer, Uncommitted, Transaction
  <2>3. ASSUME NEW r \in Requests, Claim(r) \/ FindOrCreateCustomer(r) \/ InsertQuote(r)
                                   \/ SaveResult(r) \/ TransactionFails(r)
        PROVE  OwedInv'
    BY <2>0, <2>3, OwedFrame
    DEF Claim, FindOrCreateCustomer, InsertQuote, SaveResult, TransactionFails,
        Rerun, Throw, Goto, InTransaction, Uncommitted, Transaction
  <2>4. ASSUME NEW r \in Requests, RecoverLock(r) \/ SettleFailure(r) \/ ReleaseFails(r)
        PROVE  OwedInv'
    BY <2>0, <2>4, OwedFrame
    DEF RecoverLock, SettleFailure, ReleaseFails, Goto, Answer, Uncommitted, Transaction
  <2>5. ASSUME NEW r \in Requests, Commit(r) \/ CommitUnknown(r) PROVE OwedInv'
    BY <2>0, <2>5, OwedCommit DEF Commit, CommitUnknown, Goto, Throw
  <2>6. ASSUME NEW r \in Requests, ResendExisting(r) PROVE OwedInv'
    <3>1. PICK p \in Existing(r) : /\ resubmitted' = [resubmitted EXCEPT ![p] = @ + 1]
                                   /\ inflight' = [inflight EXCEPT ![r] = p]
                                   /\ Answer(r, "ok", p)
      BY <2>6 DEF ResendExisting
    <3>2. /\ pc[r] = "existing" /\ pc' = [pc EXCEPT ![r] = "done"]
          /\ UNCHANGED <<tasks, quotes>> /\ p \in Requests
      BY <2>6, <3>1 DEF ResendExisting, Answer, Existing, TypeOK
    <3>3. CommitInv'
      BY <2>0, <3>2 DEF CommitInv, Uncommitted, Transaction
    <3>4. \A q \in Requests : Due(q) <= Due(q)' /\ Due(q) \in Nat /\ Due(q)' \in Nat
      BY <2>0, <3>2 DEF Due
    <3>5. Balanced(p)'
      <4>1. Flying(p)' \subseteq Flying(p) \cup {r}
        BY <2>0, <3>1 DEF Flying
      <4>2. resubmitted[p] \in Nat /\ resubmitted'[p] = resubmitted[p] + 1
        BY <2>0, <3>1, <3>2
      <4>3. resubmitted[p] + Due(p) + 1 <= resubmitted'[p] + Due(p)'
        BY <3>2, <3>4, <4>2
      <4>4. QED
        BY <2>0, <3>2, <4>1, <4>2, <4>3, BalanceOfDispatch
    <3>6. ASSUME NEW q \in Requests, q # p PROVE Balanced(q)'
      <4>1. Flying(q)' \subseteq Flying(q)
        BY <2>0, <3>1, <3>6 DEF Flying
      <4>2. resubmitted[q] \in Nat /\ resubmitted'[q] = resubmitted[q]
        BY <2>0, <3>1, <3>6
      <4>3. QED
        BY <2>0, <3>2, <3>4, <4>1, <4>2, BalanceKept
    <3>7. QED
      BY <3>3, <3>5, <3>6 DEF OwedInv
  <2>7. ASSUME NEW r \in Requests, Release(r) PROVE OwedInv'
    <3>1. /\ pc[r] = "release" /\ pc' = [pc EXCEPT ![r] = "done"] /\ r \in quotes
          /\ inflight' = [inflight EXCEPT ![r] = r]
          /\ UNCHANGED <<tasks, quotes, resubmitted>>
      BY <2>0, <2>7 DEF Release, Answer, CommitInv
    <3>2. CommitInv'
      BY <2>0, <3>1 DEF CommitInv, Uncommitted, Transaction
    <3>3. Balanced(r)'
      <4>1. Flying(r)' \subseteq Flying(r) \cup {r}
        BY <2>0, <3>1 DEF Flying
      <4>2. Due(r) = 0 /\ Due(r)' = 1
        BY <2>0, <3>1 DEF Due
      <4>3. resubmitted[r] + Due(r) + 1 <= resubmitted'[r] + Due(r)'
        BY <2>0, <3>1, <4>2
      <4>4. QED
        BY <2>0, <3>1, <4>1, <4>3, BalanceOfDispatch
    <3>4. ASSUME NEW q \in Requests, q # r PROVE Balanced(q)'
      <4>1. Flying(q)' \subseteq Flying(q)
        BY <2>0, <3>1, <3>4 DEF Flying
      <4>2. Due(q)' = Due(q) /\ Due(q) \in Nat
        BY <2>0, <3>1, <3>4 DEF Due
      <4>3. QED
        BY <2>0, <3>1, <4>1, <4>2, BalanceKept
    <3>5. QED
      BY <3>2, <3>3, <3>4 DEF OwedInv
  <2>8. ASSUME NEW r \in Requests, DispatchLands(r) PROVE OwedInv'
    <3>0. PICK p \in Requests : inflight[r] = p
      BY <2>0, <2>8 DEF DispatchLands, Quote
    <3>1. /\ inflight[r] = p /\ r \in Flying(p)
          /\ tasks' = [tasks EXCEPT ![p] = @ + 1]
          /\ inflight' = [inflight EXCEPT ![r] = None]
          /\ UNCHANGED <<pc, quotes, resubmitted>>
      BY <2>8, <3>0 DEF DispatchLands, Flying
    <3>2. CommitInv'
      BY <2>0, <3>1 DEF CommitInv
    <3>3. \A q \in Requests : Due(q)' = Due(q) /\ Due(q) \in Nat
      BY <3>1 DEF Due
    <3>4. Balanced(p)'
      <4>1. Flying(p)' = Flying(p) \ {r}
        BY <2>0, <3>1, NoneAssumption DEF Flying
      <4>2. Cardinality(Flying(p)') = Cardinality(Flying(p)) - 1
        BY <3>1, <4>1, FlyingFinite, FS_RemoveElement
      <4>3. tasks[p] \in Nat /\ tasks'[p] = tasks[p] + 1 /\ resubmitted'[p] = resubmitted[p]
        BY <2>0, <3>1
      <4>4. Balanced(p) /\ Due(p)' = Due(p) /\ Due(p) \in Nat /\ resubmitted[p] \in Nat
        BY <2>0, <3>1, <3>3
      <4>5. QED
        BY <4>2, <4>3, <4>4, FlyingFinite DEF Balanced
    <3>5. ASSUME NEW q \in Requests, q # p PROVE Balanced(q)'
      <4>1. Flying(q)' \subseteq Flying(q)
        BY <2>0, <3>1, NoneAssumption DEF Flying
      <4>2. tasks'[q] = tasks[q]
        BY <2>0, <3>1, <3>5
      <4>3. QED
        BY <2>0, <3>1, <3>3, <4>1, <4>2, BalanceKept
    <3>6. QED
      BY <3>2, <3>4, <3>5 DEF OwedInv
  <2>9. ASSUME NEW r \in Requests, DispatchFails(r) \/ Crash(r) PROVE OwedInv'
    BY <2>0, <2>9, OwedFrame DEF DispatchFails, Crash, Uncommitted, Transaction, Settled
  <2>10. ASSUME (\E f \in Fingerprints : LockExpires(f))
                \/ (\E i \in Identities : RecordExpires(i)) \/ UNCHANGED vars
         PROVE  OwedInv'
    BY <2>0, <2>10, OwedFrame DEF LockExpires, RecordExpires, vars
  <2>11. QED
    BY <2>1, <2>2, <2>3, <2>4, <2>5, <2>6, <2>7, <2>8, <2>9, <2>10
    DEF Next, Handle, Dispatch, Quiet
<1>3. TypeOK /\ OwedInv => TasksAreOwed
  <2> SUFFICES ASSUME TypeOK, OwedInv, NEW q \in Requests
               PROVE  tasks[q] + Cardinality(Flying(q))
                        <= resubmitted[q] + IF q \in quotes THEN 1 ELSE 0
    BY DEF TasksAreOwed, Flying
  <2>1. /\ tasks[q] \in Nat /\ resubmitted[q] \in Nat
        /\ tasks[q] + Cardinality(Flying(q)) <= resubmitted[q] + Due(q)
    BY DEF TypeOK, OwedInv, Balanced
  <2>2. QED
    BY <2>1, FlyingFinite DEF Due
<1>4. QED
  BY <1>1, <1>2, <1>3, TypeCorrect, PTL DEF Spec

------------------------------------------------------------------------------
(* The refinement.  A commit issues a quote in the ledger, an answer shows  *)
(* one or turns the client away, an expiry forgets one; all else is nothing *)
(* to it.                                                                   *)

\* A request that is not over has no answer yet, and no quote before its commit.
PendingInv ==
    \A r \in Requests : /\ pc[r] \notin Settled => reply[r] = NoReply
                        /\ pc[r] \in Uncommitted => r \notin quotes

\* It holds for all that a handler does after its answer or its crash.
LEMMA PendingInvHolds == Spec => []PendingInv
<1>1. Init => PendingInv
  BY DEF Init, PendingInv
<1>2. TypeOK /\ PendingInv /\ [Next]_vars => PendingInv'
  <2> SUFFICES ASSUME TypeOK, PendingInv, [Next]_vars PROVE PendingInv'
    OBVIOUS
  <2>1. pc \in [Requests -> Locations] /\ reply \in [Requests -> Reply]
    BY DEF TypeOK
  <2> USE <2>1 DEF PendingInv, Settled, Uncommitted, Transaction
  <2>2. ASSUME NEW r \in Requests, Enter(r) \/ AcquireLock(r) \/ AcquireLockFails(r)
                                   \/ LookUpSaved(r) \/ SettleFailure(r)
        PROVE  PendingInv'
    BY <2>2 DEF Enter, Admit, Refuse, AcquireLock, AcquireLockFails, LookUpSaved,
                SettleFailure, Goto, Answer
  <2>3. ASSUME NEW r \in Requests, ResendExisting(r) \/ FindNoExisting(r)
                                   \/ QueryFails(r) \/ RecoverLock(r)
        PROVE  PendingInv'
    BY <2>3 DEF ResendExisting, FindNoExisting, QueryFails, RecoverLock, Goto, Answer
  <2>4. ASSUME NEW r \in Requests, Claim(r) \/ FindOrCreateCustomer(r) \/ InsertQuote(r)
                                   \/ SaveResult(r) \/ TransactionFails(r)
        PROVE  PendingInv'
    BY <2>4 DEF Claim, FindOrCreateCustomer, InsertQuote, SaveResult, TransactionFails,
                InTransaction, Goto, Rerun, Throw
  <2>5. ASSUME NEW r \in Requests, Commit(r) \/ CommitUnknown(r) PROVE PendingInv'
    BY <2>5 DEF Commit, CommitUnknown, Publish, Goto, Throw
  <2>6. ASSUME NEW r \in Requests, Release(r) \/ ReleaseFails(r) \/ Dispatch(r)
                                   \/ Crash(r)
        PROVE  PendingInv'
    BY <2>6 DEF Release, ReleaseFails, Dispatch, DispatchLands, DispatchFails, Crash,
                Answer
  <2>7. ASSUME (\E f \in Fingerprints : LockExpires(f))
               \/ (\E i \in Identities : RecordExpires(i)) \/ UNCHANGED vars
        PROVE  PendingInv'
    BY <2>7 DEF LockExpires, RecordExpires, vars
  <2>8. QED
    BY <2>2, <2>3, <2>4, <2>5, <2>6, <2>7 DEF Next, Handle, Quiet
<1>3. QED
  BY <1>1, <1>2, TypeCorrect, PTL DEF Spec

\* All that the simulation needs to know of a state.
LedgerInv == TypeOK /\ KeyInv /\ IndexInv /\ AnswerInv /\ PendingInv

\* The ledger's memo, read from the records.
Memo == [i \in Identities |-> IF records[i] = None THEN None ELSE records[i].quote]

\* The ledger and the service name a request's key and fingerprint alike.
LEMMA LedgerNames ==
    /\ \A r : Ledger!Identity(r) = Identity(r)
    /\ \A r : Ledger!Fingerprint(r) = Fingerprint(r)
    /\ Ledger!Unanswered = NoReply
    /\ Ledger!vars = <<msg, quotes, Memo, reply>>
BY DEF Ledger!Identity, Ledger!Fingerprint, Ledger!Unanswered, Ledger!vars,
       Identity, Fingerprint, Payload, Caller, NoReply, Memo

\* A commit is the ledger's Issue.
LEMMA CommitIssues ==
    ASSUME LedgerInv, NEW r \in Requests, pc[r] = "commit", Publish(r),
           UNCHANGED <<msg, reply>>
    PROVE  Ledger!Issue(r)
<1>1. /\ Identity(r) \in Identities
      /\ pc[r] \in Transaction
      /\ records \in [Identities -> Record \cup {None}]
      /\ quotes \subseteq Requests
  BY TypeParts, RequestType DEF LedgerInv, TypeOK, Transaction
<1>2. /\ records[Identity(r)] = None
      /\ draft[r] \in Record /\ draft[r].quote = r /\ draft[r] # None
  BY <1>1, NoneAssumption DEF LedgerInv, KeyInv, OwnershipInv, DraftInv
<1>3. r \notin quotes /\ reply[r] = NoReply
  BY <1>1 DEF LedgerInv, PendingInv, Uncommitted, Settled
<1>4. Memo[Identity(r)] = None
  BY <1>1, <1>2 DEF Memo
<1>5. Memo' = [Memo EXCEPT ![Identity(r)] = r]
  BY <1>1, <1>2 DEF Memo, Publish
<1>6. Fingerprint(r) \in Indexed => \A q \in quotes : Fingerprint(q) # Fingerprint(r)
  BY <1>1, <1>3 DEF LedgerInv, IndexInv, Inserted
<1>7. QED
  BY <1>3, <1>4, <1>5, <1>6, LedgerNames DEF Ledger!Issue, Publish, Memo

\* A success is the ledger's Show: its quote is in the book, and it is the
\* request's own, or its key's and payload's, or its fingerprint's.
LEMMA AnswerShows ==
    ASSUME LedgerInv, NEW r \in Requests, NEW q \in quotes, pc[r] \notin Settled,
           \/ q = r
           \/ /\ records[Identity(r)] # None /\ records[Identity(r)].quote = q
              /\ Payload(q) = Payload(r)
           \/ Fingerprint(r) \in Indexed /\ Fingerprint(q) = Fingerprint(r),
           Answer(r, "ok", q), UNCHANGED <<msg, quotes, records>>
    PROVE  Ledger!Show(r, q)
<1>1. Identity(r) \in Identities
  BY TypeParts, RequestType DEF LedgerInv
<1>2. reply[r] = NoReply
  BY DEF LedgerInv, PendingInv
<1>3. Ledger!MayShow(r, q)
  BY <1>1, LedgerNames DEF Ledger!MayShow, Payload, Memo
<1>4. reply' = [reply EXCEPT ![r] = [status |-> "ok", quote |-> q]]
  BY DEF Answer
<1>5. QED
  BY <1>2, <1>3, <1>4, LedgerNames DEF Ledger!Show, Memo

\* Any other answer is the ledger's TurnAway.
LEMMA AnswerTurnsAway ==
    ASSUME LedgerInv, NEW r \in Requests, pc[r] \notin Settled,
           NEW status \in {"conflict", "refused", "failed"},
           Answer(r, status, None), UNCHANGED <<msg, quotes, records>>
    PROVE  Ledger!TurnAway(r)
<1>1. reply[r] = NoReply
  BY DEF LedgerInv, PendingInv
<1>2. reply' = [reply EXCEPT ![r] = [status |-> status, quote |-> None]]
  BY DEF Answer
<1>3. QED
  BY <1>1, <1>2, LedgerNames DEF Ledger!TurnAway, Memo

\* A saved response of the request's own payload may be shown.
LEMMA SavedShows ==
    ASSUME LedgerInv, NEW r \in Requests, pc[r] \notin Settled,
           records[Identity(r)] # None, SamePayload(r, records[Identity(r)]),
           Answer(r, "ok", records[Identity(r)].quote),
           UNCHANGED <<msg, quotes, records>>
    PROVE  \E q \in quotes : Ledger!Show(r, q)
<1>1. Identity(r) \in Identities
  BY TypeParts, RequestType DEF LedgerInv
<1>2. /\ records[Identity(r)].quote \in quotes
      /\ Payload(records[Identity(r)].quote) = Payload(r)
  BY <1>1 DEF LedgerInv, KeyInv, OneQuotePerKey, SamePayload
<1>3. QED
  BY <1>2, AnswerShows

\* The service implements the ledger: from each state it can reach, every step of
\* a handler, a dispatch, a crash or an expiry is one step of the ledger or none.
THEOREM LedgerImplemented == Spec => ImplementsLedger
<1>1. Init => Ledger!Init
  BY DEF Init, Ledger!Init, Ledger!Unanswered, NoReply, Identities
<1>2. LedgerInv /\ [Next]_vars => [Ledger!Next]_(Ledger!vars)
  <2> SUFFICES ASSUME LedgerInv, [Next]_vars PROVE [Ledger!Next]_(Ledger!vars)
    OBVIOUS
  <2>1. ASSUME UNCHANGED <<msg, quotes, records, reply>>
        PROVE  [Ledger!Next]_(Ledger!vars)
    BY <2>1, LedgerNames DEF Ledger!vars
  <2>2. ASSUME NEW r \in Requests,
               Ledger!Issue(r) \/ Ledger!TurnAway(r) \/ \E q \in quotes : Ledger!Show(r, q)
        PROVE  [Ledger!Next]_(Ledger!vars)
    BY <2>2 DEF Ledger!Next
  <2>3. ASSUME NEW r \in Requests, LookUpSaved(r) PROVE [Ledger!Next]_(Ledger!vars)
    <3>1. pc[r] \notin Settled /\ UNCHANGED <<msg, quotes, records>>
      BY <2>3 DEF LookUpSaved, Settled, store
    <3>2. CASE Goto(r, "guard")
      BY <3>1, <3>2, <2>1 DEF Goto
    <3>3. CASE Answer(r, "conflict", None)
      BY <3>1, <3>3, <2>2, AnswerTurnsAway
    <3>4. CASE /\ records[Identity(r)] # None /\ SamePayload(r, records[Identity(r)])
               /\ Answer(r, "ok", records[Identity(r)].quote)
      BY <3>1, <3>4, <2>2, SavedShows
    <3>5. QED
      BY <2>3, <3>2, <3>3, <3>4 DEF LookUpSaved
  <2>4. ASSUME NEW r \in Requests, SettleFailure(r) PROVE [Ledger!Next]_(Ledger!vars)
    <3>1. pc[r] \notin Settled /\ UNCHANGED <<msg, quotes, records>>
      BY <2>4 DEF SettleFailure, Settled, store
    <3>2. CASE Answer(r, "conflict", None) \/ Answer(r, "failed", None)
      BY <3>1, <3>2, <2>2, AnswerTurnsAway
    <3>3. CASE /\ records[Identity(r)] # None /\ SamePayload(r, records[Identity(r)])
               /\ Answer(r, "ok", records[Identity(r)].quote)
      BY <3>1, <3>3, <2>2, SavedShows
    <3>4. QED
      BY <2>4, <3>2, <3>3 DEF SettleFailure
  <2>5. ASSUME NEW r \in Requests, Refuse(r) \/ AcquireLock(r) \/ AcquireLockFails(r)
                                   \/ QueryFails(r) \/ ReleaseFails(r)
        PROVE  [Ledger!Next]_(Ledger!vars)
    <3>1. /\ pc[r] \notin Settled /\ UNCHANGED <<msg, quotes, records>>
          /\ \/ Goto(r, "existing")
             \/ \E status \in {"conflict", "refused", "failed"} : Answer(r, status, None)
      BY <2>5 DEF Refuse, AcquireLock, AcquireLockFails, QueryFails, ReleaseFails,
                  Settled, store
    <3>2. QED
      BY <3>1, <2>1, <2>2, AnswerTurnsAway DEF Goto
  <2>6. ASSUME NEW r \in Requests, ResendExisting(r) PROVE [Ledger!Next]_(Ledger!vars)
    <3>1. PICK q \in Existing(r) : Answer(r, "ok", q)
      BY <2>6 DEF ResendExisting
    <3>2. /\ pc[r] \notin Settled /\ UNCHANGED <<msg, quotes, records>>
          /\ q \in quotes /\ Fingerprint(r) \in Indexed /\ Fingerprint(q) = Fingerprint(r)
      BY <2>6 DEF ResendExisting, Existing, Settled
    <3>3. QED
      BY <3>1, <3>2, <2>2, AnswerShows
  <2>7. ASSUME NEW r \in Requests, Release(r) PROVE [Ledger!Next]_(Ledger!vars)
    <3>1. /\ pc[r] \notin Settled /\ UNCHANGED <<msg, quotes, records>>
          /\ r \in quotes /\ Answer(r, "ok", r)
      BY <2>7 DEF Release, Settled, store, LedgerInv, AnswerInv
    <3>2. QED
      BY <3>1, <2>2, AnswerShows
  <2>8. ASSUME NEW r \in Requests, Commit(r) \/ CommitUnknown(r)
        PROVE  [Ledger!Next]_(Ledger!vars)
    <3>1. pc[r] = "commit" /\ Publish(r) /\ UNCHANGED <<msg, reply>>
      BY <2>8 DEF Commit, CommitUnknown, Goto, Throw
    <3>2. QED
      BY <3>1, <2>2, CommitIssues
  <2>9. ASSUME NEW r \in Requests, Admit(r) \/ FindNoExisting(r) \/ Claim(r)
                                   \/ FindOrCreateCustomer(r) \/ InsertQuote(r)
                                   \/ SaveResult(r) \/ TransactionFails(r)
                                   \/ RecoverLock(r) \/ Dispatch(r) \/ Crash(r)
        PROVE  [Ledger!Next]_(Ledger!vars)
    <3>1. UNCHANGED <<msg, quotes, records, reply>>
      BY <2>9 DEF Admit, FindNoExisting, Claim, FindOrCreateCustomer, InsertQuote,
                  SaveResult, TransactionFails, RecoverLock, Dispatch, DispatchLands,
                  DispatchFails, Crash, Goto, Rerun, Throw, store
    <3>2. QED
      BY <3>1, <2>1
  <2>10. ASSUME NEW i \in Identities, RecordExpires(i) PROVE [Ledger!Next]_(Ledger!vars)
    <3>1. records \in [Identities -> Record \cup {None}] /\ quotes \subseteq Requests
      BY DEF LedgerInv, TypeOK
    <3>2. /\ records[i] # None /\ records' = [records EXCEPT ![i] = None]
          /\ UNCHANGED <<msg, quotes, reply>>
      BY <2>10 DEF RecordExpires
    <3>3. records[i].quote # None
      BY <3>1, <3>2, NoneAssumption DEF LedgerInv, KeyInv, OneQuotePerKey
    <3>4. Memo[i] # None /\ Memo' = [Memo EXCEPT ![i] = None]
      BY <3>1, <3>2, <3>3 DEF Memo
    <3>5. Ledger!Forget(i)
      BY <3>2, <3>4 DEF Ledger!Forget, Memo
    <3>6. QED
      BY <3>5 DEF Ledger!Next, Identities
  <2>11. ASSUME (\E f \in Fingerprints : LockExpires(f)) \/ UNCHANGED vars
         PROVE  [Ledger!Next]_(Ledger!vars)
    BY <2>11, <2>1 DEF LockExpires, vars, store
  <2>12. QED
    BY <2>3, <2>4, <2>5, <2>6, <2>7, <2>8, <2>9, <2>10, <2>11
    DEF Next, Enter, Handle, Quiet
<1>3. QED
  BY <1>1, <1>2, TypeCorrect, KeyInvHolds, IndexInvHolds, AnswerInvHolds,
     PendingInvHolds, PTL DEF Spec, LedgerInv, ImplementsLedger, Ledger!Spec
==============================================================================
