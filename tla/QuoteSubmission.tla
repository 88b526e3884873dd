--------------------------- MODULE QuoteSubmission ---------------------------
(***************************************************************************)
(* POST /quotes/request: QuoteService.createQuoteRequest with the services *)
(* it calls, the Redis submission lock (QuoteSubmissionGuardService), the  *)
(* idempotency records (IdempotencyService), the customers                 *)
(* (CustomerService) and the fire-and-forget dispatch of the notification. *)
(*                                                                         *)
(* A request is one HTTP call; a client's retry is another request with    *)
(* the same message.  One action is what a handler does from one await to  *)
(* the next, so requests interleave at every await, and across API         *)
(* instances.  A quote is named by the request that inserted it.           *)
(***************************************************************************)
EXTENDS Integers, FiniteSets

CONSTANTS
    Requests,       \* HTTP calls
    Keys,           \* Idempotency-Key header values
    Payloads,       \* request bodies without the recaptcha token
    Callers,        \* normalized e-mail addresses
    Fingerprints,   \* quote fingerprints
    CallerOf,       \* the e-mail of a payload
    FingerprintOf,  \* the fingerprint of a payload
    Indexed,        \* fingerprints of full-home quotes: stored and unique
    Faults,         \* the kinds of fault that can strike
    None

FaultKinds == {"crash", "cache", "database", "lockExpiry", "recordExpiry"}

\* The fingerprint hashes the calculator type, the e-mail and most of the
\* specification, joined without escapes.  Full homes that share one have one caller
\* (FingerprintsFixPrices of QuotePricingProofs); they may differ in the name and in
\* other fields it leaves out.
ASSUME PayloadAssumption ==
    /\ CallerOf \in [Payloads -> Callers]
    /\ FingerprintOf \in [Payloads -> Fingerprints]
    /\ \A p, q \in Payloads :
          FingerprintOf[p] = FingerprintOf[q] /\ FingerprintOf[p] \in Indexed =>
             CallerOf[p] = CallerOf[q]
    /\ Indexed \subseteq Fingerprints

ASSUME RequestsAssumption == IsFiniteSet(Requests)
ASSUME FaultAssumption == Faults \subseteq FaultKinds

VARIABLES
    msg,        \* what each request carries: a key and a payload
    pc,         \* the await each handler stands at
    reply,      \* what each client has been answered
    failure,    \* the error a handler's catch block is working on
    inflight,   \* the quote whose dispatch promise a request left running
    \* ------------ Redis
    lock,       \* who set each fingerprint's lock; the code stores no owner
    \* ------------ MongoDB, committed
    records,    \* idempotency_records, by caller and key
    quotes,     \* quotes, by the request that inserted them
    customers,  \* customers, by e-mail
    resubmitted,\* resubmissionCount of each quote
    \* ------------ MongoDB, in a request's open transaction
    draft,      \* the idempotency record it wrote
    registered, \* whether it inserted the customer
    snapshot,   \* the quotes and customers it can see
    \* ------------ Cloud Tasks
    tasks,      \* notification tasks created for each quote
    \* ------------ history, read by properties only
    retired,    \* quotes whose record the TTL index has removed
    lapsed      \* fingerprints whose lock once expired under a handler

store    == <<records, quotes, customers, resubmitted>>
session  == <<draft, registered, snapshot>>
history  == <<retired, lapsed>>
vars     == <<msg, pc, reply, failure, inflight, lock, store, session, tasks,
              history>>

------------------------------------------------------------------------------
Payload(r)     == msg[r].payload
Caller(r)      == CallerOf[Payload(r)]
Fingerprint(r) == FingerprintOf[Payload(r)]
\* The unique index (scope, operation, key); the operation is always quote.create.
Identity(r)    == <<Caller(r), msg[r].key>>
Identities     == Callers \X Keys

Quote    == Requests \cup {None}
Record   == [payload : Payloads, status : {"PROCESSING", "COMPLETED"}, quote : Quote]
Reply    == [status : {"none", "ok", "conflict", "refused", "failed"}, quote : Quote]
Snapshot == [quotes : SUBSET Requests, customers : SUBSET Callers]

ASSUME NoneAssumption == None \notin Requests /\ None \notin Record

Transaction == {"customer", "insert", "save", "commit"}
\* Where a handler stands between taking the lock and giving it back.
Section     == {"existing", "claim", "recover", "release"} \cup Transaction
Settled     == {"done", "crashed"}
Locations   == {"idle", "lookup", "guard", "settle"} \cup Section \cup Settled

NoReply  == [status |-> "none", quote |-> None]
Blank    == [quotes |-> {}, customers |-> {}]

InTransaction(r) == pc[r] \in Transaction
Answer(r, status, quote) ==
    /\ pc' = [pc EXCEPT ![r] = "done"]
    /\ reply' = [reply EXCEPT ![r] = [status |-> status, quote |-> quote]]
    /\ failure' = [failure EXCEPT ![r] = "none"]
Goto(r, location) ==
    /\ pc' = [pc EXCEPT ![r] = location]
    /\ UNCHANGED <<reply, failure>>

------------------------------------------------------------------------------
\* The clients may send any messages.
Init ==
    /\ msg \in [Requests -> [key : Keys, payload : Payloads]]
    /\ pc = [r \in Requests |-> "idle"]
    /\ reply = [r \in Requests |-> NoReply]
    /\ failure = [r \in Requests |-> "none"]
    /\ inflight = [r \in Requests |-> None]
    /\ lock = [f \in Fingerprints |-> None]
    /\ records = [i \in Identities |-> None]
    /\ quotes = {}
    /\ customers = {}
    /\ resubmitted = [r \in Requests |-> 0]
    /\ draft = [r \in Requests |-> None]
    /\ registered = [r \in Requests |-> FALSE]
    /\ snapshot = [r \in Requests |-> Blank]
    /\ tasks = [r \in Requests |-> 0]
    /\ retired = {}
    /\ lapsed = {}

------------------------------------------------------------------------------
(* The way in.                                                             *)

\* The header, the rate limiters and reCAPTCHA let the request through ...
Admit(r) ==
    /\ pc[r] = "idle"
    /\ Goto(r, "lookup")
    /\ UNCHANGED <<msg, inflight, lock, store, session, tasks, history>>

\* ... or turn it away before anything is read or written.
Refuse(r) ==
    /\ pc[r] = "idle"
    /\ Answer(r, "refused", None)
    /\ UNCHANGED <<msg, inflight, lock, store, session, tasks, history>>

MutantSamePayload(r, record) == TRUE

\* assertSamePayload and the status test that follows it.
SamePayload(r, record) == record.payload = Payload(r)
Completed(record) == record.status = "COMPLETED" /\ record.quote # None

\* getSavedResult: replay the saved response, refuse, or go on.
LookUpSaved(r) ==
    LET saved == records[Identity(r)] IN
    /\ pc[r] = "lookup"
    /\ \/ saved = None /\ Goto(r, "guard")
       \/ /\ saved # None
          /\ SamePayload(r, saved) /\ Completed(saved)
          /\ Answer(r, "ok", saved.quote)
       \/ /\ saved # None
          /\ ~(SamePayload(r, saved) /\ Completed(saved))
          /\ Answer(r, "conflict", None)
    /\ UNCHANGED <<msg, inflight, lock, store, session, tasks, history>>

MutantLockFree(r) == TRUE

\* SET ... NX sets the key only where there is none.
LockFree(r) == lock[Fingerprint(r)] = None

\* isDuplicateSubmission: SET lockKey "locked" EX 300 NX.
AcquireLock(r) ==
    /\ pc[r] = "guard"
    /\ \/ /\ LockFree(r)
          /\ lock' = [lock EXCEPT ![Fingerprint(r)] = r]
          /\ Goto(r, "existing")
       \/ ~LockFree(r) /\ Answer(r, "conflict", None) /\ UNCHANGED lock
    /\ UNCHANGED <<msg, inflight, store, session, tasks, history>>

\* Redis answers with an error, whether or not it carried the SET out.
AcquireLockFails(r) ==
    /\ "cache" \in Faults
    /\ pc[r] = "guard"
    /\ \/ UNCHANGED lock
       \/ LockFree(r) /\ lock' = [lock EXCEPT ![Fingerprint(r)] = r]
    /\ Answer(r, "failed", None)
    /\ UNCHANGED <<msg, inflight, store, session, tasks, history>>

------------------------------------------------------------------------------
(* Path A: the fingerprint has a quote already.                            *)

\* What findOneAndUpdate({fingerPrint}) matches.  Only the full-home schema
\* declares fingerPrint: kitchen and wardrobe documents are saved without it.
Existing(r) ==
    {q \in quotes : Fingerprint(r) \in Indexed /\ Fingerprint(q) = Fingerprint(r)}

\* Count the resubmission, start the dispatch and answer; the lock stays set.
ResendExisting(r) ==
    /\ pc[r] = "existing"
    /\ \E q \in Existing(r) :
          /\ resubmitted' = [resubmitted EXCEPT ![q] = @ + 1]
          /\ inflight' = [inflight EXCEPT ![r] = q]
          /\ Answer(r, "ok", q)
    /\ UNCHANGED <<msg, lock, records, quotes, customers, session, tasks,
                   history>>

\* No quote: price it, start a session and enter the transaction.
FindNoExisting(r) ==
    /\ pc[r] = "existing"
    /\ Existing(r) = {}
    /\ Goto(r, "claim")
    /\ UNCHANGED <<msg, inflight, lock, store, session, tasks, history>>

\* A database error outside the transaction (in findOne, in findOneAndUpdate
\* after or before it took effect, in startSession) is a 500.  The lock, where
\* it was taken, is not given back.
QueryFails(r) ==
    /\ "database" \in Faults
    /\ pc[r] \in {"lookup", "existing", "settle"}
    /\ \/ UNCHANGED resubmitted
       \/ /\ pc[r] = "existing"
          /\ \E q \in Existing(r) : resubmitted' = [resubmitted EXCEPT ![q] = @ + 1]
    /\ Answer(r, "failed", None)
    /\ UNCHANGED <<msg, inflight, lock, records, quotes, customers, session,
                   tasks, history>>

------------------------------------------------------------------------------
(* Path B: the transaction.  Its inserts are unseen until it commits; one  *)
(* that meets a unique key written by another open transaction, or         *)
(* committed after its snapshot, is a write conflict, on which             *)
(* withTransaction runs the callback again; one that meets a key in its    *)
(* snapshot is a duplicate-key error, which ends the transaction.          *)

Abort(r) ==
    /\ draft' = [draft EXCEPT ![r] = None]
    /\ registered' = [registered EXCEPT ![r] = FALSE]
    /\ snapshot' = [snapshot EXCEPT ![r] = Blank]

\* withTransaction starts over.
Rerun(r) == Abort(r) /\ Goto(r, "claim")

MutantThrow(r, error) == Rerun(r)

\* The callback threw: the transaction is undone and the catch block entered.
Throw(r, error) ==
    /\ Abort(r)
    /\ pc' = [pc EXCEPT ![r] = "recover"]
    /\ failure' = [failure EXCEPT ![r] = error]
    /\ UNCHANGED reply

Others(r) == {s \in Requests \ {r} : InTransaction(s)}

MutantClaimConflict(r) == FALSE

\* Another open transaction holds the key's record ...
ClaimConflict(r) == \E s \in Others(r) : Identity(s) = Identity(r)

MutantKeyTaken(r) == FALSE

\* ... or it is committed.
KeyTaken(r) == records[Identity(r)] # None

\* claim: insert the PROCESSING record; the first operation takes the snapshot.
Claim(r) ==
    /\ pc[r] = "claim"
    /\ \/ ClaimConflict(r) /\ Rerun(r)
       \/ ~ClaimConflict(r) /\ KeyTaken(r) /\ Throw(r, "claimed")
       \/ /\ ~ClaimConflict(r) /\ ~KeyTaken(r)
          /\ draft' = [draft EXCEPT ![r] =
                [payload |-> Payload(r), status |-> "PROCESSING", quote |-> None]]
          /\ snapshot' = [snapshot EXCEPT ![r] =
                [quotes |-> quotes, customers |-> customers]]
          /\ Goto(r, "customer")
          /\ UNCHANGED registered
    /\ UNCHANGED <<msg, inflight, lock, store, tasks, history>>

CustomerConflict(r) ==
    \/ Caller(r) \in customers
    \/ \E s \in Others(r) : registered[s] /\ Caller(s) = Caller(r)

\* The customer is saved outside the session.
MutantFindOrCreateCustomer(r) ==
    /\ pc[r] = "customer"
    /\ customers' = customers \cup {Caller(r)}
    /\ Goto(r, "insert")
    /\ UNCHANGED <<msg, inflight, lock, records, quotes, resubmitted, session, tasks,
                   history>>

\* findOrCreateCustomer: by e-mail in the snapshot, or insert.
FindOrCreateCustomer(r) ==
    /\ pc[r] = "customer"
    /\ \/ /\ Caller(r) \in snapshot[r].customers
          /\ Goto(r, "insert")
          /\ UNCHANGED session
       \/ /\ Caller(r) \notin snapshot[r].customers /\ CustomerConflict(r)
          /\ Rerun(r)
       \/ /\ Caller(r) \notin snapshot[r].customers /\ ~CustomerConflict(r)
          /\ registered' = [registered EXCEPT ![r] = TRUE]
          /\ Goto(r, "insert")
          /\ UNCHANGED <<draft, snapshot>>
    /\ UNCHANGED <<msg, inflight, lock, store, tasks, history>>

MutantRivals(r) == {}

\* Quotes, committed or not, that the unique index holds against r's insert.
Rivals(r) ==
    {q \in Requests \ {r} :
        /\ Fingerprint(r) \in Indexed /\ Fingerprint(q) = Fingerprint(r)
        /\ q \in quotes \/ pc[q] \in {"save", "commit"}}

\* newQuote.save.
InsertQuote(r) ==
    /\ pc[r] = "insert"
    /\ \/ Rivals(r) = {} /\ Goto(r, "save") /\ UNCHANGED session
       \/ Rivals(r) \cap snapshot[r].quotes # {} /\ Throw(r, "duplicateQuote")
       \/ Rivals(r) # {} /\ Rivals(r) \cap snapshot[r].quotes = {} /\ Rerun(r)
    /\ UNCHANGED <<msg, inflight, lock, store, tasks, history>>

\* An update runs no validator, so a status outside the enum would be stored.
MutantSaveStatus(r) ==
    /\ pc[r] = "save"
    /\ draft' = [draft EXCEPT ![r].status = "SAVED", ![r].quote = r]
    /\ Goto(r, "commit")
    /\ UNCHANGED <<msg, inflight, lock, store, registered, snapshot, tasks, history>>

\* The notification is dispatched inside the transaction's callback.
MutantSaveResult(r) ==
    /\ pc[r] = "save"
    /\ draft' = [draft EXCEPT ![r].status = "COMPLETED", ![r].quote = r]
    /\ inflight' = [inflight EXCEPT ![r] = r]
    /\ Goto(r, "commit")
    /\ UNCHANGED <<msg, lock, store, registered, snapshot, tasks, history>>

\* saveResult: complete the record with the response; the update matches the
\* transaction's own insert.
SaveResult(r) ==
    /\ pc[r] = "save"
    /\ draft[r] # None
    /\ draft' = [draft EXCEPT ![r].status = "COMPLETED", ![r].quote = r]
    /\ Goto(r, "commit")
    /\ UNCHANGED <<msg, inflight, lock, store, registered, snapshot, tasks,
                   history>>

\* The record is not part of the transaction.
MutantPublishNoRecord(r) ==
    /\ quotes' = quotes \cup {r}
    /\ customers' = customers \cup IF registered[r] THEN {Caller(r)} ELSE {}
    /\ UNCHANGED <<records, resubmitted>>

\* What a commit makes visible, all at once.
Publish(r) ==
    /\ records' = [records EXCEPT ![Identity(r)] = draft[r]]
    /\ quotes' = quotes \cup {r}
    /\ customers' = customers \cup IF registered[r] THEN {Caller(r)} ELSE {}
    /\ UNCHANGED resubmitted

Commit(r) ==
    /\ pc[r] = "commit"
    /\ Publish(r)
    /\ Abort(r)                         \* nothing is left of the session
    /\ Goto(r, "release")
    /\ UNCHANGED <<msg, inflight, lock, tasks, history>>

\* The driver reports an error for a commit that took effect.
CommitUnknown(r) ==
    /\ "database" \in Faults
    /\ pc[r] = "commit"
    /\ Publish(r)
    /\ Throw(r, "other")
    /\ UNCHANGED <<msg, inflight, lock, tasks, history>>

\* Any other database error in the transaction, its retry limit included.
TransactionFails(r) ==
    /\ "database" \in Faults
    /\ pc[r] = "claim" \/ InTransaction(r)
    /\ Throw(r, "other")
    /\ UNCHANGED <<msg, inflight, lock, store, tasks, history>>

------------------------------------------------------------------------------
(* After the transaction.                                                  *)

\* releaseLock deletes the key whoever set it.
Unlock(r) == lock' = [lock EXCEPT ![Fingerprint(r)] = None]

\* The catch block releases the lock, swallowing Redis's error.
RecoverLock(r) ==
    /\ pc[r] = "recover"
    /\ Unlock(r) \/ ("cache" \in Faults /\ UNCHANGED lock)
    /\ Goto(r, "settle")
    /\ UNCHANGED <<msg, inflight, store, session, tasks, history>>

\* The rest of the catch block: a lost claim reads the winner's result.
SettleFailure(r) ==
    LET saved == records[Identity(r)]
        theirs == failure[r] = "claimed" /\ saved # None IN
    /\ pc[r] = "settle"
    /\ \/ /\ theirs /\ SamePayload(r, saved) /\ Completed(saved)
          /\ Answer(r, "ok", saved.quote)
       \/ /\ theirs /\ ~(SamePayload(r, saved) /\ Completed(saved))
          /\ Answer(r, "conflict", None)
       \/ /\ ~theirs /\ failure[r] # "other"
          /\ Answer(r, "conflict", None)
       \/ /\ failure[r] = "other"
          /\ Answer(r, "failed", None)
    /\ UNCHANGED <<msg, inflight, lock, store, session, tasks, history>>

\* After a commit: release the lock, start the dispatch, answer.
Release(r) ==
    /\ pc[r] = "release"
    /\ Unlock(r)
    /\ inflight' = [inflight EXCEPT ![r] = r]
    /\ Answer(r, "ok", r)
    /\ UNCHANGED <<msg, store, session, tasks, history>>

\* Redis fails after the commit: a 500, and no dispatch.
ReleaseFails(r) ==
    /\ "cache" \in Faults
    /\ pc[r] = "release"
    /\ Unlock(r) \/ UNCHANGED lock
    /\ Answer(r, "failed", None)
    /\ UNCHANGED <<msg, inflight, store, session, tasks, history>>

\* The dispatch promise settles: the task is created, or the error is logged.
DispatchLands(r) ==
    /\ inflight[r] # None
    /\ tasks' = [tasks EXCEPT ![inflight[r]] = @ + 1]
    /\ inflight' = [inflight EXCEPT ![r] = None]
    /\ UNCHANGED <<msg, pc, reply, failure, lock, store, session, history>>

DispatchFails(r) ==
    /\ inflight[r] # None
    /\ inflight' = [inflight EXCEPT ![r] = None]
    /\ UNCHANGED <<msg, pc, reply, failure, lock, store, session, tasks, history>>

------------------------------------------------------------------------------
(* The environment.                                                        *)

\* The process dies: its handlers, transactions and promises with it.
Crash(r) ==
    /\ "crash" \in Faults
    /\ pc[r] \notin {"idle"} \cup Settled \/ inflight[r] # None
    /\ pc' = [pc EXCEPT ![r] = IF @ \in Settled THEN @ ELSE "crashed"]
    /\ inflight' = [inflight EXCEPT ![r] = None]
    /\ failure' = [failure EXCEPT ![r] = "none"]
    /\ Abort(r)
    /\ UNCHANGED <<msg, reply, lock, store, tasks, history>>

\* Redis's 300 seconds are over.
LockExpires(f) ==
    /\ "lockExpiry" \in Faults
    /\ lock[f] # None
    /\ lapsed' = lapsed \cup IF pc[lock[f]] \in Section THEN {f} ELSE {}
    /\ lock' = [lock EXCEPT ![f] = None]
    /\ UNCHANGED <<msg, pc, reply, failure, inflight, store, session, tasks, retired>>

\* The record's 24 hours are over and the TTL monitor deletes it.
RecordExpires(i) ==
    /\ "recordExpiry" \in Faults
    /\ records[i] # None
    /\ records' = [records EXCEPT ![i] = None]
    /\ retired' = retired \cup {records[i].quote}
    /\ UNCHANGED <<msg, pc, reply, failure, inflight, lock, quotes, customers,
                   resubmitted, session, tasks, lapsed>>

------------------------------------------------------------------------------
Enter(r) == Admit(r) \/ Refuse(r)

Handle(r) ==
    \/ LookUpSaved(r) \/ AcquireLock(r) \/ AcquireLockFails(r)
    \/ ResendExisting(r) \/ FindNoExisting(r) \/ QueryFails(r)
    \/ Claim(r) \/ FindOrCreateCustomer(r) \/ InsertQuote(r) \/ SaveResult(r)
    \/ Commit(r) \/ CommitUnknown(r) \/ TransactionFails(r)
    \/ RecoverLock(r) \/ SettleFailure(r) \/ Release(r) \/ ReleaseFails(r)

Dispatch(r) == DispatchLands(r) \/ DispatchFails(r)

\* Every client has been answered, or never will be.
Quiet == /\ \A r \in Requests : pc[r] \in Settled /\ inflight[r] = None
         /\ UNCHANGED vars

Next ==
    \/ \E r \in Requests : Enter(r) \/ Handle(r) \/ Dispatch(r) \/ Crash(r)
    \/ \E f \in Fingerprints : LockExpires(f)
    \/ \E i \in Identities : RecordExpires(i)
    \/ Quiet

Spec == Init /\ [][Next]_vars

\* An event loop runs every continuation whose await has settled, and every
\* call is settled by its driver's timeout.  Clients, faults and expiry owe
\* nothing.
FairSpec == /\ Spec
            /\ \A r \in Requests : WF_vars(Handle(r)) /\ WF_vars(Dispatch(r))
------------------------------------------------------------------------------
(* Properties.                                                             *)

\* The shape of the state, and which local state exists at which await.
TypeOK ==
    /\ msg \in [Requests -> [key : Keys, payload : Payloads]]
    /\ pc \in [Requests -> Locations]
    /\ reply \in [Requests -> Reply]
    /\ failure \in [Requests -> {"none", "claimed", "duplicateQuote", "other"}]
    /\ inflight \in [Requests -> Quote]
    /\ lock \in [Fingerprints -> Quote]
    /\ records \in [Identities -> Record \cup {None}]
    /\ quotes \subseteq Requests
    /\ customers \subseteq Callers
    /\ resubmitted \in [Requests -> Nat]
    /\ draft \in [Requests -> Record \cup {None}]
    /\ registered \in [Requests -> BOOLEAN]
    /\ snapshot \in [Requests -> Snapshot]
    /\ tasks \in [Requests -> Nat]
    /\ retired \subseteq Quote
    /\ lapsed \subseteq Fingerprints

\* The idempotency record and the quote are one fact.  A committed record is
\* COMPLETED and names a committed quote of its own key and payload, and every
\* quote whose record the TTL index has not removed is the one its record
\* names: no key ever has two quotes within the retention window, whatever
\* crashes, lock expiries and failed commits lie between the retries.
OneQuotePerKey ==
    /\ \A i \in Identities : records[i] # None =>
          /\ records[i].status = "COMPLETED"
          /\ records[i].quote \in quotes
          /\ Identity(records[i].quote) = i
          /\ Payload(records[i].quote) = records[i].payload
    /\ \A q \in quotes \ retired :
          records[Identity(q)] # None /\ records[Identity(q)].quote = q

\* Two quotes never share a full-home fingerprint, even when the Redis lock was
\* lost and both requests went past the look-up for an existing quote.
OneQuotePerFullHome ==
    \A q1, q2 \in quotes :
        Fingerprint(q1) = Fingerprint(q2) /\ Fingerprint(q1) \in Indexed => q1 = q2

\* A success names a committed quote with the fingerprint of what the client
\* sent: never a quote that was rolled back, and never one that another
\* specification, contact or location made under the same key.
AnswersAreTrue ==
    \A r \in Requests : reply[r].status = "ok" =>
        /\ reply[r].quote \in quotes
        /\ Fingerprint(reply[r].quote) = Fingerprint(r)

\* Retrying is safe: two successes for the same key and payload name the same
\* quote as long as that quote's record is retained.
SameKeySameAnswer ==
    \A r1, r2 \in Requests :
        /\ reply[r1].status = "ok" /\ reply[r2].status = "ok"
        /\ Identity(r1) = Identity(r2) /\ Payload(r1) = Payload(r2)
        => \/ reply[r1].quote = reply[r2].quote
           \/ {reply[r1].quote, reply[r2].quote} \cap retired # {}

\* The customer is committed with its first quote and with nothing else: a
\* transaction that is undone leaves no customer behind, and no quote is
\* without one.
CustomersHaveQuotes == customers = {Caller(q) : q \in quotes}

\* As long as no lock of the fingerprint has expired under a handler, the
\* handlers between isDuplicateSubmission and releaseLock exclude each other,
\* although releaseLock deletes the key without looking whose it is.
GuardExcludes ==
    \A r, s \in Requests :
        /\ pc[r] \in Section /\ pc[s] \in Section
        /\ Fingerprint(r) = Fingerprint(s) /\ Fingerprint(r) \notin lapsed
        => r = s

\* Every notification task, created or on its way, is owed: it belongs to a
\* committed quote, once for its creation and once per counted resubmission.
TasksAreOwed ==
    \A q \in Requests :
        tasks[q] + Cardinality({r \in Requests : inflight[r] = q})
            <= resubmitted[q] + IF q \in quotes THEN 1 ELSE 0

\* Every request let in is answered, unless its process dies: neither the
\* retries of withTransaction nor the catch block run for ever.
EveryRequestAnswered ==
    \A r \in Requests : pc[r] = "lookup" ~> pc[r] \in Settled

\* What the module's README promises of the outbox: the notification of a
\* committed quote is dispatched.
CommittedQuotesAreNotified ==
    \A r \in Requests : r \in quotes ~> tasks[r] > 0

\* What the module's README promises of a reused key: once a request with it
\* has succeeded, and while its quote's record is retained, one with changed
\* data (from the same caller) does not.
ChangedPayloadConflicts ==
    \A r, s \in Requests :
        /\ reply[r].status = "ok" /\ reply[s].status = "ok"
        /\ Identity(r) = Identity(s) /\ reply[r].quote \notin retired
        /\ reply[s].quote \notin retired
        => Payload(r) = Payload(s)

\* What the catch block's log says of MongoDB: a concurrent insert of the same
\* fingerprint is prevented by the unique constraint, for every calculator.
OneQuotePerFingerprint ==
    \A q1, q2 \in quotes : Fingerprint(q1) = Fingerprint(q2) => q1 = q2

\* The service implements the ledger: the book is the quotes, the memo is what
\* the records name, the answers are the replies.  Whatever the interleaving and
\* the faults, each step is one of the ledger's or nothing to it.
Ledger == INSTANCE QuoteLedger WITH
    book    <- quotes,
    memo    <- [i \in Identities |-> IF records[i] = None THEN None
                                     ELSE records[i].quote],
    answers <- reply

ImplementsLedger == Ledger!Spec
==============================================================================
