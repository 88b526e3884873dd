# Verification of interiors-api-client

TLA+ models, TLC runs and TLAPS proofs for the NestJS backend in `src/`: an API
that prices interior-design quotes, stores them in MongoDB, guards submissions
with Redis and sends the estimate by mail through Google Cloud Tasks. Paths below
are relative to `src/src/` unless they start with `terraform/`.

`PROJECT.json` is the index: components, runs, mutants, the map from definitions
to source lines, findings, hazards and theorems.

## Inventory

| Component | State | Operations | What is hard | What makes it correct |
|---|---|---|---|---|
| Quote submission `modules/quotes/application/services/quote.service.ts` | none of its own | `createQuoteRequest` | requests interleave at every await, on several instances; partial failure; retries | one quote per key, answers that are true, safe retries |
| Submission guard `quote-submission-guard.service.ts` | one Redis key per quote fingerprint, 300 s | `isDuplicateSubmission`, `releaseLock` | deleted without an owner check; expires under a slow handler; leaks | excludes while it has not expired |
| Idempotency `infrastructure/idempotency` | `idempotency_records`, unique per scope, operation and key, TTL 24 h | `getSavedResult`, `getCompletedResult`, `claim`, `saveResult` | claims race; the record may expire meanwhile | a record and its quote are one fact |
| Customers `customer.service.ts` | `customers`, unique by normalized e-mail | `findOrCreateCustomer` | two first quotes at once; rollback | exactly the customers that have quotes |
| Quote persistence `modules/quotes/infrastructure` | `quotes`, one discriminator per calculator | insert, `findOneAndUpdate` | only full-home quotes store and index the fingerprint | one quote per indexed fingerprint |
| Pricing and fingerprints `modules/quotes/domain`, `generateFingerprint`, `normalized_quote_data.types.ts`, `quote.mapper.ts` | none of its own; the pricing version is each process's setting | validate, normalize, hash, price, map | what the fingerprint leaves out, and what texts joined without escapes may hide; nested objects that are missing or arrays; fallbacks and roundings; a schema that drops fields; two versions at once | a price shown again is the body's own, or the replay of an answer; no price is nothing but in two named cases; stored quotes reproduce theirs |
| Notification dispatch `notification.dispatcher.ts` | Cloud Tasks queues | `dispatch`, fire-and-forget | lost at a crash | every task is owed |
| Notification pipeline `infrastructure/notifications` | deduplication and processing keys in Redis, `notification_logs`, `isEmailSent` | webhook, seven stages | at-least-once delivery, zombies, a template file that may be missing, `next()` called twice, swallowed errors | 200 only after a delivery, nothing sent after one, records that are true |
| Quote rate limiter `infrastructure/cache/rate-limiters`, `infrastructure/resilience` | Redis buckets and windows; the breaker's state, one per process | `check` | four layers at once; the first rejection answers while the others run on; timeouts cancel nothing; half-open probe | fails closed; quotas hold; every check settles |
| Cache `infrastructure/cache` | Redis or Upstash | get, set (NX, EX), delete, limits | transport errors after the effect | - |
| reCAPTCHA `infrastructure/recaptcha` | none; Google redeems a token once | `verify` | a token replayed, an answer lost | every admitted request was vouched for, by a token of its own |
| Uploads `modules/uploads`, `infrastructure/storage` | `media_assets` | `generateUploadUrl`, `confirmUpload` | failure at the n-th file; two confirmations at once | a URL has a record; a confirmation is news |
| Users, auth `modules/user`, `modules/auth` | `users`, with unique indexes on account, name and verified contacts | `registerUser`, `createProfile`, `getCurrentUser` | registrations race between look-up and insertion; a contact typed in the form | one profile each; verified contacts are Firebase's; true refusals |
| Sessions `infrastructure/session`, `common/guards` | Redis, 8 h | get, set, touch, destroy; `RolesGuard` | touch writes the whole session back | sessions follow the login, up to requests that overlap it |
| Catalog, health, observability, wiring | read-only or none | - | - | - |

How they meet: the controller hands a request to `createQuoteRequest`, which
passes the rate limiter and reCAPTCHA, reads the idempotency record, takes the
Redis lock, and then either answers from an existing quote (path A) or runs one
MongoDB transaction that inserts the record, the customer and the quote (path B).
Both paths start a dispatch promise nobody awaits. Cloud Tasks later calls the
webhook, which runs the pipeline and writes `isEmailSent` back to the quote.
Uploads and accounts share the HTTP front, the session store and the role guard,
and nothing with the quotes, whose handlers read no session.

## Modules

| Module | Content |
|---|---|
| `QuoteSubmission` | quote submission, guard, idempotency records, customers and dispatch, with the environment's faults |
| `QuoteLedger` | what quote creation promises: a book of quotes, a memo per key, true answers |
| `MCQuoteSubmission` | instances for TLC |
| `QuoteSubmissionProofs` | theorems about `QuoteSubmission` |
| `NotificationDelivery` | Cloud Tasks, the webhook, the pipeline's stages and the stores they write |
| `MCNotificationDelivery` | instances for TLC |
| `NotificationDeliveryProofs` | theorems about `NotificationDelivery` |
| `QuoteAdmission` | the rate limiter, its circuit breaker and reCAPTCHA: what stands before `createQuoteRequest`'s first read |
| `QuoteGate` | what admission promises: every layer paid once by the person behind the request, a token good once, a final verdict |
| `QuotePricing` | validation, normalization, fingerprint, prices and the stored quote |
| `HttpSession` | the frame of every other HTTP request: session, guards, touch |
| `MediaUploads`, `Accounts` | the handlers behind that frame, each EXTENDS `HttpSession` |
| `Portal` | the composition of the two over one session store |
| `MCQuoteAdmission`, `MCQuotePricing`, `MCPortal` | instances for TLC |
| `QuoteAdmissionProofs`, `QuotePricingProofs`, `PortalProofs` | theorems about them |
| `FoldLemmas` | what `FoldLeft` computes over sequences of any length, for `QuotePricingProofs` |

Definitions named `Mutant...` are deliberately broken variants of the definition
that follows them; no specification uses them. Each property is violated when one
of them takes the place of the definition it varies.

### QuoteSubmission

A request is one HTTP call with a key and a payload; a client's retry is another
request with the same message, so the initial states range over all assignments
of messages to requests. `pc[r]` is the await a handler stands at, and one action
goes from one await to the next:

- `Admit`, `Refuse`: header check, rate limiter and reCAPTCHA, as a verdict
  (`QuoteAdmission` says what is behind it).
- `LookUpSaved`: `getSavedResult`. `AcquireLock`, `AcquireLockFails`: `SET NX EX`.
- `ResendExisting`, `FindNoExisting`, `QueryFails`: `findOneAndUpdate` by
  fingerprint, then path A's answer, or pricing and `startSession`.
- `Claim`, `FindOrCreateCustomer`, `InsertQuote`, `SaveResult`, `Commit`: the body
  of `withTransaction`. `Rerun` is its retry on a write conflict, `Throw` an error
  that ends it, `CommitUnknown` a commit that took effect and was reported failed.
- `RecoverLock`, `SettleFailure`: the catch block. `Release`, `ReleaseFails`: the
  lock is freed after the commit, the dispatch started, the client answered.
- `DispatchLands`, `DispatchFails`: the promise settles.
- `Crash`, `LockExpires`, `RecordExpires`: the environment.

MongoDB is modelled as snapshot isolation sees it. A transaction's inserts are
unseen until it commits; its snapshot is taken by its first operation; a unique
key written by another open transaction, or committed after the snapshot, is a
write conflict (run again), one inside the snapshot a duplicate-key error.

Abstractions, each visible in the module: payloads are model values with a caller
and a fingerprint, hashes are equality; the locks record who set them as history
only (the code stores no owner, and `Unlock` does not look at it); reading the
existing quote, updating its count and answering are one action, and a crash or
an error inside it is `QueryFails` with the count raised; pricing and
`startSession` share `FindNoExisting`; a crash aborts an open transaction at once.
`Indexed` are the fingerprints of full-home quotes: only that schema declares
`fingerPrint`, so kitchen and wardrobe quotes are stored without it and neither
the look-up nor the unique index sees them.

### QuoteLedger

Four steps: a quote and its memo entry appear together (`Issue`), a request is
shown a quote it may see (`Show`), turned away, or the memo forgets. The
refinement maps the book to `quotes`, the memo to the quotes the records name and
the answers to `reply`; everything else the service does is a stutter.

### NotificationDelivery

The n-th delivery of task t is the attempt `<<t, n>>`. An attempt that Cloud Tasks
no longer waits for goes on, so attempts of one task overlap.

- `Deliver`, `Deadline`, `GiveUp`: Cloud Tasks; the task is invalid when
  `ValidateStage` rejects it. A queue gives up once both `max_attempts` and
  `max_retry_duration` are exceeded (`terraform/cloud_tasks.tf`); without a clock:
  at `MinAttempts` or later.
- `CheckDelivered`, `CheckFails`, `AcquireLock`, `AcquireLockFails`: the first half
  of `DeduplicationStage`; errors of Redis fail open.
- `LimitPasses`, `LimitExceeded`, `CompileTemplate`, `CompileFails`, `RecordAttempt`,
  `Send`, `SendFails`, `RecordStatus`, `RecordFlag`, `RecordFails`: the stages behind it.
  `StageThrows` is the rate limiter's catch block around `next()`: the first error runs
  the later stages again, the second propagates. `pass` says which of the two calls runs.
- `CommitMark`, `Cleanup`, `Respond`: the second half, and the answer.
- `Crash`, `LockExpires`, `WindowCloses`: the environment.

`TemplateCompilerStage` reads its file on every attempt, from `src/infrastructure/...`
under the working directory, and the Dockerfile's runtime image holds `dist` and
`node_modules` only: in that image `CompileFails` is what always happens. Then no mail is
sent; what the properties claim about records and acknowledgements holds all the same, and
`NoPayloadLost` is claimed for processes that can read the file (its run leaves the
fault `"template"` out). The recipient's limit is a verdict. `SendFails` includes a mail
that was accepted although the adapter reports failure.

### QuoteAdmission

`op[r][l]` is the limiter's operation of request r in layer l, `pc[r]` the request
that awaits all of them. `Check` fires every layer in one go; `Answers`, `Fails` and
`TimesOut` settle one operation each and `Join` is `Promise.all`: the first rejection
answers the request, the others stay `running` and still take their tokens. An
operation that timed out is `late`: opossum has failed it and nothing cancelled it,
so it may take its token afterwards (`Straggles`). `Verify` and `VerifyFails` are
`RecaptchaService.verify` with one fetch and no retry.

The breaker is opossum's, modelled from how the factory configures it: closed, open,
half-open with one probe, shut down. Its rolling window of ten seconds is left open:
`Trip` lets any failure of a closed breaker open it. `HalfOpens` waits until nothing
is running, since it comes 30 s after the breaker opened and operations time out
after 3. `Take` is one atomic Redis script. `Refill` gives tokens back with time: a
bucket its whole refill, a sliding window some of them. `Provider = "redis"` makes
every operation throw, as that strategy does.

Scores are hundredths, hashes equality of normalized spellings, and a blank token is
one that fails its assessment. (The limiter keeps only the digits of a phone, the
fingerprint normalizes phones otherwise; no property crosses the two.) A person is what
`normalizePhone` makes of a number: spellings it does not bring together, an extension's
digits for instance, are different persons to the code and to `AdmissionsWithinQuota`.
Upstash's ephemeral cache of blocked keys in each process is not modelled: it refuses
without asking Redis what Redis would refuse.

### QuoteGate

Requests pay (`Pay`), are judged by their token once every layer is paid (`Judge`), are
limited for an empty purse (`Refuse`), or are given up on (`GiveUp`); purses are refilled.
No breaker, timer or order of layers is left. The refinement reads the verdict off `pc`
where a request has come to rest, and the purses off the buckets of the *person* behind
each request, so a spelling that got a bucket of its own would break it. An operation
that fails after Redis took its token is a `Pay` that ends in `unavailable`; one that
straggles is a `Pay` of a request already decided.

### QuotePricing

One action serves one request, by a process of any version, since a roll-out has two at
work: the pipe's `Reject`, the idempotency `Replay` of an answer saved under the caller's
key, `Conflict`, `Fail`, path A's `Retrieve`, and path B, which stores a quote with its
record (`Store`) and answers (`Generate`) or does not (`GenerateUnanswered`: `releaseLock`
failed behind the commit, the outcome was unknown, the process died). `RecordExpires` is
the TTL index. Interleavings are QuoteSubmission's subject, where a fingerprint is an
opaque value; here it is computed, and the lock is a `Conflict` that may always come,
left behind by whatever failure.

A body's `sent` says of each nested object whether it was left out, sent as an array, or
sent as the object it should be: class-validator's `ValidateNested` passes the first two,
an array's members are undefined, and it is normalization's TypeError or the schema that
refuses them, or nothing (an array of `dimensions` is priced by the display texts). A
text is the sequence of its tokens (`Spelling`), so that the fingerprint is joined as
the code joins it, without escapes: where texts hold `-` or `|`, different bodies may give
one text. Numbers are counted in fractions (`Parts`), since decimals are sent: 0.0001
running feet is a kitchen of price 0. Prices are integers: full-home prices in fortieths of
a rupee, since 1.25 and 1.4 are the finest factors and that strategy does not round;
`Round` is `Math.round`. Package names are compared in lower case for wardrobes and as
written for kitchens, as in the code: a kitchen `"Premium"` costs the default rate.
`StoredConfiguration` keeps what the schemas declare; `WardrobeQuote` declares nothing,
and mongoose drops its configuration. `Existing` asks the calculator's own model.

Two places remain where bodies collide or may. City and state are joined by the `|` that
either may hold, so `Pune|MH` in `IN` is `Pune` in `MH|IN`: `RetrievedForSameConfiguration`
says so. Kitchens and wardrobes of different bodies may share a fingerprint; nothing is
looked up by it, and all they share is a lock.

### HttpSession, MediaUploads, Accounts, Portal

`Arrive` loads the session, `Guard` is the throttler and `RolesGuard`, the handler's
actions follow, `Close` ends the response and touches the session: it writes back
whole what `Arrive` loaded. Nothing in the repository signs anybody in; the login
service shares the store and is `LoginServiceWrites`. `granted`, `stale` and
`entitled` are history: what that service last wrote, and which requests it overlapped.

- `Presign`, `Record`, `Push`: one file of `generateUploadUrl` after the other.
  `FindAsset`, `UpdateStatus`: `confirmUpload`, a look-up and an unconditional update.
  An error may come after its effect.
- `Authenticate` (Firebase), `FindAccount`, `FindName`, `Insert`: registration; the
  first two also read the own profile. `Suspend` changes a status from outside.

Confirming never asks the bucket whether the object exists, so no property says so.
Storage adapters sign URLs from their arguments, without state, and are one choice:
signed or failed.

## Runs

| Run | Instance | Shows |
|---|---|---|
| `quotes_safety` | 3 requests, 2 keys, 2 payloads (full home and kitchen) of one caller, all faults, symmetry in requests and keys | the type invariant and seven safety properties |
| `quotes_promises` | 2 requests, 2 keys, 4 payloads, 2 callers, all faults | `QuoteSubmission` implements `QuoteLedger`; every request let in is answered or dies with its process |
| `quotes_outbox` | 2 requests, crashes | violated: a committed quote is notified |
| `quotes_key_reuse` | 3 requests, no fault | violated: a reused key with changed data is refused |
| `quotes_kitchen` | 2 requests, no fault | violated: one quote per fingerprint, for every calculator |
| `notif_redelivery` | 1 task, 2 attempts, all faults, a missing template included | acknowledgement and records are true; nothing is sent after a delivery |
| `notif_sharing` | 2 tasks with one payload and an invalid one, 2 attempts each, Redis errors and lock expiry | the lock excludes; the payload is delivered; every task settles |
| `notif_resend` | 1 task, 2 attempts, late answers | violated: an attempt that begins when its task's mail has been sent sends none |
| `notif_window` | 2 tasks, 1 attempt each, no fault | violated: no mail inside the deduplication window |
| `quote_admission` | 2 requests of one person with one token, 3 layers of 1 request each, errors, timeouts and a shutdown, 1 token refilled | `QuoteAdmission` implements `QuoteGate`: whoever is admitted has paid every layer, within the quota, and was vouched for once; a 429 has a cause; one probe at a time; checks and probes settle |
| `quote_pricing` | 16 bodies, 2 versions, 1 key, 2 stored quotes | stored and repeated prices are the configuration's; an old version's price is only ever a replay; what may be free of charge |
| `portal` | 2 requests of 8 kinds, 1 session, 1 write of the login service | sessions, uploads and accounts keep their promises; every request is answered |

Why the bounds are enough to be of interest. Three requests are the least with a
stale lock owner, the owner it displaces and a third that enters; two keys and two
fingerprints tell the identities apart; requests run once each, since a retry is a
request of its own. For notifications two attempts are the least for a zombie and
its successor, two tasks the least for a shared payload; three attempts of one task
add only a second retry. `MinAttempts` (5 in the queue's configuration) is scaled
down so that giving up is reached, and `MaxAttempts` bounds the deliveries. The
proofs below have none of these bounds, except that `MaxAttempts` is some number.

In `quote_admission` two requests are the least that compete for a token and for the
probe; with limits of one, the e-mail and phone windows refuse the second, while the
ip bucket's burst of two is spent but never refuses. The global layer, which behaves
as ip does, is left out of this run; the theorems hold for any layers that include
ip. `quote_pricing` has homes that differ in the caller, in an optional room and in where
the city ends, a negative room count, two homes whose texts hold the separators so that
they would have one fingerprint were the city not put in lower case, arrays for
`rooms`, `location`, `configuration`, `dimensions` and `materials`, a kitchen of 0.0001 ft,
and wardrobes with and without dimensions; a third stored quote adds no pair of
quotes to compare, and a second key no pair of records of one body. (The full set of
package names, patterns and catalogues is the theorems'.)
`portal` has two registrations for one name, one of them typing another's address,
two files in an upload, a pending asset that both requests may confirm, and one
sign-in, sign-out or change of role that may overlap either.

The violation runs are findings; `PROJECT.json` quotes the line each disagrees with:

1. The README of the quotes module promises an outbox in the quote's transaction;
   the code dispatches after the commit and keeps nothing to retry from.
2. It promises 409 for a reused key with changed data; a key answered from an
   existing quote leaves no record.
3. The duplicate handling by fingerprint works for full-home quotes only.
4. `isAlreadyDelivered`, with the comment that a sent task is acknowledged without
   sending again, has no caller: when Cloud Tasks has stopped waiting for an attempt
   that then delivers, the redelivered task is sent again once the window of 300 s is over.
5. The deduplication key is read before the lock is taken and not after: an attempt
   that waited in between sends a payload just delivered.

### Fairness

`QuoteSubmission!FairSpec` is weak fairness of each handler and of each dispatch
promise: Node's event loop runs every continuation, and drivers settle every call,
with a result or with an error. Clients, faults, expiry and the TTL monitor owe
nothing. `NotificationDelivery!FairSpec` is weak fairness of each attempt's
error-free steps and of Cloud Tasks, which delivers what waits, times out what does
not answer and gives up in the end. No lock expiry is assumed for liveness: an
attempt that meets a lock is answered at once. `EveryTaskSettles` is checked with locks left
behind by Redis' failures (a SET that took effect and erred, a DEL that did not), which is
what a crash leaves too; with crashes the run outgrows its bounds. `NoPayloadLost` states
its premises: Redis may fail and locks expire, but processes, database and provider work,
answers are in time, the recipient is within the limit and the template can be read.

`QuoteAdmission!FairSpec` assumes least: that the breaker's timer and
`AbortSignal.timeout` fire. Redis and Google may hang for ever. `Portal!FairSpec` is
weak fairness of each request's handler, for every call it awaits settles; nobody has
to send a request, and the login service owes nothing. `QuotePricing` states no
fairness and no liveness.

## Theorems

All hold for arbitrary constants, from the named assumptions only:
payloads with one indexed fingerprint have one caller, `None` is none of the values it
stands beside, faults are of the known kinds, `1 <= MinAttempts <= MaxAttempts`;
finitely many requests, limits that are positive, a normalization that is idempotent,
layers that include ip; each calculator's route fixes the kind of its bodies, the
patterns find digits in a text, different texts and different numbers are written
differently, no lower-case text and no version holds a package name in capitals, an e-mail
with the phone beside it is one token, and the bound on stored quotes is a number; calls name known sessions, files and keys. One theorem,
`OnlyThreeFaultsResend`, assumes in addition that some faults do not strike.

`QuoteSubmissionProofs`:

- `TypeCorrect`. The type invariant is split into what a handler carries, what its
  session holds and the stores, so that each helper (`Goto`, `Answer`, `Abort`,
  `Throw`, `Rerun`) is proved once.
- `OneQuotePerKeyHolds`. Not inductive by itself: `KeyInv` adds what an open
  transaction holds. `DraftInv`: its draft is its own payload's, and by the time it
  commits names its own quote and is COMPLETED. `OwnershipInv`: no record of its key
  is committed while it is open, and no other open transaction has its key.
  Publishing then keeps record and quote together.
- `GuardExcludesHolds`: whoever is in the section of a fingerprint that has not
  lapsed is the one that set its lock, so deleting it frees only its own.
- `OneQuotePerFullHomeHolds`: the same for the unique index, without the lock.
- `CustomersHaveQuotesHolds`, `AnswersAreTrueHolds`, and `SameKeySameAnswerHolds`
  from the previous ones.
- `TasksAreOwedHolds` counts: by `OwedInv`, the tasks of a quote and the dispatches of
  it on their way are together at most its counted resubmissions and the one task its
  creation owes, which is due only once its handler has left `release`.
- `LedgerImplemented`, the refinement: under `LedgerInv` (the invariants above, and
  `PendingInv`: no answer before the end, no quote before the commit) a commit is the
  ledger's `Issue` (its key is free by `OwnershipInv`, its fingerprint by `IndexInv`),
  a success is `Show`, a failure `TurnAway`, an expiry `Forget`, and everything else
  leaves the ledger alone.
- `ChangedKitchenConflictsHolds` says how far finding 2 reaches: among requests whose
  fingerprint is not indexed, a success is always the record's own quote and payload
  (`AnswerInv`), so a reused key with changed data does not succeed.

`NotificationDeliveryProofs`:

- `HandlerInv` relates location, pass, mails and result of each attempt (`Progress`)
  and says that attempts not begun are idle. It gives `TypeCorrect` (hence at most
  two mails per attempt) and `NoResendHolds`.
- `AcknowledgedWasDeliveredHolds`, `RecordsAreTrueHolds`: from it, since an answer
  200, a log status, a flag and a deduplication key are written only where the
  result is `delivered`, and reports are never taken back.
- `OneHolderHolds`: the holder of a lock that has not lapsed is the one who set it.
- `OnlyThreeFaultsResend` says how far finding 4 reaches: with no crash, no late answer
  and no provider that takes a mail and reports an error, a task's mail is sent once,
  whatever the caches, locks and the database do. By `Orderly`, an attempt at work is the
  current one of a task still running, and one that sent its mail is at work with the
  delivery reported, or its task is done. TLC finds a second mail with each of the three alone.
  Of the late answer, the run `notif_resend` shows more: the second attempt begins when
  the first has ended.

`QuoteAdmissionProofs`:

- `TypeCorrect`: no bucket goes below zero.
- `FailsClosed` from `PaymentInv`: while a request is being checked, each layer is
  running or has taken its token; any other outcome has already answered the request.
  (`AdmittedPaidEveryLayer`, which it states, is in no cfg: of admitted requests the gate
  says it.)
- `GateImplemented`, the refinement, from `PaymentInv` as well: an operation that runs or
  is late has not paid, so Redis' taking its token is the gate's `Pay`; a request under
  verification has paid every layer, so Google's answer is its `Judge` and a lost one its
  `GiveUp`; `JoinShows` reads the verdict off `Promise.all`.
- `QuotasHold` and `LimitsHaveCauses` from `BucketInv`: the tokens left to a
  key and the requests that paid under it are together at least its capacity, and at
  most that and what was refilled: tokens are neither lost nor made but by time.
- `ProbesAlone` from `ProbeInv`: nothing runs while the breaker is open, and in a
  half-open one the running operation is the probe.
- `TokensVouchOnce` from `VouchingInv`: the token of an admitted request is redeemed.

`QuotePricingProofs`:

- All from `BookInv`: a stored quote is `Recorded` as that of the servable body it was asked
  with (configuration, price, fingerprint), a record's quote is stored under its key, and
  of an answer it is known why it was given. It gives `TypeCorrect` and `QuotesReprice`.
- `PricesHold`: each strategy's sum is a natural number (`ServedCost`), and at least
  a half before `Math.round` unless it is a trifle in the sense of `Trifling`: a wardrobe's
  materials cost at least 180 rupees a square foot by table or fallback, a kitchen's foot at
  least 1800, and a home's least price is its base.
- `Decoded` reads a full home's fingerprint back. The package is the last of its tokens that
  is written in capitals (`SplitAtLast`: city and state are in lower case, versions hold
  none), on its right the version is the last token, and on its left e-mail, kind and
  room counts have fixed places at either end (`SplitByHead`, `SplitByTail`), so that what
  remains is the area's free text, whatever separators it holds.
- `FingerprintsFixPrices` from it: equal fingerprints of homes that can be stored mean the
  same e-mail, place, version and, but for bathrooms and dining rooms, price. This is what
  `QuoteSubmission` assumes of indexed fingerprints (`PayloadAssumption`). `RetrievalsMatch`
  and `OldPricesHold` apply it to what path A finds.

`FoldLemmas`: `FoldLeft` is the community modules' `MapThenFoldSet`, a recursive function
over the sets of positions that remain. `NatSetInduction` (a set of naturals with zero
and its successors is all of them, from the library's well-founded induction without its
operator parameters) shows that such a function exists (`FoldExists`) and that its values
are natural numbers (`FoldIsNat`, `SumIsNat`), for lists of any length.

`PortalProofs`, over the composition: `TypeInv`, `SessionInv` (what a request loaded
is what the login service granted, or its session is stale), `UploadInv` (signed files
have records; who handles an upload is entitled) and `AccountInv` (who passed
`Authenticate` was vouched for; profiles differ in every unique field) are inductive,
and give `TypeCorrect`, `SessionsAreTheLogins`, `UrlsAreBacked`, `ConfirmationsAreNew`,
`OnlyAdministratorsUpload`, `ProfilesAreUnique` and `ContactsAreFirebases`. `AnswersHold`
rests on `AnswerInv`: every answer given names its profile or its rival, and `Lasting`:
no step takes a profile, or what makes it a rival, away again.

Every invariant and action property of the passing runs, and both refinements, are
theorems. Only model-checked are the liveness properties `EveryRequestAnswered` (twice),
`EveryTaskSettles`, `NoPayloadLost`, `EveryCheckSettles` and `ProbeSettles`: TLAPS reasons
neither about ENABLED nor about fairness here. The five properties of the violation runs
are false of the code; `WindowHolds` fails without any fault, so no theorem delimits it.

## Not modelled

- Logging, metrics, tracing, error formatting, configuration and health checks: they
  keep no state that requests share. The throttler is a 429 that may strike any request.
- Formats (names, phones, addresses, mail templates) and the price breakdown shown to
  the customer: no property tells them apart. In `QuotePricing` the e-mail and the phone
  beside it hold no separator; `IsPhoneNumber` tolerates some text around a number.
- Floating point: `QuotePricing` computes exactly. A wardrobe key such as `constructor` finds a
  member of `Object.prototype` in a catalogue, and mongoose refuses the price that is no
  number; a `dining` of null passes validation and the schema refuses it: both are `Fail`.
- The limiter under `CACHE_PROVIDER=redis` is in no run (every operation throws, nobody is
  admitted); `GateImplemented` covers it.
- The catalog, its seeder, reviews and the media module: `AppModule` does not import
  them. `scripts/seed-admin.ts` imports a module that does not exist.
- Deleting and activating users, the factory's manual breaker resets, and the cache's
  `increment` and `clear`: no caller.
- The login service, Google, Firebase, the bucket and opossum are outside `src/`; their
  actions say only what the code relies on.
- A composition of `QuoteSubmission` and `NotificationDelivery` through the task queue
  is out of TLC's reach at bounds where either is of interest. They meet in two facts:
  a task is dispatched for a committed quote (`TasksAreOwed`), and the quote's flag is
  set only for a delivered task (`RecordsAreTrue`).
