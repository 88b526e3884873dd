--------------------------- MODULE QuoteAdmission ---------------------------
(***************************************************************************)
(* What a quote request passes before anything of it is read or written:   *)
(* QuoteRequestRateLimiter.check, its four limits running at once behind   *)
(* one circuit breaker, and then RecaptchaService.verify.                  *)
(*                                                                         *)
(* An action is what one request does from one await to the next, or one   *)
(* Redis operation settling.  The requests are those of one process: the   *)
(* breaker is the process's, the buckets in Redis are everybody's.         *)
(***************************************************************************)
EXTENDS Integers, FiniteSets, Functions

CONSTANTS
    Requests,    \* quote requests of one process
    Message,     \* what each request carries: ip, email, phone, token
    Normal,      \* normalizeEmail and normalizePhone, on the spellings used
    Layers,      \* the limits in force; the code's are all of AllLayers
    Limit,       \* maxRequests of each layer
    Assessment,  \* what Google holds of each reCAPTCHA token
    Hostnames,   \* RECAPTCHA_ALLOWED_HOSTNAMES
    MinScore,    \* RECAPTCHA_MIN_SCORE, in hundredths
    Provider,    \* CACHE_PROVIDER
    Faults,      \* the kinds of fault that can strike
    MaxRefill    \* bound on the tokens that time gives back

AllLayers  == {"ip", "email", "phone", "global"}
FaultKinds == {"error", "shutdown"}
Tokens     == {Message[r].token : r \in Requests}

ASSUME RequestsAssumption == IsFiniteSet(Requests)
ASSUME LayersAssumption == Layers \subseteq AllLayers /\ "ip" \in Layers
ASSUME LimitAssumption == Limit \in [Layers -> Nat \ {0}] /\ MaxRefill \in Nat
\* Normalizing twice is normalizing once.
ASSUME NormalAssumption ==
    \A r \in Requests : \A s \in {Message[r].email, Message[r].phone} :
        Normal[Normal[s]] = Normal[s]
\* The constructor refuses to start with any other configuration.
ASSUME RecaptchaAssumption == MinScore \in 0..100 /\ Hostnames # {}
ASSUME ProviderAssumption == Provider \in {"upstash", "redis"}
ASSUME FaultAssumption == Faults \subseteq FaultKinds

VARIABLES
    pc,        \* where each request stands, or how it was turned away
    op,        \* the limiter's operation of each request and layer
    \* ------------ the process
    breaker,   \* state of the circuit breaker "RateLimitRedis"
    probing,   \* whether the half-open breaker's one probe is running
    \* ------------ Redis
    left,      \* tokens left to each key
    \* ------------ Google
    redeemed,  \* reCAPTCHA tokens already verified; they are single-use
    \* ------------ history, read by properties only
    spent,     \* the requests and layers that took a token
    refilled   \* tokens that time gave back to each key

vars == <<pc, op, breaker, probing, left, redeemed, spent, refilled>>

------------------------------------------------------------------------------
MutantSubject(r) == [ip |-> Message[r].ip, email |-> Message[r].email,
                     phone |-> Normal[Message[r].phone], global |-> "all"]

\* Whom each layer counts: e-mail and phone in their normal form, hashed.
Subject(r) == [ip |-> Message[r].ip, email |-> Normal[Message[r].email],
               phone |-> Normal[Message[r].phone], global |-> "all"]

Key(r, l) == <<l, Subject(r)[l]>>

\* Whom a request could be counted under, normalized or not.
Spellings(r, l) ==
    CASE l = "ip"     -> {Message[r].ip}
      [] l = "email"  -> {Message[r].email, Normal[Message[r].email]}
      [] l = "phone"  -> {Message[r].phone, Normal[Message[r].phone]}
      [] l = "global" -> {"all"}

Keys == UNION {{<<l, s>> : s \in Spellings(r, l)} : r \in Requests, l \in Layers}

\* Token buckets hold a burst of twice their refill; sliding windows their limit.
Bursting    == {"ip", "global"}
Capacity(l) == IF l \in Bursting THEN 2 * Limit[l] ELSE Limit[l]

Refusals  == {"limited", "unavailable", "forbidden"}
Locations == {"idle", "checking", "verify", "admitted"} \cup Refusals
Settled   == {"admitted"} \cup Refusals
\* A late operation failed its request by its timeout and may yet reach Redis.
Operation == {"none", "running", "late", "done"}

Goto(r, location) == pc' = [pc EXCEPT ![r] = location]

Init ==
    /\ pc = [r \in Requests |-> "idle"]
    /\ op = [r \in Requests |-> [l \in Layers |-> "none"]]
    /\ breaker = "closed"
    /\ probing = FALSE
    /\ left = [k \in Keys |-> Capacity(k[1])]
    /\ redeemed = {}
    /\ spent = {}
    /\ refilled = [k \in Keys |-> 0]

------------------------------------------------------------------------------
(* The limiter.                                                            *)

MutantFailOpen == TRUE

\* The policy for Redis errors, timeouts and an open circuit: fail closed.
FailOpen == FALSE

\* What executeWithCircuitBreaker makes of an infrastructure failure.
Failure == IF FailOpen THEN "allowed" ELSE "failed"

\* Promise.all over the four layers: the first rejection answers the request
\* while the other layers run on; the last success lets it go on.
Join(r, l, outcome) ==
    \/ pc[r] # "checking" /\ UNCHANGED pc
    \/ /\ pc[r] = "checking" /\ outcome = "allowed"
       /\ IF \E k \in Layers \ {l} : op[r][k] = "running"
          THEN UNCHANGED pc
          ELSE Goto(r, "verify")
    \/ pc[r] = "checking" /\ outcome = "denied" /\ Goto(r, "limited")
    \/ pc[r] = "checking" /\ outcome = "failed" /\ Goto(r, "unavailable")

Resolve(r, l, outcome) ==
    /\ op' = [op EXCEPT ![r][l] = "done"]
    /\ Join(r, l, outcome)

MutantFires == {l \in Layers : breaker \in {"closed", "halfOpen"}}

\* The layers whose operation the breaker lets through.  All four are fired in
\* one go, in this order: ip, email, phone, global.  A half-open breaker takes
\* the first as its probe and rejects whatever comes before that has settled.
Fires == {l \in Layers : \/ breaker = "closed"
                         \/ breaker = "halfOpen" /\ ~probing /\ l = "ip"}

\* check: start every layer.
Check(r) ==
    /\ pc[r] = "idle"
    /\ op' = [op EXCEPT ![r] = [l \in Layers |->
                              IF l \in Fires THEN "running" ELSE "done"]]
    /\ Goto(r, CASE Fires = Layers -> "checking"
                 [] Fires # Layers /\ ~FailOpen -> "unavailable"
                 [] OTHER -> IF Fires = {} THEN "verify" ELSE "checking")
    /\ probing' = (probing \/ (breaker = "halfOpen" /\ Fires # {}))
    /\ UNCHANGED <<breaker, left, redeemed, spent, refilled>>

\* opossum on a success: a half-open breaker closes.
Succeed ==
    /\ breaker' = IF breaker = "halfOpen" THEN "closed" ELSE breaker
    /\ probing' = FALSE

MutantTrip ==
    /\ breaker' \in {breaker} \cup (IF breaker = "closed" THEN {"open"} ELSE {})
    /\ UNCHANGED probing

\* opossum on a failure: a half-open breaker opens again, a closed one when
\* more than half of at least five calls in ten seconds failed.  The window's
\* contents are left open: any failure may be the one.
Trip ==
    /\ breaker' \in CASE breaker = "closed"   -> {"closed", "open"}
                      [] breaker = "halfOpen" -> {"open"}
                      [] OTHER                -> {breaker}
    /\ probing' = FALSE

MutantTake(r, l) ==
    /\ left[Key(r, l)] > 0
    /\ left' = [left EXCEPT ![Key(r, l)] = IF @ = 1 THEN 0 ELSE @ - 2]
    /\ spent' = spent \cup {<<r, l>>}

MutantTakeUnchecked(r, l) ==
    /\ left' = [left EXCEPT ![Key(r, l)] = @ - 1]
    /\ spent' = spent \cup {<<r, l>>}

\* One Redis script takes a token where there is one.
Take(r, l) ==
    /\ left[Key(r, l)] > 0
    /\ left' = [left EXCEPT ![Key(r, l)] = @ - 1]
    /\ spent' = spent \cup {<<r, l>>}

\* Redis answers in time.  A denial is an answer, not a failure.  The strategy
\* for plain Redis implements neither limit and throws.
Answers(r, l) ==
    /\ op[r][l] = "running"
    /\ Provider = "upstash"
    /\ \/ Take(r, l) /\ Resolve(r, l, "allowed")
       \/ left[Key(r, l)] = 0 /\ Resolve(r, l, "denied") /\ UNCHANGED <<left, spent>>
    /\ Succeed
    /\ UNCHANGED <<redeemed, refilled>>

\* The operation fails, whether or not it took the token.
Fails(r, l) ==
    /\ op[r][l] = "running"
    /\ \/ "error" \in Faults /\ Take(r, l)
       \/ ("error" \in Faults \/ Provider = "redis") /\ UNCHANGED <<left, spent>>
    /\ Resolve(r, l, Failure)
    /\ Trip
    /\ UNCHANGED <<redeemed, refilled>>

MutantTimesOut(r, l) ==
    /\ op[r][l] = "running" /\ breaker = "closed"
    /\ op' = [op EXCEPT ![r][l] = "late"]
    /\ Join(r, l, Failure)
    /\ Trip
    /\ UNCHANGED <<left, redeemed, spent, refilled>>

\* The breaker's three seconds are over.  The operation is not cancelled ...
TimesOut(r, l) ==
    /\ op[r][l] = "running"
    /\ op' = [op EXCEPT ![r][l] = "late"]
    /\ Join(r, l, Failure)
    /\ Trip
    /\ UNCHANGED <<left, redeemed, spent, refilled>>

\* ... and may take its token after the request was refused.
Straggles(r, l) ==
    /\ op[r][l] = "late"
    /\ Take(r, l)
    /\ op' = [op EXCEPT ![r][l] = "done"]
    /\ UNCHANGED <<pc, breaker, probing, redeemed, refilled>>

\* resetTimeout, 30 seconds after the breaker opened: whatever was fired before
\* has long hit its timeout of 3.
HalfOpens ==
    /\ breaker = "open"
    /\ \A r \in Requests, l \in Layers : op[r][l] # "running"
    /\ breaker' = "halfOpen"
    /\ UNCHANGED <<pc, op, probing, left, redeemed, spent, refilled>>

\* onApplicationShutdown: every later call is rejected.
Shutdown ==
    /\ "shutdown" \in Faults
    /\ breaker # "shutdown"
    /\ breaker' = "shutdown"
    /\ probing' = FALSE
    /\ UNCHANGED <<pc, op, left, redeemed, spent, refilled>>

Least(m, n) == IF m <= n THEN m ELSE n

\* Time passes: a bucket gets its whole refill, a window forgets some requests.
Refill(k) ==
    \E n \in 1..Limit[k[1]] :
        /\ k[1] \in Bursting => n = Limit[k[1]]
        /\ SumFunction(refilled) + n <= MaxRefill
        /\ left[k] < Capacity(k[1])
        /\ left' = [left EXCEPT ![k] = Least(@ + n, Capacity(k[1]))]
        /\ refilled' = [refilled EXCEPT ![k] = @ + n]
        /\ UNCHANGED <<pc, op, breaker, probing, redeemed, spent>>

------------------------------------------------------------------------------
(* reCAPTCHA.                                                              *)

\* What Google answers: a token is good once.
Assess(token) ==
    LET a == Assessment[token] IN
    [success |-> a.success /\ token \notin redeemed,
     action |-> a.action, hostname |-> a.hostname, score |-> a.score]

MutantAccepts(a) ==
    /\ a.action = "quote_submit" /\ a.hostname \in Hostnames
    /\ MinScore <= a.score /\ a.score <= 100

\* The last test of verify.
Accepts(a) ==
    /\ a.success
    /\ a.action = "quote_submit"
    /\ a.hostname \in Hostnames
    /\ MinScore <= a.score /\ a.score <= 100

\* verify: the token is sent to Google once and the answer judged.
Verify(r) ==
    LET token == Message[r].token IN
    /\ pc[r] = "verify"
    /\ \/ Accepts(Assess(token)) /\ Goto(r, "admitted")
       \/ ~Accepts(Assess(token)) /\ Goto(r, "forbidden")
    /\ redeemed' = redeemed \cup {token}
    /\ UNCHANGED <<op, breaker, probing, left, spent, refilled>>

\* No answer in five seconds, a network error or a malformed answer: Google may have
\* redeemed the token all the same.
VerifyFails(r) ==
    /\ pc[r] = "verify"
    /\ Goto(r, "unavailable")
    /\ \/ UNCHANGED redeemed
       \/ redeemed' = redeemed \cup {Message[r].token}
    /\ UNCHANGED <<op, breaker, probing, left, spent, refilled>>

------------------------------------------------------------------------------
Operate(r) == \E l \in Layers : Answers(r, l) \/ Fails(r, l) \/ Straggles(r, l)
Expire(r)  == \E l \in Layers : TimesOut(r, l)

\* Every request has been decided.
Quiet == (\A r \in Requests : pc[r] \in Settled) /\ UNCHANGED vars

Next ==
    \/ \E r \in Requests : Check(r) \/ Operate(r) \/ Expire(r)
    \/ \E r \in Requests : Verify(r) \/ VerifyFails(r)
    \/ \E k \in Keys : Refill(k)
    \/ HalfOpens \/ Shutdown
    \/ Quiet

Spec == Init /\ [][Next]_vars

\* All that is sure to happen is a timeout: the breaker's settles every operation
\* and AbortSignal's every verification.  Redis and Google may hang for ever.
FairSpec == /\ Spec
            /\ \A r \in Requests : WF_vars(Expire(r)) /\ WF_vars(VerifyFails(r))

------------------------------------------------------------------------------
(* Properties.                                                             *)

\* The shape of the state.
TypeOK ==
    /\ pc \in [Requests -> Locations]
    /\ op \in [Requests -> [Layers -> Operation]]
    /\ breaker \in {"closed", "open", "halfOpen", "shutdown"}
    /\ probing \in BOOLEAN
    /\ left \in [Keys -> Nat]
    /\ redeemed \subseteq Tokens
    /\ spent \subseteq Requests \X Layers
    /\ refilled \in [Keys -> Nat]

\* The limiter fails closed: a request that gets past it holds a token of each
\* of the four layers, whatever errors, timeouts and breaker states lie between,
\* and whichever cache provider is configured.
AdmittedPaidEveryLayer ==
    \A r \in Requests : pc[r] \in {"verify", "admitted"} =>
        \A l \in Layers : <<r, l>> \in spent

\* The person behind a request, however the e-mail and the phone are spelled.
Person(r) == [ip |-> Message[r].ip, email |-> Normal[Message[r].email],
              phone |-> Normal[Message[r].phone], global |-> "all"]

\* Nobody gets more requests through than a layer grants to the person behind
\* them, however the e-mail and the phone are spelled and however many requests
\* are checked at once.
AdmissionsWithinQuota ==
    \A r \in Requests, l \in Layers :
        Cardinality({s \in Requests : /\ pc[s] \in {"verify", "admitted"}
                                      /\ Person(s)[l] = Person(r)[l]})
            <= Capacity(l) + refilled[<<l, Person(r)[l]>>]

\* A 429 has a cause: some layer gave all its tokens to other requests of the
\* same key.  (They need not have been admitted: a request that one layer
\* refuses has still paid the others, before or after its answer.)
LimitedHasCause ==
    \A r \in Requests : pc[r] = "limited" =>
        \E l \in Layers :
            Cardinality({s \in Requests \ {r} :
                            <<s, l>> \in spent /\ Key(s, l) = Key(r, l)})
                >= Capacity(l)

\* A recovering Redis is asked once: while the breaker is half-open at most one
\* operation is on its way, although every request fires four.
OneProbe ==
    breaker = "halfOpen" =>
        Cardinality({o \in Requests \X Layers : op[o[1]][o[2]] = "running"})
            = IF probing THEN 1 ELSE 0

\* Who is admitted was vouched for by Google, for this site and this action, by
\* a token no other admitted request used: not even a concurrent replay of the
\* same token, or a retry after a lost answer, gets in a second time.
VouchedOnce ==
    /\ \A r \in Requests : pc[r] = "admitted" =>
          LET a == Assessment[Message[r].token] IN
          a.success /\ a.action = "quote_submit" /\ a.hostname \in Hostnames
    /\ \A r, s \in Requests :
          /\ pc[r] = "admitted" /\ pc[s] = "admitted"
          /\ Message[r].token = Message[s].token
          => r = s

\* Every request that is being checked is decided: no layer that hangs, and no
\* breaker that opens meanwhile, keeps it waiting.
EveryCheckSettles == \A r \in Requests : pc[r] = "checking" ~> pc[r] \in Settled

\* The breaker does not stay half-open on a probe that hangs, rejecting
\* everybody meanwhile.
ProbeSettles == (breaker = "halfOpen" /\ probing) ~> breaker # "halfOpen"

\* The verdict on each request, and what the gate judges by.
Verdict == [r \in Requests |-> IF pc[r] \in Settled THEN pc[r] ELSE "undecided"]
PurseOf == [r \in Requests |-> [l \in Layers |-> <<l, Person(r)[l]>>]]
Genuine == {t \in Tokens : Accepts(Assessment[t])}

\* Admission implements the gate: it charges persons, not spellings, and each
\* layer once; it lets in, turns away and gives up only where the gate may.  The
\* breaker, the operations that run, time out and straggle, and Google's lost
\* answers are nothing the gate knows.
Gate == INSTANCE QuoteGate WITH
    Purses  <- Keys,
    Size    <- [k \in Keys |-> Capacity(k[1])],
    PurseOf <- PurseOf,
    TokenOf <- [r \in Requests |-> Message[r].token],
    Genuine <- Genuine,
    verdict <- Verdict

ImplementsGate == Gate!Spec
==============================================================================
