------------------------ MODULE QuoteAdmissionProofs ------------------------
(* Theorems about QuoteAdmission, for every value of its constants.         *)
EXTENDS QuoteAdmission, FiniteSetTheorems, TLAPS

------------------------------------------------------------------------------
(* Keys and types.                                                          *)

LEMMA KeysOfRequests ==
    ASSUME NEW r \in Requests, NEW l \in Layers
    PROVE  Key(r, l) \in Keys /\ Key(r, l)[1] = l
<1>1. l \in {"ip", "email", "phone", "global"}
  BY LayersAssumption DEF AllLayers
<1>2. /\ Subject(r).ip = Message[r].ip /\ Subject(r).email = Normal[Message[r].email]
      /\ Subject(r).phone = Normal[Message[r].phone] /\ Subject(r).global = "all"
  BY DEF Subject
<1>3. Key(r, l)[1] = l
  BY DEF Key
<1> DEFINE Mine   == {<<l, t>> : t \in Spellings(r, l)}
           Others == {{<<m, t>> : t \in Spellings(q, m)} : q \in Requests, m \in Layers}
<1>4. \A s \in Spellings(r, l) : <<l, s>> \in Keys
  <2>1. \A s \in Spellings(r, l) : <<l, s>> \in Mine
    OBVIOUS
  <2>2. Mine \in Others /\ Keys = UNION Others
    BY DEF Keys
  <2> HIDE DEF Mine, Others
  <2>3. QED
    BY <2>1, <2>2
<1>5. Subject(r)[l] \in Spellings(r, l)
  BY <1>1, <1>2 DEF Spellings
<1>6. QED
  BY <1>3, <1>4, <1>5 DEF Key

LEMMA Capacities ==
    ASSUME NEW l \in Layers
    PROVE  Capacity(l) \in Nat /\ Limit[l] \in Nat
BY LimitAssumption DEF Capacity

LEMMA LayersOfKeys == \A k \in Keys : k[1] \in Layers
BY DEF Keys

\* Every variable keeps its type: no step takes a token that is not there.
THEOREM TypeCorrect == Spec => []TypeOK
<1>1. Init => TypeOK
  <2> SUFFICES ASSUME Init PROVE TypeOK
    OBVIOUS
  <2>1. left \in [Keys -> Nat]
    BY Capacities, LayersOfKeys DEF Init
  <2>2. QED
    BY <2>1 DEF Init, TypeOK, Locations, Operation
<1>2. TypeOK /\ [Next]_vars => TypeOK'
  <2> SUFFICES ASSUME TypeOK, [Next]_vars PROVE TypeOK'
    OBVIOUS
  <2> USE DEF TypeOK, Locations, Refusals, Operation, Goto
  <2>1. ASSUME NEW r \in Requests, Check(r) PROVE TypeOK'
    BY <2>1 DEF Check
  <2>2. ASSUME NEW r \in Requests, NEW l \in Layers, Take(r, l)
        PROVE  left' \in [Keys -> Nat] /\ spent' \subseteq Requests \X Layers
    BY <2>2, KeysOfRequests DEF Take
  <2>3. ASSUME NEW r \in Requests, NEW l \in Layers, NEW outcome, Join(r, l, outcome)
        PROVE  pc' \in [Requests -> Locations]
    BY <2>3 DEF Join
  <2>4. ASSUME NEW r \in Requests, NEW l \in Layers, NEW outcome, Resolve(r, l, outcome)
        PROVE  /\ pc' \in [Requests -> Locations]
               /\ op' \in [Requests -> [Layers -> Operation]]
    BY <2>3, <2>4 DEF Resolve
  <2>5. ASSUME NEW r \in Requests, NEW l \in Layers, Answers(r, l) PROVE TypeOK'
    BY <2>2, <2>4, <2>5 DEF Answers, Succeed
  <2>6. ASSUME NEW r \in Requests, NEW l \in Layers, Fails(r, l) PROVE TypeOK'
    BY <2>2, <2>4, <2>6 DEF Fails, Trip
  <2>7. ASSUME NEW r \in Requests, NEW l \in Layers, TimesOut(r, l) PROVE TypeOK'
    <3>1. pc' \in [Requests -> Locations]
      BY <2>3, <2>7 DEF TimesOut
    <3>2. QED
      BY <2>7, <3>1 DEF TimesOut, Trip
  <2>8. ASSUME NEW r \in Requests, NEW l \in Layers, Straggles(r, l) PROVE TypeOK'
    BY <2>2, <2>8 DEF Straggles
  <2>9. ASSUME NEW r \in Requests, Verify(r) \/ VerifyFails(r) PROVE TypeOK'
    BY <2>9 DEF Verify, VerifyFails, Tokens
  <2>10. ASSUME NEW k \in Keys, Refill(k) PROVE TypeOK'
    BY <2>10, Capacities, LayersOfKeys DEF Refill, Least
  <2>11. CASE HalfOpens \/ Shutdown
    BY <2>11 DEF HalfOpens, Shutdown
  <2>12. CASE UNCHANGED vars
    BY <2>12 DEF vars
  <2>13. QED
    BY <2>1, <2>5, <2>6, <2>7, <2>8, <2>9, <2>10, <2>11, <2>12
    DEF Next, Operate, Expire, Quiet
<1>3. QED
  BY <1>1, <1>2, PTL DEF Spec

------------------------------------------------------------------------------
(* The limiter.                                                             *)

Passed == {"verify", "admitted"}

\* A request that may still get through has paid every layer whose operation no
\* longer runs, and a running operation has not paid yet.
Paying(r) ==
    /\ pc[r] = "idle" => \A l \in Layers : op[r][l] = "none"
    /\ pc[r] = "checking" => \A l \in Layers : op[r][l] = "running" \/ <<r, l>> \in spent
    /\ pc[r] \in Passed => \A l \in Layers : <<r, l>> \in spent
    /\ \A l \in Layers : op[r][l] \in {"none", "running", "late"} => <<r, l>> \notin spent

PaymentInv == TypeOK /\ \A r \in Requests : Paying(r)

\* What changes neither a request's place nor its operations nor its payments
\* does not matter to it.
LEMMA PayingFrame ==
    ASSUME NEW q \in Requests, Paying(q), pc'[q] = pc[q], op'[q] = op[q],
           \A l \in Layers : <<q, l>> \in spent' <=> <<q, l>> \in spent
    PROVE  Paying(q)'
BY DEF Paying

\* The end of one operation, successful or not.
LEMMA PayingResolve ==
    ASSUME PaymentInv, NEW r \in Requests, NEW l \in Layers, NEW outcome,
           op[r][l] = "running", Resolve(r, l, outcome),
           outcome \in {"allowed", "denied", "failed"},
           spent' \in {spent, spent \cup {<<r, l>>}},
           outcome = "allowed" => spent' = spent \cup {<<r, l>>}
    PROVE  \A q \in Requests : Paying(q)'
<1>1. /\ pc \in [Requests -> Locations] /\ op \in [Requests -> [Layers -> Operation]]
      /\ spent \subseteq Requests \X Layers /\ \A q \in Requests : Paying(q)
  BY DEF PaymentInv, TypeOK
<1>2. /\ op'[r][l] = "done" /\ \A k \in Layers \ {l} : op'[r][k] = op[r][k]
      /\ \A q \in Requests \ {r} : op'[q] = op[q] /\ pc'[q] = pc[q]
  BY <1>1 DEF Resolve, Join, Goto
<1>3. \A k \in Layers \ {l} : <<r, k>> \in spent' <=> <<r, k>> \in spent
  OBVIOUS
<1>4. \A q \in Requests \ {r} : Paying(q)'
  BY <1>1, <1>2, PayingFrame
<1>5. CASE pc[r] # "checking"
  <2>1. pc'[r] = pc[r]
    BY <1>5 DEF Resolve, Join
  <2>2. pc[r] \notin Passed /\ pc[r] # "idle"
    BY <1>1 DEF Paying
  <2>3. Paying(r)'
    BY <1>1, <1>2, <1>3, <1>5, <2>1, <2>2 DEF Paying
  <2>4. QED
    BY <1>4, <2>3
<1>6. CASE pc[r] = "checking" /\ outcome = "allowed"
  <2>1. <<r, l>> \in spent'
    BY <1>6
  <2>2. \/ pc'[r] = "checking"
        \/ pc'[r] = "verify" /\ \A k \in Layers \ {l} : op'[r][k] # "running"
    BY <1>1, <1>6 DEF Resolve, Join, Goto
  <2>3. Paying(r)'
    BY <1>1, <1>2, <1>3, <1>6, <2>1, <2>2 DEF Paying, Passed
  <2>4. QED
    BY <1>4, <2>3
<1>7. CASE pc[r] = "checking" /\ outcome # "allowed"
  <2>1. pc'[r] \in {"limited", "unavailable"}
    BY <1>1, <1>7 DEF Resolve, Join, Goto
  <2>2. Paying(r)'
    BY <1>1, <1>2, <1>3, <2>1 DEF Paying, Passed
  <2>3. QED
    BY <1>4, <2>2
<1>8. QED
  BY <1>5, <1>6, <1>7

LEMMA PaymentInvHolds == Spec => []PaymentInv
<1>1. Init /\ TypeOK => PaymentInv
  BY DEF Init, PaymentInv, Paying, Passed
<1>2. PaymentInv /\ [Next]_vars /\ TypeOK' => PaymentInv'
  <2> SUFFICES ASSUME PaymentInv, [Next]_vars, TypeOK' PROVE PaymentInv'
    OBVIOUS
  <2>0. /\ pc \in [Requests -> Locations] /\ op \in [Requests -> [Layers -> Operation]]
        /\ spent \subseteq Requests \X Layers /\ \A q \in Requests : Paying(q)
    BY DEF PaymentInv, TypeOK
  <2>1. ASSUME NEW r \in Requests, Check(r) PROVE PaymentInv'
    <3>1. /\ pc[r] = "idle" /\ UNCHANGED spent
          /\ \A l \in Layers : op'[r][l] = IF l \in Fires THEN "running" ELSE "done"
          /\ \A q \in Requests \ {r} : op'[q] = op[q] /\ pc'[q] = pc[q]
      BY <2>0, <2>1 DEF Check, Goto
    <3>2. \/ pc'[r] = "checking" /\ Fires = Layers
          \/ pc'[r] = "unavailable"
      BY <2>0, <2>1 DEF Check, Goto, FailOpen
    <3>3. Paying(r)'
      BY <2>0, <3>1, <3>2 DEF Paying, Passed
    <3>4. QED
      BY <2>0, <3>1, <3>3, PayingFrame DEF PaymentInv
  <2>2. ASSUME NEW r \in Requests, NEW l \in Layers, Answers(r, l) PROVE PaymentInv'
    BY <2>2, PayingResolve DEF Answers, Take, PaymentInv
  <2>3. ASSUME NEW r \in Requests, NEW l \in Layers, Fails(r, l) PROVE PaymentInv'
    BY <2>3, PayingResolve DEF Fails, Failure, FailOpen, Take, PaymentInv
  <2>4. ASSUME NEW r \in Requests, NEW l \in Layers, TimesOut(r, l) PROVE PaymentInv'
    <3>1. /\ op[r][l] = "running" /\ op'[r][l] = "late" /\ UNCHANGED spent
          /\ \A k \in Layers \ {l} : op'[r][k] = op[r][k]
          /\ \A q \in Requests \ {r} : op'[q] = op[q] /\ pc'[q] = pc[q]
      BY <2>0, <2>4 DEF TimesOut, Join, Goto
    <3>2. pc'[r] = IF pc[r] = "checking" THEN "unavailable" ELSE pc[r]
      BY <2>0, <2>4 DEF TimesOut, Join, Goto, Failure, FailOpen
    <3>3. Paying(r)'
      BY <2>0, <3>1, <3>2 DEF Paying, Passed
    <3>4. QED
      BY <2>0, <3>1, <3>3, PayingFrame DEF PaymentInv
  <2>5. ASSUME NEW r \in Requests, NEW l \in Layers, Straggles(r, l) PROVE PaymentInv'
    <3>1. /\ op[r][l] = "late" /\ op'[r][l] = "done" /\ UNCHANGED pc
          /\ \A k \in Layers \ {l} : op'[r][k] = op[r][k]
          /\ \A q \in Requests \ {r} : op'[q] = op[q]
          /\ spent' = spent \cup {<<r, l>>}
      BY <2>0, <2>5 DEF Straggles, Take
    <3>2. Paying(r)'
      BY <2>0, <3>1 DEF Paying, Passed
    <3>3. QED
      BY <2>0, <3>1, <3>2, PayingFrame DEF PaymentInv
  <2>6. ASSUME NEW r \in Requests, Verify(r) \/ VerifyFails(r) PROVE PaymentInv'
    <3>1. /\ pc[r] = "verify" /\ pc'[r] \in {"admitted", "forbidden", "unavailable"}
          /\ \A q \in Requests \ {r} : pc'[q] = pc[q]
          /\ UNCHANGED <<op, spent>>
      BY <2>0, <2>6 DEF Verify, VerifyFails, Goto
    <3>2. Paying(r)'
      BY <2>0, <3>1 DEF Paying, Passed
    <3>3. QED
      BY <2>0, <3>1, <3>2, PayingFrame DEF PaymentInv
  <2>7. ASSUME UNCHANGED <<pc, op, spent>> PROVE PaymentInv'
    BY <2>0, <2>7, PayingFrame DEF PaymentInv
  <2>8. QED
    BY <2>1, <2>2, <2>3, <2>4, <2>5, <2>6, <2>7
    DEF Next, Operate, Expire, Quiet, vars, Refill, HalfOpens, Shutdown
<1>3. QED
  BY <1>1, <1>2, TypeCorrect, PTL DEF Spec

\* No fault, timeout, breaker state or missing implementation gets a request past
\* the limiter without a token of every layer.
THEOREM FailsClosed == Spec => []AdmittedPaidEveryLayer
<1>1. PaymentInv => AdmittedPaidEveryLayer
  BY DEF PaymentInv, Paying, Passed, AdmittedPaidEveryLayer
<1>2. QED
  BY <1>1, PaymentInvHolds, PTL

------------------------------------------------------------------------------
(* The buckets.                                                             *)

\* The requests that paid under a key.
Payers(k) == {s \in Requests : <<s, k[1]>> \in spent /\ Key(s, k[1]) = k}

\* Tokens are not lost, and not made but by time.
Balanced(k) ==
    /\ Capacity(k[1]) <= left[k] + Cardinality(Payers(k))
    /\ left[k] + Cardinality(Payers(k)) <= Capacity(k[1]) + refilled[k]

\* The others that paid under the key of a request.
Rivals(r, l) == {s \in Requests \ {r} : <<s, l>> \in spent /\ Key(s, l) = Key(r, l)}

BucketInv == PaymentInv /\ (\A k \in Keys : Balanced(k)) /\ LimitedHasCause

LEMMA PayersFinite == \A k : IsFiniteSet(Payers(k)) /\ Cardinality(Payers(k)) \in Nat
BY RequestsAssumption, FS_Subset, FS_CardinalityType DEF Payers

\* A token taken is one more payer of its key, and nothing to the other keys.
LEMMA TakeBalances ==
    ASSUME TypeOK, \A k \in Keys : Balanced(k), NEW r \in Requests, NEW l \in Layers,
           <<r, l>> \notin spent, Take(r, l), UNCHANGED refilled
    PROVE  \A k \in Keys : Balanced(k)'
<1> DEFINE key == Key(r, l)
<1>1. key \in Keys /\ key[1] = l
  BY KeysOfRequests
<1>2. ASSUME NEW k \in Keys, k # key PROVE Balanced(k)'
  <2>1. Payers(k)' = Payers(k)
    <3> SUFFICES ASSUME NEW s \in Requests, Key(s, k[1]) = k
                 PROVE  <<s, k[1]>> \in spent' <=> <<s, k[1]>> \in spent
      BY DEF Payers, Key, Subject
    <3>1. CASE s = r /\ k[1] = l
      BY <1>2, <3>1
    <3>2. CASE ~(s = r /\ k[1] = l)
      BY <3>2 DEF Take
    <3>3. QED
      BY <3>1, <3>2
  <2>2. left'[k] = left[k]
    BY <1>2 DEF Take, TypeOK
  <2>3. QED
    BY <2>1, <2>2 DEF Balanced, Capacity, TypeOK
<1>3. Balanced(key)'
  <2>1. Payers(key)' = Payers(key) \cup {r}
    BY <1>1 DEF Take, Payers, Key, Subject
  <2>2. r \notin Payers(key)
    BY <1>1 DEF Payers
  <2>3. Cardinality(Payers(key)') = Cardinality(Payers(key)) + 1
    BY <2>1, <2>2, PayersFinite, FS_AddElement
  <2>4. left[key] \in Nat /\ left[key] > 0 /\ left'[key] = left[key] - 1
    BY <1>1 DEF Take, TypeOK
  <2>5. /\ refilled[key] \in Nat /\ refilled'[key] = refilled[key]
        /\ Capacity(key[1]) \in Nat /\ Cardinality(Payers(key)) \in Nat
    BY <1>1, Capacities, PayersFinite DEF TypeOK
  <2>6. Balanced(key)
    BY <1>1
  <2> HIDE DEF key
  <2>7. QED
    BY <2>3, <2>4, <2>5, <2>6 DEF Balanced, Capacity
<1>4. QED
  BY <1>2, <1>3

\* More payers are more of a cause.
LEMMA CauseStays ==
    ASSUME LimitedHasCause, spent \subseteq spent', NEW r \in Requests, pc[r] = "limited"
    PROVE  \E l \in Layers : Cardinality(Rivals(r, l)') >= Capacity(l)
<1>1. PICK l \in Layers : Cardinality(Rivals(r, l)) >= Capacity(l)
  BY DEF LimitedHasCause, Rivals
<1>2. Rivals(r, l) \subseteq Rivals(r, l)' /\ IsFiniteSet(Rivals(r, l)')
  BY RequestsAssumption, FS_Subset DEF Rivals, Key, Subject
<1>3. Cardinality(Rivals(r, l)) <= Cardinality(Rivals(r, l)')
  BY <1>2, FS_Subset
<1>4. /\ Cardinality(Rivals(r, l)) \in Nat /\ Cardinality(Rivals(r, l)') \in Nat
      /\ Capacity(l) \in Nat
  BY <1>2, FS_Subset, FS_CardinalityType, Capacities
<1>5. QED
  BY <1>1, <1>3, <1>4

\* Nobody new is limited: it is enough that payments are kept.
LEMMA NobodyLimited ==
    ASSUME LimitedHasCause, spent \subseteq spent',
           \A r \in Requests : pc'[r] = "limited" => pc[r] = "limited"
    PROVE  LimitedHasCause'
BY CauseStays DEF LimitedHasCause, Rivals, Capacity, Key, Subject

\* Who finds an empty bucket has others to blame for it.
LEMMA DenialHasCause ==
    ASSUME TypeOK, \A k \in Keys : Balanced(k), NEW r \in Requests, NEW l \in Layers,
           <<r, l>> \notin spent, left[Key(r, l)] = 0
    PROVE  Cardinality(Rivals(r, l)) >= Capacity(l)
<1>1. Key(r, l) \in Keys /\ Key(r, l)[1] = l
  BY KeysOfRequests
<1>2. Rivals(r, l) = Payers(Key(r, l))
  BY <1>1 DEF Rivals, Payers
<1>3. Capacity(l) <= 0 + Cardinality(Payers(Key(r, l)))
  BY <1>1 DEF Balanced
<1>4. QED
  BY <1>2, <1>3, PayersFinite, Capacities

LEMMA BucketInvHolds == Spec => []BucketInv
<1>1. Init /\ PaymentInv => BucketInv
  <2> SUFFICES ASSUME Init, PaymentInv, NEW k \in Keys PROVE Balanced(k)
    BY DEF Init, BucketInv, LimitedHasCause
  <2>1. Payers(k) = {}
    BY DEF Init, Payers
  <2>2. Cardinality(Payers(k)) = 0 /\ Capacity(k[1]) \in Nat
    BY <2>1, FS_EmptySet, Capacities, LayersOfKeys
  <2>3. QED
    BY <2>2 DEF Init, Balanced
<1>2. BucketInv /\ [Next]_vars /\ PaymentInv' => BucketInv'
  <2> SUFFICES ASSUME BucketInv, [Next]_vars, PaymentInv' PROVE BucketInv'
    OBVIOUS
  <2>0. /\ TypeOK /\ LimitedHasCause /\ \A k \in Keys : Balanced(k)
        /\ pc \in [Requests -> Locations] /\ op \in [Requests -> [Layers -> Operation]]
        /\ \A q \in Requests : Paying(q)
    BY DEF BucketInv, PaymentInv, TypeOK
  <2>1. ASSUME UNCHANGED <<left, spent, refilled>> PROVE \A k \in Keys : Balanced(k)'
    BY <2>0, <2>1 DEF Balanced, Capacity, Payers, Key, Subject
  <2>2. ASSUME NEW r \in Requests, NEW l \in Layers, Answers(r, l) PROVE BucketInv'
    <3>1. <<r, l>> \notin spent /\ UNCHANGED refilled
      BY <2>0, <2>2 DEF Answers, Paying
    <3>2. CASE Take(r, l) /\ Resolve(r, l, "allowed")
      <4>1. \A q \in Requests : pc'[q] = "limited" => pc[q] = "limited"
        BY <2>0, <3>2 DEF Resolve, Join, Goto
      <4>2. spent \subseteq spent'
        BY <3>2 DEF Take
      <4>3. QED
        BY <2>0, <3>1, <3>2, <4>1, <4>2, TakeBalances, NobodyLimited DEF BucketInv
    <3>3. CASE /\ left[Key(r, l)] = 0 /\ Resolve(r, l, "denied")
               /\ UNCHANGED <<left, spent>>
      <4>1. \A q \in Requests \ {r} : pc'[q] = pc[q]
        BY <2>0, <3>3 DEF Resolve, Join, Goto
      <4>2. Cardinality(Rivals(r, l)) >= Capacity(l)
        BY <2>0, <3>1, <3>3, DenialHasCause
      <4>3. LimitedHasCause'
        <5>1. Rivals(r, l)' = Rivals(r, l)
          BY <3>3 DEF Rivals, Key, Subject
        <5>2. \A q \in Requests : pc'[q] = "limited" =>
                 \E k \in Layers : Cardinality(Rivals(q, k)') >= Capacity(k)
          BY <2>0, <3>3, <4>1, <4>2, <5>1, CauseStays
        <5>3. QED
          BY <5>2 DEF LimitedHasCause, Rivals, Capacity, Key, Subject
      <4>4. QED
        BY <2>1, <3>1, <3>3, <4>3 DEF BucketInv
    <3>4. QED
      BY <2>2, <3>2, <3>3 DEF Answers
  <2>3. ASSUME NEW r \in Requests, NEW l \in Layers, Fails(r, l) \/ Straggles(r, l)
        PROVE  BucketInv'
    <3>1. <<r, l>> \notin spent /\ UNCHANGED refilled
      BY <2>0, <2>3 DEF Fails, Straggles, Paying
    <3>2. \A q \in Requests : pc'[q] = "limited" => pc[q] = "limited"
      BY <2>0, <2>3 DEF Fails, Straggles, Failure, FailOpen, Resolve, Join, Goto
    <3>3. Take(r, l) \/ UNCHANGED <<left, spent>>
      BY <2>3 DEF Fails, Straggles
    <3>4. spent \subseteq spent'
      BY <3>3 DEF Take
    <3>5. \A k \in Keys : Balanced(k)'
      BY <2>0, <2>1, <3>1, <3>3, TakeBalances
    <3>6. QED
      BY <2>0, <3>2, <3>4, <3>5, NobodyLimited DEF BucketInv
  <2>4. ASSUME NEW r \in Requests, NEW l \in Layers, TimesOut(r, l) PROVE BucketInv'
    <3>1. \A q \in Requests : pc'[q] = "limited" => pc[q] = "limited"
      BY <2>0, <2>4 DEF TimesOut, Failure, FailOpen, Join, Goto
    <3>2. QED
      BY <2>0, <2>1, <2>4, <3>1, NobodyLimited DEF TimesOut, BucketInv
  <2>5. ASSUME NEW r \in Requests, Check(r) \/ Verify(r) \/ VerifyFails(r)
        PROVE  BucketInv'
    <3>1. \A q \in Requests : pc'[q] = "limited" => pc[q] = "limited"
      BY <2>0, <2>5 DEF Check, Verify, VerifyFails, Goto
    <3>2. UNCHANGED <<left, spent, refilled>>
      BY <2>5 DEF Check, Verify, VerifyFails
    <3>3. QED
      BY <2>0, <2>1, <3>1, <3>2, NobodyLimited DEF BucketInv
  <2>6. ASSUME NEW k \in Keys, Refill(k) PROVE BucketInv'
    <3>1. UNCHANGED <<pc, spent>>
      BY <2>6 DEF Refill
    <3>2. PICK n \in 1..Limit[k[1]] :
             /\ left[k] < Capacity(k[1])
             /\ left' = [left EXCEPT ![k] = Least(@ + n, Capacity(k[1]))]
             /\ refilled' = [refilled EXCEPT ![k] = @ + n]
      BY <2>6 DEF Refill
    <3>3. \A j \in Keys : Payers(j)' = Payers(j)
      BY <3>1 DEF Payers, Key, Subject
    <3>4. \A j \in Keys \ {k} : Balanced(j)'
      BY <2>0, <3>2, <3>3 DEF Balanced, Capacity, TypeOK
    <3>5. Balanced(k)'
      <4>1. /\ left[k] \in Nat /\ refilled[k] \in Nat /\ n \in Nat
            /\ Capacity(k[1]) \in Nat /\ Cardinality(Payers(k)) \in Nat
        BY <2>0, <3>2, Capacities, LayersOfKeys, PayersFinite DEF TypeOK
      <4>2. /\ left'[k] = Least(left[k] + n, Capacity(k[1]))
            /\ refilled'[k] = refilled[k] + n
        BY <2>0, <3>2 DEF TypeOK
      <4>3. left[k] <= left'[k] /\ left'[k] <= left[k] + n /\ left'[k] \in Nat
        BY <3>2, <4>1, <4>2 DEF Least
      <4>4. Balanced(k)
        BY <2>0
      <4>5. QED
        BY <3>3, <4>1, <4>2, <4>3, <4>4 DEF Balanced, Capacity
    <3>6. QED
      BY <2>0, <3>1, <3>4, <3>5, NobodyLimited DEF BucketInv
  <2>7. ASSUME UNCHANGED <<pc, left, spent, refilled>> PROVE BucketInv'
    BY <2>0, <2>1, <2>7, NobodyLimited DEF BucketInv
  <2>8. QED
    BY <2>2, <2>3, <2>4, <2>5, <2>6, <2>7
    DEF Next, Operate, Expire, Quiet, vars, HalfOpens, Shutdown
<1>3. QED
  BY <1>1, <1>2, PaymentInvHolds, PTL DEF Spec

\* A request is limited only where others of its key took all the tokens.
THEOREM LimitsHaveCauses == Spec => []LimitedHasCause
BY BucketInvHolds, PTL DEF BucketInv

\* A layer lets no more requests of one person through than its capacity and what
\* time gave back.
THEOREM QuotasHold == Spec => []AdmissionsWithinQuota
<1>1. BucketInv => AdmissionsWithinQuota
  <2> SUFFICES ASSUME BucketInv, NEW r \in Requests, NEW l \in Layers
               PROVE  Cardinality({s \in Requests : pc[s] \in {"verify", "admitted"}
                                                    /\ Subject(s)[l] = Subject(r)[l]})
                        <= Capacity(l) + refilled[Key(r, l)]
    BY DEF AdmissionsWithinQuota, Person, Subject, Key
  <2> DEFINE through == {s \in Requests : pc[s] \in {"verify", "admitted"}
                                          /\ Subject(s)[l] = Subject(r)[l]}
             key == Key(r, l)
  <2>1. key \in Keys /\ key[1] = l
    BY KeysOfRequests
  <2>2. through \subseteq Payers(key)
    BY <2>1 DEF BucketInv, PaymentInv, Paying, Passed, Payers, Key
  <2>3. Cardinality(through) <= Cardinality(Payers(key)) /\ Cardinality(through) \in Nat
    BY <2>2, PayersFinite, FS_Subset, FS_CardinalityType
  <2>4. /\ left[key] + Cardinality(Payers(key)) <= Capacity(l) + refilled[key]
        /\ left[key] \in Nat /\ refilled[key] \in Nat /\ Capacity(l) \in Nat
        /\ Cardinality(Payers(key)) \in Nat
    BY <2>1, Capacities, PayersFinite DEF BucketInv, PaymentInv, TypeOK, Balanced
  <2> HIDE DEF through, key
  <2>5. Cardinality(through) <= Capacity(l) + refilled[key]
    BY <2>3, <2>4
  <2>6. QED
    BY <2>5 DEF through, key
<1>2. QED
  BY <1>1, BucketInvHolds, PTL

------------------------------------------------------------------------------
(* The probe of the half-open breaker.                                      *)

Running == {o \in Requests \X Layers : op[o[1]][o[2]] = "running"}

ProbeInv ==
    /\ PaymentInv
    /\ probing => breaker = "halfOpen"
    /\ breaker = "halfOpen" /\ probing => \E o : Running = {o}
    /\ breaker = "halfOpen" /\ ~probing => Running = {}

LEMMA ProbeInvHolds == Spec => []ProbeInv
<1>1. Init /\ PaymentInv => ProbeInv
  BY DEF Init, ProbeInv
<1>2. ProbeInv /\ [Next]_vars /\ PaymentInv' => ProbeInv'
  <2> SUFFICES ASSUME ProbeInv, [Next]_vars, PaymentInv' PROVE ProbeInv'
    OBVIOUS
  <2>0. /\ op \in [Requests -> [Layers -> Operation]] /\ probing \in BOOLEAN
        /\ \A q \in Requests : Paying(q)
    BY DEF ProbeInv, PaymentInv, TypeOK
  <2>1. ASSUME NEW r \in Requests, Check(r) PROVE ProbeInv'
    <3>1. /\ \A l \in Layers : op[r][l] = "none"
          /\ \A l \in Layers : op'[r][l] = IF l \in Fires THEN "running" ELSE "done"
          /\ \A q \in Requests \ {r} : op'[q] = op[q]
      BY <2>0, <2>1 DEF Check, Paying
    <3>2. UNCHANGED breaker
      BY <2>1 DEF Check
    <3>3. CASE breaker = "halfOpen" /\ ~probing
      <4>1. Fires = {"ip"}
        BY <3>3, LayersAssumption DEF Fires
      <4>2. Running = {}
        BY <3>3 DEF ProbeInv
      <4>3. Running' = {<<r, "ip">>}
        <5>1. <<r, "ip">> \in Running'
          BY <3>1, <4>1, LayersAssumption DEF Running
        <5>2. ASSUME NEW o \in Running' PROVE o = <<r, "ip">>
          <6>1. /\ o = <<o[1], o[2]>> /\ o[1] \in Requests /\ o[2] \in Layers
                /\ op'[o[1]][o[2]] = "running"
            BY DEF Running
          <6>2. o[1] = r
            BY <3>1, <4>2, <6>1 DEF Running
          <6>3. o[2] = "ip"
            BY <3>1, <4>1, <6>1, <6>2
          <6>4. QED
            BY <6>1, <6>2, <6>3
        <5>3. QED
          BY <5>1, <5>2
      <4>4. probing'
        BY <2>1, <3>3, <4>1 DEF Check
      <4>5. QED
        BY <3>2, <3>3, <4>3, <4>4 DEF ProbeInv
    <3>4. CASE breaker = "halfOpen" /\ probing
      <4>1. Fires = {}
        BY <3>4 DEF Fires
      <4>2. Running' = Running
        BY <3>1, <4>1 DEF Running
      <4>3. probing'
        BY <2>1, <3>4 DEF Check
      <4>4. QED
        BY <3>2, <3>4, <4>2, <4>3 DEF ProbeInv
    <3>5. CASE breaker # "halfOpen"
      BY <2>1, <3>2, <3>5 DEF Check, ProbeInv
    <3>6. QED
      BY <3>3, <3>4, <3>5
  <2>2. ASSUME NEW r \in Requests, NEW l \in Layers,
               Answers(r, l) \/ Fails(r, l) \/ TimesOut(r, l)
        PROVE  ProbeInv'
    <3>1. breaker' # "halfOpen" /\ probing' = FALSE
      BY <2>2 DEF Answers, Fails, TimesOut, Succeed, Trip
    <3>2. QED
      BY <3>1 DEF ProbeInv
  <2>3. ASSUME NEW r \in Requests, NEW l \in Layers, Straggles(r, l) PROVE ProbeInv'
    <3>1. Running' = Running
      BY <2>0, <2>3 DEF Straggles, Running
    <3>2. QED
      BY <2>3, <3>1 DEF Straggles, ProbeInv
  <2>4. CASE HalfOpens
    <3>1. ~probing /\ UNCHANGED probing /\ breaker' = "halfOpen"
      BY <2>4 DEF HalfOpens, ProbeInv
    <3>2. Running' = {}
      BY <2>4 DEF HalfOpens, Running
    <3>3. QED
      BY <3>1, <3>2 DEF ProbeInv
  <2>5. CASE Shutdown
    BY <2>5 DEF Shutdown, ProbeInv
  <2>6. ASSUME UNCHANGED <<op, breaker, probing>> PROVE ProbeInv'
    BY <2>6 DEF ProbeInv, Running
  <2>7. QED
    BY <2>1, <2>2, <2>3, <2>4, <2>5, <2>6
    DEF Next, Operate, Expire, Quiet, vars, Verify, VerifyFails, Refill
<1>3. QED
  BY <1>1, <1>2, PaymentInvHolds, PTL DEF Spec

\* A recovering Redis has one operation to answer at a time.
THEOREM ProbesAlone == Spec => []OneProbe
<1>1. ProbeInv => OneProbe
  <2> SUFFICES ASSUME ProbeInv, breaker = "halfOpen"
               PROVE  Cardinality(Running) = IF probing THEN 1 ELSE 0
    BY DEF OneProbe, Running
  <2>1. CASE probing
    BY <2>1, FS_Singleton DEF ProbeInv
  <2>2. CASE ~probing
    BY <2>2, FS_EmptySet DEF ProbeInv
  <2>3. QED
    BY <2>1, <2>2
<1>2. QED
  BY <1>1, ProbeInvHolds, PTL

------------------------------------------------------------------------------
(* reCAPTCHA.                                                               *)

\* The token of an admitted request is used up.
Redeemed(r) == pc[r] = "admitted" => Message[r].token \in redeemed

VouchingInv == TypeOK /\ VouchedOnce /\ \A r \in Requests : Redeemed(r)

\* Who is admitted otherwise than by Verify was admitted before.
LEMMA NobodyAdmitted ==
    ASSUME VouchingInv, TypeOK', redeemed \subseteq redeemed',
           \A r \in Requests : pc'[r] = "admitted" => pc[r] = "admitted"
    PROVE  VouchingInv'
BY DEF VouchingInv, VouchedOnce, Redeemed

LEMMA VouchingInvHolds == Spec => []VouchingInv
<1>1. Init /\ TypeOK => VouchingInv
  BY DEF Init, VouchingInv, VouchedOnce, Redeemed
<1>2. VouchingInv /\ [Next]_vars /\ TypeOK' => VouchingInv'
  <2> SUFFICES ASSUME VouchingInv, [Next]_vars, TypeOK' PROVE VouchingInv'
    OBVIOUS
  <2>0. pc \in [Requests -> Locations]
    BY DEF VouchingInv, TypeOK
  <2>1. ASSUME NEW r \in Requests, Check(r) PROVE VouchingInv'
    <3>1. \A q \in Requests : pc'[q] = "admitted" => pc[q] = "admitted"
      BY <2>0, <2>1 DEF Check, Goto
    <3>2. QED
      BY <2>1, <3>1, NobodyAdmitted DEF Check
  <2>2. ASSUME NEW r \in Requests, NEW l \in Layers,
               Answers(r, l) \/ Fails(r, l) \/ TimesOut(r, l) \/ Straggles(r, l)
        PROVE  VouchingInv'
    <3>1. \A q \in Requests : pc'[q] = "admitted" => pc[q] = "admitted"
      BY <2>0, <2>2 DEF Answers, Fails, TimesOut, Straggles, Resolve, Join, Goto
    <3>2. UNCHANGED redeemed
      BY <2>2 DEF Answers, Fails, TimesOut, Straggles
    <3>3. QED
      BY <3>1, <3>2, NobodyAdmitted
  <2>3. ASSUME NEW r \in Requests, Verify(r) PROVE VouchingInv'
    <3>1. /\ redeemed' = redeemed \cup {Message[r].token}
          /\ \A q \in Requests \ {r} : pc'[q] = pc[q]
      BY <2>0, <2>3 DEF Verify, Goto
    <3>2. CASE Accepts(Assess(Message[r].token)) /\ Goto(r, "admitted")
      <4>1. /\ Assessment[Message[r].token].success
            /\ Assessment[Message[r].token].action = "quote_submit"
            /\ Assessment[Message[r].token].hostname \in Hostnames
            /\ Message[r].token \notin redeemed
        BY <3>2 DEF Accepts, Assess
      <4>2. \A q \in Requests \ {r} : pc[q] = "admitted" => Message[q].token # Message[r].token
        BY <4>1 DEF VouchingInv, Redeemed
      <4>3. VouchedOnce'
        BY <3>1, <4>1, <4>2 DEF VouchingInv, VouchedOnce
      <4>4. \A q \in Requests : Redeemed(q)'
        BY <3>1 DEF VouchingInv, Redeemed
      <4>5. QED
        BY <4>3, <4>4 DEF VouchingInv
    <3>3. CASE Goto(r, "forbidden")
      BY <2>0, <3>1, <3>3, NobodyAdmitted DEF Goto
    <3>4. QED
      BY <2>3, <3>2, <3>3 DEF Verify
  <2>4. ASSUME NEW r \in Requests, VerifyFails(r) PROVE VouchingInv'
    BY <2>0, <2>4, NobodyAdmitted DEF VerifyFails, Goto
  <2>5. ASSUME UNCHANGED <<pc, redeemed>> PROVE VouchingInv'
    BY <2>5, NobodyAdmitted
  <2>6. QED
    BY <2>1, <2>2, <2>3, <2>4, <2>5
    DEF Next, Operate, Expire, Quiet, vars, Refill, HalfOpens, Shutdown
<1>3. QED
  BY <1>1, <1>2, TypeCorrect, PTL DEF Spec

\* No two admitted requests used one token, and Google vouched for each.
THEOREM TokensVouchOnce == Spec => []VouchedOnce
BY VouchingInvHolds, PTL DEF VouchingInv

------------------------------------------------------------------------------
(* The gate.                                                                *)

\* A request pays from its person's purse.
LEMMA PurseIsKey ==
    ASSUME NEW r \in Requests, NEW l \in Layers
    PROVE  PurseOf[r][l] = Key(r, l)
BY DEF PurseOf, Person, Key, Subject

\* A request that is still undecided has no verdict, and one that comes to rest
\* gets its own.
LEMMA VerdictStays ==
    ASSUME TypeOK,
           \A r \in Requests : pc'[r] = pc[r] \/ {pc[r], pc'[r]} \cap Settled = {}
    PROVE  UNCHANGED Verdict
BY DEF Verdict

LEMMA VerdictFalls ==
    ASSUME TypeOK, NEW r \in Requests, NEW v \in Settled, pc[r] \notin Settled, Goto(r, v)
    PROVE  Gate!Decide(r, v)
<1>1. pc' = [pc EXCEPT ![r] = v] /\ pc \in [Requests -> Locations]
  BY DEF Goto, TypeOK
<1>2. Verdict[r] = "undecided"
  BY DEF Verdict
<1>3. Verdict' = [Verdict EXCEPT ![r] = v]
  BY <1>1 DEF Verdict
<1>4. QED
  BY <1>2, <1>3 DEF Gate!Decide, Gate!Undecided

\* How one operation's end shows at the gate: not at all, or as the verdict of a
\* request that was still being checked.
LEMMA JoinShows ==
    ASSUME TypeOK, NEW r \in Requests, NEW l \in Layers, NEW outcome, Join(r, l, outcome)
    PROVE  \/ UNCHANGED Verdict
           \/ outcome = "denied" /\ Gate!Decide(r, "limited")
           \/ outcome = "failed" /\ Gate!Decide(r, "unavailable")
<1>1. CASE UNCHANGED pc
  BY <1>1 DEF Verdict
<1>2. CASE pc[r] = "checking" /\ Goto(r, "verify")
  <2>1. \A q \in Requests : pc'[q] = pc[q] \/ {pc[q], pc'[q]} \cap Settled = {}
    BY <1>2 DEF TypeOK, Goto, Settled, Refusals
  <2>2. QED
    BY <2>1, VerdictStays
<1>3. CASE pc[r] = "checking" /\ outcome = "denied" /\ Goto(r, "limited")
  BY <1>3, VerdictFalls DEF Settled, Refusals
<1>4. CASE pc[r] = "checking" /\ outcome = "failed" /\ Goto(r, "unavailable")
  BY <1>4, VerdictFalls DEF Settled, Refusals
<1>5. QED
  BY <1>1, <1>2, <1>3, <1>4 DEF Join

\* Redis takes the token of an operation that has not paid yet: the gate's Pay.
LEMMA TakePays ==
    ASSUME PaymentInv, NEW r \in Requests, NEW l \in Layers,
           op[r][l] \in {"running", "late"}, Take(r, l), UNCHANGED redeemed,
           UNCHANGED Verdict \/ Gate!Decide(r, "unavailable")
    PROVE  Gate!Pay(r, l)
<1>1. <<r, l>> \notin spent
  BY DEF PaymentInv, Paying
<1>2. QED
  BY <1>1, PurseIsKey DEF Gate!Pay, Take

\* Google's answer to a request that paid every layer: the gate's Judge.
LEMMA VerifyJudges ==
    ASSUME PaymentInv, NEW r \in Requests, Verify(r)
    PROVE  Gate!Judge(r)
<1> DEFINE token == Message[r].token
<1>1. \A l \in Layers : <<r, l>> \in spent
  BY DEF PaymentInv, Paying, Passed, Verify
<1>2. Accepts(Assess(token)) <=> token \in Genuine \ redeemed
  BY DEF Accepts, Assess, Genuine, Tokens
<1>3. pc[r] \notin Settled /\ TypeOK
  BY DEF Verify, Settled, Refusals, PaymentInv
<1>4. Gate!Decide(r, IF token \in Genuine \ redeemed THEN "admitted" ELSE "forbidden")
  BY <1>2, <1>3, VerdictFalls DEF Verify, Settled, Refusals
<1>5. Gate!Show(r) /\ UNCHANGED <<left, spent>>
  BY DEF Gate!Show, Verify
<1>6. QED
  BY <1>1, <1>4, <1>5 DEF Gate!Judge

\* A verification without an answer: the gate gives up, and the token may be gone.
LEMMA LostAnswerGivesUp ==
    ASSUME PaymentInv, NEW r \in Requests, VerifyFails(r)
    PROVE  Gate!GiveUp(r)
<1>1. \A l \in Layers : <<r, l>> \in spent
  BY DEF PaymentInv, Paying, Passed, VerifyFails
<1>2. Gate!Decide(r, "unavailable")
  BY VerdictFalls DEF VerifyFails, Settled, Refusals, PaymentInv
<1>3. UNCHANGED redeemed \/ Gate!Show(r)
  BY DEF VerifyFails, Gate!Show
<1>4. QED
  BY <1>1, <1>2, <1>3 DEF VerifyFails, Gate!GiveUp

\* A bucket is filled up, by some amount and not beyond what it can hold.
LEMMA RefillFills ==
    ASSUME TypeOK, NEW k \in Keys, Refill(k)
    PROVE  Gate!Refill(k)
<1>1. PICK n \in 1..Limit[k[1]] :
          /\ left[k] < Capacity(k[1])
          /\ left' = [left EXCEPT ![k] = Least(@ + n, Capacity(k[1]))]
          /\ UNCHANGED <<pc, redeemed, spent>>
  BY DEF Refill
<1>2. left[k] \in Nat /\ Capacity(k[1]) \in Nat /\ Limit[k[1]] \in Nat
  BY LayersOfKeys, Capacities DEF TypeOK
<1>3. Least(left[k] + n, Capacity(k[1])) \in (left[k] + 1)..Capacity(k[1])
  BY <1>1, <1>2 DEF Least
<1>4. left' = [left EXCEPT ![k] = Least(left[k] + n, Capacity(k[1]))]
  BY <1>1 DEF TypeOK
<1>5. UNCHANGED Verdict
  BY <1>1 DEF Verdict
<1>6. QED
  BY <1>1, <1>3, <1>4, <1>5 DEF Gate!Refill

\* Admission implements the gate: from each state it can reach, every step of an
\* operation, of the breaker, of Google or of time is one step of the gate or none.
THEOREM GateImplemented == Spec => ImplementsGate
<1>1. Init => Gate!Init
  BY DEF Init, Gate!Init, Verdict, Settled, Refusals
<1>2. PaymentInv /\ [Next]_vars => [Gate!Next]_(Gate!vars)
  <2> SUFFICES ASSUME PaymentInv, [Next]_vars PROVE [Gate!Next]_(Gate!vars)
    OBVIOUS
  <2>0. TypeOK /\ pc \in [Requests -> Locations]
    BY DEF PaymentInv, TypeOK
  <2>1. ASSUME UNCHANGED <<Verdict, left, spent, redeemed>>
        PROVE  [Gate!Next]_(Gate!vars)
    BY <2>1 DEF Gate!vars
  <2>2. ASSUME NEW r \in Requests,
               \/ Gate!Judge(r) \/ Gate!Refuse(r) \/ Gate!GiveUp(r)
               \/ \E l \in Layers : Gate!Pay(r, l)
        PROVE  [Gate!Next]_(Gate!vars)
    BY <2>2 DEF Gate!Next
  <2>3. ASSUME NEW r \in Requests, Gate!Decide(r, "unavailable"),
               UNCHANGED <<left, spent, redeemed>>
        PROVE  [Gate!Next]_(Gate!vars)
    BY <2>3, <2>2 DEF Gate!GiveUp
  <2>4. ASSUME NEW r \in Requests, Check(r) PROVE [Gate!Next]_(Gate!vars)
    <3>1. pc[r] = "idle" /\ UNCHANGED <<left, spent, redeemed>>
      BY <2>4 DEF Check
    <3>2. CASE Goto(r, "checking")
      <4>1. \A q \in Requests : pc'[q] = pc[q] \/ {pc[q], pc'[q]} \cap Settled = {}
        BY <2>0, <3>1, <3>2 DEF Goto, Settled, Refusals
      <4>2. QED
        BY <2>0, <2>1, <3>1, <4>1, VerdictStays
    <3>3. CASE Goto(r, "unavailable")
      BY <2>0, <2>3, <3>1, <3>3, VerdictFalls DEF Settled, Refusals
    <3>4. QED
      BY <2>4, <3>2, <3>3 DEF Check, FailOpen
  <2>5. ASSUME NEW r \in Requests, NEW l \in Layers, Answers(r, l)
        PROVE  [Gate!Next]_(Gate!vars)
    <3>1. op[r][l] = "running" /\ UNCHANGED redeemed
      BY <2>5 DEF Answers
    <3>2. CASE Take(r, l) /\ Resolve(r, l, "allowed")
      <4>1. UNCHANGED Verdict
        BY <2>0, <3>2, JoinShows DEF Resolve
      <4>2. QED
        BY <2>2, <3>1, <3>2, <4>1, TakePays
    <3>3. CASE left[Key(r, l)] = 0 /\ Resolve(r, l, "denied") /\ UNCHANGED <<left, spent>>
      <4>1. UNCHANGED Verdict \/ Gate!Decide(r, "limited")
        BY <2>0, <3>3, JoinShows DEF Resolve
      <4>2. <<r, l>> \notin spent /\ left[PurseOf[r][l]] = 0
        BY <3>1, <3>3, PurseIsKey DEF PaymentInv, Paying
      <4>3. Gate!Decide(r, "limited") => Gate!Refuse(r)
        BY <3>1, <3>3, <4>2 DEF Gate!Refuse
      <4>4. QED
        BY <2>1, <2>2, <3>1, <3>3, <4>1, <4>3
    <3>4. QED
      BY <2>5, <3>2, <3>3 DEF Answers
  <2>6. ASSUME NEW r \in Requests, NEW l \in Layers, Fails(r, l)
        PROVE  [Gate!Next]_(Gate!vars)
    <3>1. /\ op[r][l] = "running" /\ UNCHANGED redeemed
          /\ Take(r, l) \/ UNCHANGED <<left, spent>>
      BY <2>6 DEF Fails
    <3>2. UNCHANGED Verdict \/ Gate!Decide(r, "unavailable")
      BY <2>0, <2>6, JoinShows DEF Fails, Resolve, Failure, FailOpen
    <3>3. QED
      BY <2>1, <2>2, <2>3, <3>1, <3>2, TakePays
  <2>7. ASSUME NEW r \in Requests, NEW l \in Layers, TimesOut(r, l)
        PROVE  [Gate!Next]_(Gate!vars)
    <3>1. UNCHANGED Verdict \/ Gate!Decide(r, "unavailable")
      BY <2>0, <2>7, JoinShows DEF TimesOut, Failure, FailOpen
    <3>2. QED
      BY <2>1, <2>3, <2>7, <3>1 DEF TimesOut
  <2>8. ASSUME NEW r \in Requests, NEW l \in Layers, Straggles(r, l)
        PROVE  [Gate!Next]_(Gate!vars)
    <3>1. op[r][l] = "late" /\ Take(r, l) /\ UNCHANGED <<pc, redeemed>>
      BY <2>8 DEF Straggles
    <3>2. UNCHANGED Verdict
      BY <3>1 DEF Verdict
    <3>3. QED
      BY <2>2, <3>1, <3>2, TakePays
  <2>9. ASSUME NEW r \in Requests, Verify(r) \/ VerifyFails(r)
        PROVE  [Gate!Next]_(Gate!vars)
    BY <2>9, <2>2, VerifyJudges, LostAnswerGivesUp
  <2>10. ASSUME NEW k \in Keys, Refill(k) PROVE [Gate!Next]_(Gate!vars)
    BY <2>0, <2>10, RefillFills DEF Gate!Next
  <2>11. ASSUME UNCHANGED <<pc, left, spent, redeemed>>
         PROVE  [Gate!Next]_(Gate!vars)
    BY <2>11, <2>1 DEF Verdict
  <2>12. QED
    BY <2>4, <2>5, <2>6, <2>7, <2>8, <2>9, <2>10, <2>11
    DEF Next, Operate, Expire, Quiet, vars, HalfOpens, Shutdown
<1>3. QED
  BY <1>1, <1>2, PaymentInvHolds, PTL DEF Spec, ImplementsGate, Gate!Spec
==============================================================================
