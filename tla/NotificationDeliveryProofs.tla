---------------------- MODULE NotificationDeliveryProofs ----------------------
(* Theorems about NotificationDelivery, for every value of its constants.  *)
EXTENDS NotificationDelivery, TLAPS

USE DEF redis, mongo, history

------------------------------------------------------------------------------
(* Types, and what a handler's locals say of its progress.                 *)

\* Where an attempt stands, its pass, its mails and its result agree.  An
\* attempt that is about to send has failed every time before in this delivery,
\* at most once; one whose delivery was reported is past sending for good.
Progress(a) ==
    /\ pc[a] \in {"idle", "exists", "lock", "limit"} => mails[a] = 0
    /\ pc[a] \in {"compile", "record", "send"} => mails[a] < pass[a]
    /\ pc[a] = "status" => mails[a] <= pass[a]
    /\ pc[a] \in {"flag", "commit"} => result[a] = "delivered"
    /\ result[a] = "delivered" => a \in reported
    /\ a \in reported =>
          pc[a] \in {"status", "flag", "commit", "cleanup", "respond", "done", "crashed"}
    /\ a \in reported /\ pc[a] = "status" => result[a] = "delivered"

\* No attempt runs that Cloud Tasks has not begun.
Begun == \A a \in Attempts : a[2] > tries[a[1]] => pc[a] = "idle"

HandlerInv == TypeOK /\ Begun /\ \A a \in Attempts : Progress(a)

\* What another attempt does is nothing to this one's progress.
LEMMA ProgressFrame ==
    ASSUME NEW b \in Attempts, Progress(b),
           pc'[b] = pc[b], pass'[b] = pass[b], mails'[b] = mails[b],
           result'[b] = result[b], b \in reported' <=> b \in reported
    PROVE  Progress(b)'
BY DEF Progress

\* A step of one attempt that leaves tries alone and keeps the types needs to be
\* looked at for that attempt only.
LEMMA OneAttempt ==
    ASSUME HandlerInv, NEW a \in Attempts, TypeOK', Progress(a)', pc[a] # "idle",
           UNCHANGED tries,
           \A b \in Attempts \ {a} :
              /\ pc'[b] = pc[b] /\ pass'[b] = pass[b] /\ mails'[b] = mails[b]
              /\ result'[b] = result[b] /\ (b \in reported' <=> b \in reported)
    PROVE  HandlerInv'
<1>1. \A b \in Attempts : Progress(b)'
  BY ProgressFrame DEF HandlerInv
<1>2. Begun'
  BY DEF HandlerInv, Begun
<1>3. QED
  BY <1>1, <1>2 DEF HandlerInv

\* Every kind of step keeps types, locals and counters consistent.
LEMMA HandlerInvHolds == Spec => []HandlerInv
<1>1. Init => HandlerInv
  BY AttemptsAssumption DEF Init, HandlerInv, TypeOK, Begun, Progress, Locations
<1>2. HandlerInv /\ [Next]_vars => HandlerInv'
  <2> SUFFICES ASSUME HandlerInv, [Next]_vars PROVE HandlerInv'
    OBVIOUS
  <2> USE DEF Locations, Downstream, Goto, Mark, Notification, Task
  <2>a. /\ TypeOK /\ Begun
        /\ \A a \in Attempts :
              /\ a[1] \in Tasks /\ a[2] \in 1 .. MaxAttempts
              /\ Progress(a)
              /\ MarkOf[a[1]] \in Marks /\ NotificationOf[a[1]] \in Notifications
    BY TaskAssumption DEF HandlerInv, Attempts
  <2>1. ASSUME NEW t \in Tasks, Deliver(t) PROVE HandlerInv'
    <3> DEFINE n == <<t, tries[t] + 1>>
    <3>1. n \in Attempts /\ pc[n] = "idle" /\ tries[t] \in Nat
      <4>1. tries[t] \in 0 .. MaxAttempts /\ tries[t] < MaxAttempts
        BY <2>a, <2>1 DEF TypeOK, Deliver
      <4>2. n \in Attempts
        BY <4>1, AttemptsAssumption DEF Attempts
      <4>3. QED
        BY <2>a, <4>1, <4>2, AttemptsAssumption DEF Begun
    <3>2. pc' = [pc EXCEPT ![n] = IF t \in Invalid THEN "respond" ELSE "exists"]
      BY <2>1 DEF Deliver
    <3>3. TypeOK'
      BY <2>1, <2>a, <3>1, AttemptsAssumption DEF TypeOK, Deliver
    <3>4. Begun'
      BY <2>1, <2>a, <3>1, <3>2, AttemptsAssumption DEF TypeOK, Begun, Deliver, Attempts
    <3>5. \A a \in Attempts : Progress(a)'
      <4>1. pc' \in [Attempts -> Locations] /\ pc'[n] \in {"respond", "exists"}
        BY <2>a, <3>1, <3>2, <3>3 DEF TypeOK
      <4>2. UNCHANGED <<pass, mails, result, reported>>
        BY <2>1 DEF Deliver
      <4>3. ASSUME NEW a \in Attempts, a = n PROVE Progress(a)'
        <5>1. mails[a] = 0 /\ a \notin reported /\ result[a] # "delivered"
          BY <2>a, <3>1, <4>3 DEF Progress
        <5>2. QED
          BY <4>1, <4>2, <4>3, <5>1 DEF Progress
      <4>4. ASSUME NEW a \in Attempts, a # n PROVE Progress(a)'
        <5>1. pc'[a] = pc[a]
          BY <2>a, <3>2, <4>4 DEF TypeOK
        <5>2. QED
          BY <2>a, <4>2, <4>4, <5>1 DEF Progress
      <4>5. QED
        BY <4>3, <4>4
    <3>6. QED
      BY <3>3, <3>4, <3>5 DEF HandlerInv
  <2>2. ASSUME NEW t \in Tasks, Deadline(t) \/ GiveUp(t) PROVE HandlerInv'
    BY <2>2, <2>a DEF Deadline, GiveUp, HandlerInv, TypeOK, Begun, Progress, handler
  <2>3. ASSUME NEW a \in Attempts, CheckDelivered(a) \/ CheckFails(a) PROVE HandlerInv'
    <3>1. TypeOK'
      BY <2>3, <2>a DEF CheckDelivered, CheckFails, FailOpen, TypeOK
    <3>2. Progress(a)'
      BY <2>3, <2>a DEF CheckDelivered, CheckFails, FailOpen, TypeOK, Progress
    <3>3. QED
      BY <2>3, <2>a, <3>1, <3>2, OneAttempt
         DEF CheckDelivered, CheckFails, FailOpen, TypeOK
  <2>4. ASSUME NEW a \in Attempts, AcquireLock(a) \/ AcquireLockFails(a)
        PROVE  HandlerInv'
    <3>1. TypeOK'
      <4>1. CASE AcquireLock(a)
        <5>1. lock' \in [Marks -> Attempts \cup {None}] /\ holds' \in [Attempts -> BOOLEAN]
          BY <4>1, <2>a DEF AcquireLock, TypeOK
        <5>2. pc' \in [Attempts -> Locations]
          BY <4>1, <2>a DEF AcquireLock, TypeOK
        <5>3. QED
          BY <4>1, <2>a, <5>1, <5>2 DEF AcquireLock, TypeOK
      <4>2. CASE AcquireLockFails(a)
        BY <4>2, <2>a DEF AcquireLockFails, FailOpen, TypeOK
      <4>3. QED
        BY <2>4, <4>1, <4>2
    <3>2. Progress(a)'
      BY <2>4, <2>a DEF AcquireLock, AcquireLockFails, FailOpen, TypeOK, Progress
    <3>3. QED
      BY <2>4, <2>a, <3>1, <3>2, OneAttempt
         DEF AcquireLock, AcquireLockFails, FailOpen, TypeOK
  <2>5. ASSUME NEW a \in Attempts, LimitPasses(a) \/ LimitExceeded(a) PROVE HandlerInv'
    <3>1. TypeOK'
      BY <2>5, <2>a DEF LimitPasses, LimitExceeded, TypeOK
    <3>2. Progress(a)'
      BY <2>5, <2>a DEF LimitPasses, LimitExceeded, TypeOK, Progress
    <3>3. QED
      BY <2>5, <2>a, <3>1, <3>2, OneAttempt
         DEF LimitPasses, LimitExceeded, TypeOK
  <2>5a. ASSUME NEW a \in Attempts, CompileTemplate(a) \/ CompileFails(a) PROVE HandlerInv'
    <3>1. TypeOK'
      BY <2>5a, <2>a DEF CompileTemplate, CompileFails, StageThrows, TypeOK
    <3>2. Progress(a)'
      BY <2>5a, <2>a DEF CompileTemplate, CompileFails, StageThrows, TypeOK, Progress
    <3>3. QED
      BY <2>5a, <2>a, <3>1, <3>2, OneAttempt
         DEF CompileTemplate, CompileFails, StageThrows, TypeOK
  <2>6. ASSUME NEW a \in Attempts, RecordAttempt(a) PROVE HandlerInv'
    <3>1. TypeOK'
      BY <2>6, <2>a DEF RecordAttempt, TypeOK
    <3>2. Progress(a)'
      BY <2>6, <2>a DEF RecordAttempt, TypeOK, Progress
    <3>3. QED
      BY <2>6, <2>a, <3>1, <3>2, OneAttempt DEF RecordAttempt, TypeOK
  <2>7. ASSUME NEW a \in Attempts, Send(a) \/ SendFails(a) PROVE HandlerInv'
    <3>1. TypeOK'
      <4>1. mails[a] + 1 \in 0 .. 2
        BY <2>7, <2>a DEF Send, SendFails, TypeOK, Progress
      <4>2. mails' \in [Attempts -> 0 .. 2]
        BY <2>7, <2>a, <4>1 DEF Send, SendFails, TypeOK
      <4>3. CASE Send(a)
        BY <4>3, <2>a, <4>2 DEF Send, TypeOK
      <4>4. CASE SendFails(a)
        BY <4>4, <2>a, <4>2 DEF SendFails, TypeOK
      <4>5. QED
        BY <2>7, <4>3, <4>4
    <3>2. Progress(a)'
      BY <2>7, <2>a DEF Send, SendFails, TypeOK, Progress
    <3>3. QED
      BY <2>7, <2>a, <3>1, <3>2, OneAttempt DEF Send, SendFails, TypeOK
  <2>8. ASSUME NEW a \in Attempts, RecordStatus(a) PROVE HandlerInv'
    <3>1. TypeOK'
      BY <2>8, <2>a DEF RecordStatus, StageThrows, TypeOK
    <3>2. Progress(a)'
      BY <2>8, <2>a DEF RecordStatus, StageThrows, TypeOK, Progress
    <3>3. QED
      BY <2>8, <2>a, <3>1, <3>2, OneAttempt
         DEF RecordStatus, StageThrows, TypeOK
  <2>9. ASSUME NEW a \in Attempts, RecordFlag(a) \/ RecordFails(a) PROVE HandlerInv'
    <3>1. TypeOK'
      BY <2>9, <2>a DEF RecordFlag, RecordFails, AfterError, StageThrows, TypeOK
    <3>2. Progress(a)'
      BY <2>9, <2>a
         DEF RecordFlag, RecordFails, AfterError, StageThrows, TypeOK, Progress
    <3>3. QED
      BY <2>9, <2>a, <3>1, <3>2, OneAttempt
         DEF RecordFlag, RecordFails, AfterError, StageThrows, TypeOK
  <2>10. ASSUME NEW a \in Attempts, CommitMark(a) PROVE HandlerInv'
    <3>1. TypeOK'
      BY <2>10, <2>a DEF CommitMark, TypeOK
    <3>2. Progress(a)'
      BY <2>10, <2>a DEF CommitMark, TypeOK, Progress
    <3>3. QED
      BY <2>10, <2>a, <3>1, <3>2, OneAttempt DEF CommitMark, TypeOK
  <2>11. ASSUME NEW a \in Attempts, Cleanup(a) PROVE HandlerInv'
    <3>1. TypeOK'
      BY <2>11, <2>a DEF Cleanup, Unlock, TypeOK
    <3>2. Progress(a)'
      BY <2>11, <2>a DEF Cleanup, Unlock, TypeOK, Progress
    <3>3. QED
      BY <2>11, <2>a, <3>1, <3>2, OneAttempt DEF Cleanup, Unlock, TypeOK
  <2>12. ASSUME NEW a \in Attempts, Respond(a) \/ Crash(a) PROVE HandlerInv'
    <3>1. End(a, "done") \/ End(a, "crashed")
      BY <2>12 DEF Respond, Crash
    <3>2. /\ pc[a] # "idle"
          /\ queue' \in [Tasks -> {"waiting", "running", "done", "dropped"}]
          /\ UNCHANGED <<tries, redis, mongo, mails, history>>
      BY <2>12, <2>a DEF Respond, Crash, Running, TypeOK
    <3>3. TypeOK'
      <4>1. pc' \in [Attempts -> Locations] /\ pass' \in [Attempts -> 1 .. 2]
        BY <2>a, <3>1 DEF End, TypeOK
      <4>2. /\ holds' \in [Attempts -> BOOLEAN]
            /\ result' \in [Attempts -> {"none", "delivered", "failed"}]
        BY <2>a, <3>1 DEF End, TypeOK
      <4>3. QED
        BY <2>a, <3>2, <4>1, <4>2 DEF TypeOK
    <3>4. Progress(a)'
      BY <2>a, <3>1, <3>2 DEF End, TypeOK, Progress
    <3>5. \A b \in Attempts \ {a} :
             pc'[b] = pc[b] /\ pass'[b] = pass[b] /\ result'[b] = result[b]
      BY <2>a, <3>1 DEF End, TypeOK
    <3>6. QED
      BY <3>2, <3>3, <3>4, <3>5, OneAttempt
  <2>13. ASSUME NEW m \in Marks, LockExpires(m) \/ WindowCloses(m) PROVE HandlerInv'
    BY <2>13, <2>a
       DEF LockExpires, WindowCloses, HandlerInv, TypeOK, Begun, Progress, handler
  <2>14. CASE UNCHANGED vars
    BY <2>14, <2>a DEF HandlerInv, TypeOK, Begun, Progress, vars, handler
  <2>15. QED
    BY <2>1, <2>2, <2>3, <2>4, <2>5, <2>5a, <2>6, <2>7, <2>8, <2>9, <2>10, <2>11,
       <2>12, <2>13, <2>14 DEF Next, Work, Fail, Quiet
<1>3. QED
  BY <1>1, <1>2, PTL DEF Spec

\* Every reachable state has the shape TypeOK describes; in particular no
\* attempt hands the provider more than two mails.
THEOREM TypeCorrect == Spec => []TypeOK
<1>1. HandlerInv => TypeOK
  BY DEF HandlerInv
<1>2. QED
  BY <1>1, HandlerInvHolds, PTL

\* Whatever fails behind a delivery, the attempt sends nothing more.
THEOREM NoResendHolds == Spec => NoResendAfterDelivery
<1>1. HandlerInv /\ [Next]_vars => [\A a \in reported : mails'[a] = mails[a]]_vars
  <2> SUFFICES ASSUME HandlerInv, Next, NEW a \in reported
               PROVE  mails'[a] = mails[a]
    BY DEF HandlerInv
  <2>1. a \in Attempts /\ pc[a] # "send" /\ mails \in [Attempts -> 0 .. 2]
    BY DEF HandlerInv, TypeOK, Progress
  <2>2. ASSUME NEW b \in Attempts, Send(b) \/ SendFails(b) PROVE mails'[a] = mails[a]
    BY <2>1, <2>2 DEF Send, SendFails
  <2>3. ASSUME ~(\E b \in Attempts : Send(b) \/ SendFails(b)) PROVE UNCHANGED mails
    BY <2>3 DEF Next, Deliver, Deadline, GiveUp, Work, Fail, Crash, LockExpires,
       WindowCloses, Quiet, CheckDelivered, CheckFails, AcquireLock, AcquireLockFails,
       LimitPasses, LimitExceeded, CompileTemplate, CompileFails, RecordAttempt,
       RecordStatus, RecordFlag, RecordFails, CommitMark, Cleanup, Respond, vars
  <2>4. QED
    BY <2>2, <2>3
<1>2. QED
  BY <1>1, HandlerInvHolds, PTL DEF Spec, NoResendAfterDelivery

------------------------------------------------------------------------------
(* What is on record happened.                                             *)

\* Nothing that was reported is ever taken back.
LEMMA ReportsGrow == [Next]_vars => reported \subseteq reported'
BY DEF Next, Deliver, Deadline, GiveUp, Work, Fail, Crash, LockExpires,
   WindowCloses, Quiet, CheckDelivered, CheckFails, AcquireLock, AcquireLockFails,
   LimitPasses, LimitExceeded, CompileTemplate, CompileFails, RecordAttempt, Send,
   SendFails, RecordStatus, RecordFlag, RecordFails, CommitMark, Cleanup, Respond, vars

\* 200 is answered by an attempt that has delivered, and by no other.
THEOREM AcknowledgedWasDeliveredHolds == Spec => []AcknowledgedWasDelivered
<1>1. Init => AcknowledgedWasDelivered
  BY DEF Init, AcknowledgedWasDelivered
<1>2. HandlerInv /\ AcknowledgedWasDelivered /\ [Next]_vars
      => AcknowledgedWasDelivered'
  <2> SUFFICES ASSUME HandlerInv, AcknowledgedWasDelivered, [Next]_vars,
                      NEW t \in Tasks, queue'[t] = "done"
               PROVE  \E a \in reported' : Task(a) = t
    BY DEF AcknowledgedWasDelivered, Task
  <2>1. queue \in [Tasks -> {"waiting", "running", "done", "dropped"}]
    BY DEF HandlerInv, TypeOK
  <2>2. CASE queue[t] = "done"
    BY <2>2, ReportsGrow DEF AcknowledgedWasDelivered, Task
  <2>3. CASE queue[t] # "done"
    <3>1. PICK a \in Attempts : Respond(a)
      BY <2>1, <2>3 DEF Next, Deliver, Deadline, GiveUp, Work, Fail, Crash,
         LockExpires, WindowCloses, Quiet, CheckDelivered, CheckFails, AcquireLock,
         AcquireLockFails, LimitPasses, LimitExceeded, CompileTemplate, CompileFails,
         RecordAttempt, Send, SendFails, RecordStatus, RecordFlag, RecordFails, CommitMark, Cleanup, vars
    <3>2. Task(a) = t /\ Accepted(a)
      BY <2>1, <2>3, <3>1 DEF Respond
    <3>3. a \in reported
      BY <3>2 DEF HandlerInv, Progress, Accepted
    <3>4. QED
      BY <3>2, <3>3, ReportsGrow
  <2>4. QED
    BY <2>2, <2>3
<1>3. QED
  BY <1>1, <1>2, HandlerInvHolds, PTL DEF Spec

\* Deduplication keys, log and quote flags follow deliveries.
THEOREM RecordsAreTrueHolds == Spec => []RecordsAreTrue
<1>1. Init => RecordsAreTrue
  BY DEF Init, RecordsAreTrue
<1>2. HandlerInv /\ RecordsAreTrue /\ [Next]_vars => RecordsAreTrue'
  <2> SUFFICES ASSUME HandlerInv, RecordsAreTrue, [Next]_vars PROVE RecordsAreTrue'
    OBVIOUS
  <2> USE DEF Mark, Notification, Task
  <2>1. /\ log \in [Notifications -> {"absent", "PENDING", "delivered", "FAILED"}]
        /\ reported \subseteq reported'
        /\ \A a \in Attempts : pc[a] \in {"flag", "commit"} => a \in reported
        /\ \A a \in Attempts : result[a] = "delivered" => a \in reported
    BY ReportsGrow DEF HandlerInv, TypeOK, Progress
  <2>2. ASSUME UNCHANGED <<delivered, log, emailSent>> PROVE RecordsAreTrue'
    BY <2>1, <2>2 DEF RecordsAreTrue
  <2>3. ASSUME NEW a \in Attempts, RecordAttempt(a) PROVE RecordsAreTrue'
    BY <2>1, <2>3 DEF RecordsAreTrue, RecordAttempt
  <2>4. ASSUME NEW a \in Attempts, RecordStatus(a) PROVE RecordsAreTrue'
    BY <2>1, <2>4 DEF RecordsAreTrue, RecordStatus
  <2>5. ASSUME NEW a \in Attempts, RecordFlag(a) PROVE RecordsAreTrue'
    BY <2>1, <2>5 DEF RecordsAreTrue, RecordFlag
  <2>6. ASSUME NEW a \in Attempts, CommitMark(a) PROVE RecordsAreTrue'
    BY <2>1, <2>6 DEF RecordsAreTrue, CommitMark
  <2>7. ASSUME NEW m \in Marks, WindowCloses(m) PROVE RecordsAreTrue'
    BY <2>1, <2>7 DEF RecordsAreTrue, WindowCloses
  <2>8. QED
    BY <2>2, <2>3, <2>4, <2>5, <2>6, <2>7
       DEF Next, Deliver, Deadline, GiveUp, Work, Fail, Crash, LockExpires, Quiet,
           CheckDelivered, CheckFails, AcquireLock, AcquireLockFails, LimitPasses,
           LimitExceeded, CompileTemplate, CompileFails, Send, SendFails, RecordFails,
           Cleanup, Respond, vars
<1>3. QED
  BY <1>1, <1>2, HandlerInvHolds, PTL DEF Spec

------------------------------------------------------------------------------
(* The processing lock.                                                    *)

\* Whoever believes to hold a lock that has not lapsed is the one who set it.
Owns == \A a \in Attempts :
           holds[a] /\ Mark(a) \notin lapsed => lock[Mark(a)] = a

\* The lock excludes until it expires under its holder: it is deleted without an
\* owner check, but only by one that holds it, and then it is that one's.
THEOREM OneHolderHolds == Spec => []OneHolder
<1>1. Init => Owns
  BY DEF Init, Owns
<1>2. TypeOK /\ Owns /\ [Next]_vars => Owns'
  <2> SUFFICES ASSUME TypeOK, Owns, [Next]_vars PROVE Owns'
    OBVIOUS
  <2> USE DEF Mark, Task
  <2>1. /\ holds \in [Attempts -> BOOLEAN]
        /\ lock \in [Marks -> Attempts \cup {None}]
        /\ \A a \in Attempts : MarkOf[a[1]] \in Marks
    BY TaskAssumption DEF TypeOK, Attempts
  <2>2. ASSUME NEW a \in Attempts, AcquireLock(a) PROVE Owns'
    BY <2>1, <2>2, NoneAssumption DEF Owns, AcquireLock, LockFree
  <2>3. ASSUME NEW a \in Attempts, AcquireLockFails(a) PROVE Owns'
    BY <2>1, <2>3, NoneAssumption DEF Owns, AcquireLockFails, LockFree
  <2>4. ASSUME NEW a \in Attempts, Cleanup(a) PROVE Owns'
    BY <2>1, <2>4 DEF Owns, Cleanup, Unlock
  <2>5. ASSUME NEW a \in Attempts, Respond(a) \/ Crash(a) PROVE Owns'
    BY <2>1, <2>5 DEF Owns, Respond, Crash, End
  <2>6. ASSUME NEW m \in Marks, LockExpires(m) PROVE Owns'
    BY <2>1, <2>6 DEF Owns, LockExpires, handler
  <2>7. ASSUME UNCHANGED <<holds, lock, lapsed>> PROVE Owns'
    BY <2>7 DEF Owns
  <2>8. QED
    BY <2>2, <2>3, <2>4, <2>5, <2>6, <2>7
       DEF Next, Deliver, Deadline, GiveUp, Work, Fail, WindowCloses, Quiet,
           CheckDelivered, CheckFails, LimitPasses, LimitExceeded, CompileTemplate,
           CompileFails, RecordAttempt, Send, SendFails, RecordStatus, RecordFlag, RecordFails, CommitMark,
           handler, vars
<1>3. Owns => OneHolder
  BY DEF Owns, OneHolder
<1>4. QED
  BY <1>1, <1>2, <1>3, TypeCorrect, PTL DEF Spec

------------------------------------------------------------------------------
(* Which faults it takes to send a task's mail twice.                       *)

\* Cloud Tasks waits for the answer of the one attempt that runs, and that attempt
\* reports every mail the provider takes from it.
Orderly(a) ==
    /\ Running(a) => Current(a) /\ queue[Task(a)] = "running"
    /\ mails[a] > 0 =>
          /\ Current(a)
          /\ \/ Running(a) /\ result[a] = "delivered" /\ a \in reported
             \/ queue[Task(a)] = "done"

\* While no process dies, no answer is late and no provider takes a mail and
\* reports an error, a task's mail is sent by one attempt only, whatever the caches,
\* the database and the locks do: the comment on isAlreadyDelivered then holds.
THEOREM OnlyThreeFaultsResend ==
    ASSUME Faults \cap {"crash", "timeout", "provider"} = {}
    PROVE  Spec => []SentOnlyOnce
<1> DEFINE Order == \A a \in Attempts : Orderly(a)
<1>1. Init => Order
  BY DEF Init, Orderly, Running
<1>2. HandlerInv /\ Order /\ [Next]_vars => Order'
  <2> SUFFICES ASSUME HandlerInv, Order, [Next]_vars PROVE Order'
    OBVIOUS
  <2> USE DEF Task, Current, Running
  <2>1. /\ TypeOK /\ Begun
        /\ \A a \in Attempts :
              a[1] \in Tasks /\ a[2] \in 1 .. MaxAttempts /\ a = <<a[1], a[2]>> /\ Progress(a)
    BY DEF HandlerInv, Attempts
  <2>2. ASSUME NEW t \in Tasks, Deliver(t) PROVE Order'
    <3> DEFINE n == <<t, tries[t] + 1>>
    <3>1. /\ tries[t] \in Nat /\ n \in Attempts /\ pc[n] = "idle"
      <4>1. tries[t] \in 0 .. MaxAttempts /\ tries[t] < MaxAttempts
        BY <2>1, <2>2 DEF TypeOK, Deliver
      <4>2. QED
        BY <2>1, <4>1, AttemptsAssumption DEF Begun, Attempts
    <3>2. ASSUME NEW a \in Attempts, a[1] = t
          PROVE  mails[a] = 0 /\ (a # n => ~Running(a))
      <4>1. ~Running(a) /\ queue[t] = "waiting"
        BY <2>2, <3>2 DEF Deliver, Orderly
      <4>2. mails[a] \in Nat
        BY <2>1 DEF TypeOK
      <4>3. QED
        BY <3>2, <4>1, <4>2 DEF Orderly
    <3>3. /\ UNCHANGED <<mails, result, reported>>
          /\ \A a \in Attempts : a # n => pc'[a] = pc[a]
          /\ \A u \in Tasks : u # t => tries'[u] = tries[u] /\ queue'[u] = queue[u]
          /\ tries'[t] = tries[t] + 1 /\ queue'[t] = "running"
      BY <2>1, <2>2 DEF Deliver, Goto, TypeOK
    <3>4. ASSUME NEW a \in Attempts, a[1] = t PROVE Orderly(a)'
      BY <2>1, <3>1, <3>2, <3>3, <3>4 DEF Orderly
    <3>5. ASSUME NEW a \in Attempts, a[1] # t PROVE Orderly(a)'
      BY <2>1, <3>3, <3>5 DEF Orderly
    <3>6. QED
      BY <3>4, <3>5
  <2>3. ASSUME NEW t \in Tasks, Deadline(t) PROVE Order'
    <3>1. pc[<<t, tries[t]>>] = "crashed" /\ queue[t] = "running"
      BY <2>3 DEF Deadline
    <3>2. ASSUME NEW a \in Attempts, a[1] = t PROVE ~Running(a) /\ ~(mails[a] > 0)
      BY <2>1, <3>1, <3>2 DEF Orderly
    <3>3. /\ UNCHANGED <<mails, result, reported, pc, tries>>
          /\ \A u \in Tasks : u # t => queue'[u] = queue[u]
      BY <2>1, <2>3 DEF Deadline, handler, TypeOK
    <3>4. QED
      BY <2>1, <3>2, <3>3 DEF Orderly
  <2>4. ASSUME NEW t \in Tasks, GiveUp(t) PROVE Order'
    BY <2>1, <2>4 DEF GiveUp, Orderly, handler, TypeOK
  <2>5. ASSUME NEW a \in Attempts, UNCHANGED <<queue, tries>>, Running(a),
               \A b \in Attempts \ {a} : /\ pc'[b] = pc[b] /\ mails'[b] = mails[b]
                                         /\ result'[b] = result[b],
               reported \subseteq reported',
               mails'[a] > 0 => Running(a)' /\ result'[a] = "delivered" /\ a \in reported'
        PROVE  Order'
    BY <2>1, <2>5 DEF Orderly
  <2>6. ASSUME NEW a \in Attempts, Send(a) PROVE Order'
    BY <2>1, <2>5, <2>6 DEF Send, Goto, TypeOK
  <2>7. ASSUME NEW a \in Attempts, SendFails(a) \/ Crash(a) PROVE Order'
    BY <2>7 DEF SendFails, Crash
  <2>8. ASSUME NEW a \in Attempts, Respond(a) PROVE Order'
    <3>1. /\ Current(a) /\ queue[a[1]] = "running" /\ UNCHANGED <<tries, mails, reported>>
          /\ ~Running(a)' /\ \A b \in Attempts \ {a} : pc'[b] = pc[b] /\ result'[b] = result[b]
          /\ queue' = [queue EXCEPT ![a[1]] = IF Accepted(a) THEN "done" ELSE "waiting"]
      BY <2>1, <2>8 DEF Respond, End, Goto, Orderly, TypeOK
    <3>2. ASSUME NEW b \in Attempts, b[1] = a[1] PROVE Orderly(b)'
      <4>1. b # a => ~Running(b) /\ ~(mails[b] > 0)
        BY <2>1, <3>1, <3>2 DEF Orderly
      <4>2. mails[a] > 0 => Accepted(a)
        BY <3>1 DEF Orderly, Accepted
      <4>3. queue'[a[1]] = IF Accepted(a) THEN "done" ELSE "waiting"
        BY <2>1, <3>1 DEF TypeOK
      <4>4. QED
        BY <3>1, <3>2, <4>1, <4>2, <4>3 DEF Orderly
    <3>3. ASSUME NEW b \in Attempts, b[1] # a[1] PROVE Orderly(b)'
      BY <2>1, <3>1, <3>3 DEF Orderly, TypeOK
    <3>4. QED
      BY <3>2, <3>3
  \* The steps that neither send nor answer.
  <2>9. ASSUME NEW a \in Attempts, UNCHANGED <<queue, tries, mails, result, reported>>,
               Running(a), Running(a)', \A b \in Attempts \ {a} : pc'[b] = pc[b]
        PROVE  Order'
    BY <2>1, <2>5, <2>9 DEF Orderly
  <2>10. ASSUME NEW a \in Attempts,
                \/ CheckDelivered(a) \/ CheckFails(a) \/ AcquireLock(a) \/ AcquireLockFails(a)
                \/ LimitPasses(a) \/ LimitExceeded(a) \/ CompileTemplate(a)
                \/ CompileFails(a) \/ RecordAttempt(a)
         PROVE  Order'
    BY <2>1, <2>9, <2>10 DEF CheckDelivered, CheckFails, AcquireLock, AcquireLockFails,
       FailOpen, LimitPasses, LimitExceeded, CompileTemplate, CompileFails, StageThrows,
       RecordAttempt, Goto, TypeOK
  <2>11. ASSUME NEW a \in Attempts,
                RecordStatus(a) \/ RecordFlag(a) \/ RecordFails(a) \/ CommitMark(a) \/ Cleanup(a)
         PROVE  Order'
    BY <2>1, <2>9, <2>11 DEF RecordStatus, RecordFlag, RecordFails, AfterError, StageThrows,
       CommitMark, Cleanup, Goto, TypeOK
  <2>12. ASSUME NEW m \in Marks, LockExpires(m) \/ WindowCloses(m) PROVE Order'
    BY <2>12 DEF LockExpires, WindowCloses, handler, Orderly
  <2>13. CASE UNCHANGED vars
    BY <2>13 DEF vars, handler, Orderly
  <2>14. QED
    BY <2>2, <2>3, <2>4, <2>6, <2>7, <2>8, <2>10, <2>11, <2>12, <2>13
       DEF Next, Work, Fail, Quiet
<1>3. Order => SentOnlyOnce
  BY DEF Orderly, SentOnlyOnce, Current, Task, Attempts
<1>4. QED
  BY <1>1, <1>2, <1>3, HandlerInvHolds, PTL DEF Spec
==============================================================================
