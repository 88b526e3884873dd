------------------------- MODULE NotificationDelivery -------------------------
(***************************************************************************)
(* From a Cloud Tasks queue to the customer's mailbox: the webhook that     *)
(* takes a notification task, NotificationPipeline with its seven stages,  *)
(* the deduplication keys in Redis, the notification log in MongoDB and    *)
(* the mail provider.                                                      *)
(*                                                                         *)
(* The n-th delivery of task t is the attempt <<t, n>>; a task delivered   *)
(* again while an earlier attempt still runs has two attempts at work.     *)
(* One action is what an attempt does from one await to the next.          *)
(***************************************************************************)
EXTENDS Integers, FiniteSets

CONSTANTS
    Tasks,          \* the tasks the quote service has created
    Notifications,  \* notificationIds: the ids of the quotes
    Marks,          \* deduplication fingerprints: recipient, template and data
    NotificationOf, \* the notificationId of a task
    MarkOf,         \* the fingerprint of a task; the id is no part of it
    Invalid,        \* tasks ValidateStage rejects
    MinAttempts,    \* attempts before Cloud Tasks may give up: max_attempts
    MaxAttempts,    \* bound: attempts until max_retry_duration is over too
    Faults,         \* the kinds of fault that can strike
    None

FaultKinds ==
    {"crash", "cache", "database", "template", "provider", "limit", "timeout", "lockExpiry"}

ASSUME TaskAssumption ==
    /\ NotificationOf \in [Tasks -> Notifications]
    /\ MarkOf \in [Tasks -> Marks]
    /\ Invalid \subseteq Tasks
ASSUME AttemptsAssumption ==
    MinAttempts \in Nat \ {0} /\ MaxAttempts \in Nat /\ MinAttempts <= MaxAttempts
ASSUME FaultAssumption == Faults \subseteq FaultKinds

Attempts == Tasks \X (1 .. MaxAttempts)

ASSUME NoneAssumption == None \notin Attempts

VARIABLES
    \* ------------ Cloud Tasks
    queue,      \* what Cloud Tasks knows of each task
    tries,      \* how often it delivered it
    \* ------------ an attempt's handler
    pc,         \* the await it stands at
    pass,       \* which of RateLimiterStage's two next() calls it is in
    holds,      \* processingLockAcquired
    result,     \* what has come of it
    \* ------------ Redis
    lock,       \* who set notify:processing of each mark; no owner is stored
    delivered,  \* the marks whose notify:dedup key exists
    \* ------------ MongoDB
    log,        \* status of each notification_logs document
    emailSent,  \* the quotes with isEmailSent
    \* ------------ the mail provider
    mails,      \* mails it accepted from each attempt
    \* ------------ history, read by properties only
    reported,   \* attempts the provider reported delivery to
    lapsed      \* marks whose lock once expired under its holder

handler == <<pc, pass, holds, result>>
redis   == <<lock, delivered>>
mongo   == <<log, emailSent>>
history == <<reported, lapsed>>
vars    == <<queue, tries, handler, redis, mongo, mails, history>>

------------------------------------------------------------------------------
Task(a)         == a[1]
Mark(a)         == MarkOf[Task(a)]
Notification(a) == NotificationOf[Task(a)]
Current(a)      == a[2] = tries[Task(a)]

\* Inside DeduplicationStage's second try block.
Downstream == {"limit", "compile", "record", "send", "status", "flag", "commit",
               "cleanup"}
Locations  == {"idle", "exists", "lock", "respond", "done", "crashed"} \cup Downstream
Running(a) == pc[a] \notin {"idle", "done", "crashed"}

Goto(a, location) == pc' = [pc EXCEPT ![a] = location]
\* The handler is gone and its locals with it.
End(a, location) ==
    /\ Goto(a, location)
    /\ pass' = [pass EXCEPT ![a] = 1]
    /\ holds' = [holds EXCEPT ![a] = FALSE]
    /\ result' = [result EXCEPT ![a] = "none"]

Init ==
    /\ queue = [t \in Tasks |-> "waiting"]
    /\ tries = [t \in Tasks |-> 0]
    /\ pc = [a \in Attempts |-> "idle"]
    /\ pass = [a \in Attempts |-> 1]
    /\ holds = [a \in Attempts |-> FALSE]
    /\ result = [a \in Attempts |-> "none"]
    /\ lock = [m \in Marks |-> None]
    /\ delivered = {}
    /\ log = [n \in Notifications |-> "absent"]
    /\ emailSent = {}
    /\ mails = [a \in Attempts |-> 0]
    /\ reported = {}
    /\ lapsed = {}

------------------------------------------------------------------------------
(* Cloud Tasks.                                                            *)

\* POST process-notification.  ValidateStage and EnricherStage are local.
Deliver(t) ==
    LET a == <<t, tries[t] + 1>> IN
    /\ queue[t] = "waiting"
    /\ tries[t] < MaxAttempts
    /\ queue' = [queue EXCEPT ![t] = "running"]
    /\ tries' = [tries EXCEPT ![t] = @ + 1]
    /\ Goto(a, IF t \in Invalid THEN "respond" ELSE "exists")
    /\ UNCHANGED <<pass, holds, result, redis, mongo, mails, history>>

\* No answer came: the handler's process died, or the answer was lost, or the
\* dispatch deadline passed.  The handler, if it lives, goes on.
Deadline(t) ==
    /\ queue[t] = "running"
    /\ pc[<<t, tries[t]>>] = "crashed" \/ "timeout" \in Faults
    /\ queue' = [queue EXCEPT ![t] = "waiting"]
    /\ UNCHANGED <<tries, handler, redis, mongo, mails, history>>

\* max_attempts and max_retry_duration are both exceeded.
GiveUp(t) ==
    /\ queue[t] = "waiting"
    /\ tries[t] >= MinAttempts
    /\ queue' = [queue EXCEPT ![t] = "dropped"]
    /\ UNCHANGED <<tries, handler, redis, mongo, mails, history>>

------------------------------------------------------------------------------
(* DeduplicationStage, before next().                                      *)

MutantFailOpen(a) == Goto(a, "respond")

\* Redis fails: proceed without deduplication protection.
FailOpen(a) == Goto(a, "limit")

CheckDelivered(a) ==
    /\ pc[a] = "exists"
    /\ Goto(a, IF Mark(a) \in delivered THEN "respond" ELSE "lock")
    /\ UNCHANGED <<queue, tries, pass, holds, result, redis, mongo, mails, history>>

CheckFails(a) ==
    /\ "cache" \in Faults
    /\ pc[a] = "exists"
    /\ FailOpen(a)
    /\ UNCHANGED <<queue, tries, pass, holds, result, redis, mongo, mails, history>>

\* SET ... NX sets the key only where there is none.
LockFree(m) == lock[m] = None

\* Waits for the lock instead of leaving the retry to Cloud Tasks.
MutantAcquireLock(a) ==
    /\ pc[a] = "lock"
    /\ LockFree(Mark(a))
    /\ lock' = [lock EXCEPT ![Mark(a)] = a]
    /\ holds' = [holds EXCEPT ![a] = TRUE]
    /\ Goto(a, "limit")
    /\ UNCHANGED <<queue, tries, pass, result, delivered, mongo, mails, history>>

\* SET processingKey EX 60 NX; where another has it, a 422 at once.
AcquireLock(a) ==
    /\ pc[a] = "lock"
    /\ \/ /\ LockFree(Mark(a))
          /\ lock' = [lock EXCEPT ![Mark(a)] = a]
          /\ holds' = [holds EXCEPT ![a] = TRUE]
          /\ Goto(a, "limit")
       \/ ~LockFree(Mark(a)) /\ Goto(a, "respond") /\ UNCHANGED <<lock, holds>>
    /\ UNCHANGED <<queue, tries, pass, result, delivered, mongo, mails, history>>

\* processingLockAcquired is set before the SET has succeeded.
MutantAcquireLockFails(a) ==
    /\ "cache" \in Faults
    /\ pc[a] = "lock"
    /\ holds' = [holds EXCEPT ![a] = TRUE]
    /\ FailOpen(a)
    /\ UNCHANGED <<queue, tries, pass, result, redis, mongo, mails, history>>

\* Redis answers with an error, whether or not it carried the SET out.
AcquireLockFails(a) ==
    /\ "cache" \in Faults
    /\ pc[a] = "lock"
    /\ \/ UNCHANGED lock
       \/ LockFree(Mark(a)) /\ lock' = [lock EXCEPT ![Mark(a)] = a]
    /\ FailOpen(a)
    /\ UNCHANGED <<queue, tries, pass, holds, result, delivered, mongo, mails, history>>

------------------------------------------------------------------------------
(* The stages behind it.                                                   *)

\* Calls next() as long as it throws.
MutantThrowsAgain(a) ==
    /\ pass' = [pass EXCEPT ![a] = @ + 1]
    /\ Goto(a, "compile")

\* RateLimiterStage swallows the second error too.
MutantThrowSwallowed(a) ==
    /\ pass' = [pass EXCEPT ![a] = 2]
    /\ Goto(a, IF pass[a] = 1 THEN "compile" ELSE "commit")

\* A stage behind RateLimiterStage threw.  TrackerStage rethrows and
\* TemplateCompilerStage wraps whatever it was, so RateLimiterStage takes it for
\* a failure of its own and calls next() again; the second time it gets through
\* to DeduplicationStage.
StageThrows(a) ==
    /\ pass' = [pass EXCEPT ![a] = 2]
    /\ Goto(a, IF pass[a] = 1 THEN "compile" ELSE "cleanup")

\* RateLimiterStage: within the recipient's limit, or Redis fails and the
\* catch block lets it pass.
LimitPasses(a) ==
    /\ pc[a] = "limit"
    /\ \/ UNCHANGED pass
       \/ "cache" \in Faults /\ pass' = [pass EXCEPT ![a] = 2]
    /\ Goto(a, "compile")
    /\ UNCHANGED <<queue, tries, holds, result, redis, mongo, mails, history>>

LimitExceeded(a) ==
    /\ "limit" \in Faults
    /\ pc[a] = "limit"
    /\ Goto(a, "cleanup")
    /\ UNCHANGED <<queue, tries, pass, holds, result, redis, mongo, mails, history>>

\* TemplateCompilerStage reads the template file and fills it in ...
CompileTemplate(a) ==
    /\ pc[a] = "compile"
    /\ Goto(a, "record")
    /\ UNCHANGED <<queue, tries, pass, holds, result, redis, mongo, mails, history>>

\* ... or the file cannot be read where the process looks for it.
CompileFails(a) ==
    /\ "template" \in Faults
    /\ pc[a] = "compile"
    /\ StageThrows(a)
    /\ UNCHANGED <<queue, tries, holds, result, redis, mongo, mails, history>>

\* recordAttempt: insert a PENDING document.  The index on notificationId is
\* unique and errors are swallowed, so a second insert changes nothing.
RecordAttempt(a) ==
    /\ pc[a] = "record"
    /\ \/ log' = [log EXCEPT ![Notification(a)] = IF @ = "absent" THEN "PENDING" ELSE @]
       \/ "database" \in Faults /\ UNCHANGED log
    /\ Goto(a, "send")
    /\ UNCHANGED <<queue, tries, pass, holds, result, redis, emailSent, mails, history>>

\* TransportStage: the provider takes the mail and reports it delivered.
Send(a) ==
    /\ pc[a] = "send"
    /\ mails' = [mails EXCEPT ![a] = @ + 1]
    /\ result' = [result EXCEPT ![a] = "delivered"]
    /\ reported' = reported \cup {a}
    /\ Goto(a, "status")
    /\ UNCHANGED <<queue, tries, pass, holds, redis, mongo, lapsed>>

\* It is offline, refuses the mail, or has taken it when the connection fails.
SendFails(a) ==
    /\ "provider" \in Faults
    /\ pc[a] = "send"
    /\ \/ UNCHANGED mails
       \/ mails' = [mails EXCEPT ![a] = @ + 1]
    /\ result' = [result EXCEPT ![a] = "failed"]
    /\ Goto(a, "status")
    /\ UNCHANGED <<queue, tries, pass, holds, redis, mongo, reported, lapsed>>

MutantAfterError(a) == StageThrows(a)

\* recordResult swallows a database error: the stage goes on as if it had written.
AfterError(a) ==
    IF result[a] = "delivered" THEN Goto(a, "commit") /\ UNCHANGED pass
                               ELSE StageThrows(a)

\* recordResult: the status of an existing document is overwritten ...
RecordStatus(a) ==
    /\ pc[a] = "status"
    /\ log' = [log EXCEPT ![Notification(a)] =
                  IF @ = "absent" THEN @
                  ELSE IF result[a] = "delivered" THEN "delivered" ELSE "FAILED"]
    /\ IF result[a] = "delivered" THEN Goto(a, "flag") /\ UNCHANGED pass
                                  ELSE StageThrows(a)
    /\ UNCHANGED <<queue, tries, holds, result, redis, emailSent, mails, history>>

\* ... and after a delivery the quote is flagged.
RecordFlag(a) ==
    /\ pc[a] = "flag"
    /\ emailSent' = emailSent \cup {Notification(a)}
    /\ Goto(a, "commit")
    /\ UNCHANGED <<queue, tries, pass, holds, result, redis, log, mails, history>>

RecordFails(a) ==
    /\ "database" \in Faults
    /\ pc[a] \in {"status", "flag"}
    /\ AfterError(a)
    /\ UNCHANGED <<queue, tries, holds, result, redis, mongo, mails, history>>

------------------------------------------------------------------------------
(* DeduplicationStage, after next().                                       *)

\* Only after a delivery; an error of Redis is swallowed.
CommitMark(a) ==
    /\ pc[a] = "commit"
    /\ \/ delivered' = delivered \cup {Mark(a)}
       \/ "cache" \in Faults /\ UNCHANGED delivered
    /\ Goto(a, "cleanup")
    /\ UNCHANGED <<queue, tries, pass, holds, result, lock, mongo, mails, history>>

\* The finally block deletes the lock, whoever set it, if this attempt took it.
Unlock(a) == IF holds[a] THEN lock' = [lock EXCEPT ![Mark(a)] = None]
                         ELSE UNCHANGED lock

Cleanup(a) ==
    /\ pc[a] = "cleanup"
    /\ Unlock(a) \/ ("cache" \in Faults /\ UNCHANGED lock)
    /\ holds' = [holds EXCEPT ![a] = FALSE]
    /\ Goto(a, "respond")
    /\ UNCHANGED <<queue, tries, pass, result, delivered, mongo, mails, history>>

MutantAccepted(a) == TRUE

\* The pipeline ran to its end.
Accepted(a) == result[a] = "delivered"

\* 200, or an error status: Cloud Tasks heeds the answer it still waits for.
Respond(a) ==
    /\ pc[a] = "respond"
    /\ End(a, "done")
    /\ IF Current(a) /\ queue[Task(a)] = "running"
       THEN queue' = [queue EXCEPT ![Task(a)] = IF Accepted(a) THEN "done" ELSE "waiting"]
       ELSE UNCHANGED queue
    /\ UNCHANGED <<tries, redis, mongo, mails, history>>

------------------------------------------------------------------------------
(* The environment.                                                        *)

\* The process dies; the lock it took stays behind.
Crash(a) ==
    /\ "crash" \in Faults
    /\ Running(a)
    /\ End(a, "crashed")
    /\ UNCHANGED <<queue, tries, redis, mongo, mails, history>>

\* The lock's 60 seconds are over.
LockExpires(m) ==
    /\ "lockExpiry" \in Faults
    /\ lock[m] # None
    /\ lapsed' = lapsed \cup IF holds[lock[m]] THEN {m} ELSE {}
    /\ lock' = [lock EXCEPT ![m] = None]
    /\ UNCHANGED <<queue, tries, handler, delivered, mongo, mails, reported>>

\* The deduplication window's 300 seconds are over.
WindowCloses(m) ==
    /\ m \in delivered
    /\ delivered' = delivered \ {m}
    /\ UNCHANGED <<queue, tries, handler, lock, mongo, mails, history>>

------------------------------------------------------------------------------
\* Every await of the handler comes back with an answer ...
Work(a) ==
    \/ CheckDelivered(a) \/ AcquireLock(a) \/ LimitPasses(a) \/ CompileTemplate(a)
    \/ RecordAttempt(a) \/ Send(a) \/ RecordStatus(a) \/ RecordFlag(a) \/ CommitMark(a)
    \/ Cleanup(a) \/ Respond(a)

\* ... or with an error, or the customer is over the limit.
Fail(a) ==
    \/ CheckFails(a) \/ AcquireLockFails(a) \/ LimitExceeded(a) \/ CompileFails(a)
    \/ SendFails(a) \/ RecordFails(a)

\* Every task is settled and nothing runs.
Quiet == /\ \A t \in Tasks : queue[t] \in {"done", "dropped"}
         /\ \A a \in Attempts : ~Running(a)
         /\ UNCHANGED vars

Next ==
    \/ \E t \in Tasks : Deliver(t) \/ Deadline(t) \/ GiveUp(t)
    \/ \E a \in Attempts : Work(a) \/ Fail(a) \/ Crash(a)
    \/ \E m \in Marks : LockExpires(m) \/ WindowCloses(m)
    \/ Quiet

Spec == Init /\ [][Next]_vars

\* Cloud Tasks delivers what waits and times out what does not answer, and an
\* event loop runs every continuation; errors, crashes and expiry owe nothing.
FairSpec ==
    /\ Spec
    /\ \A t \in Tasks : WF_vars(Deliver(t)) /\ WF_vars(Deadline(t)) /\ WF_vars(GiveUp(t))
    /\ \A a \in Attempts : WF_vars(Work(a))
------------------------------------------------------------------------------
(* Properties.                                                             *)

\* The shape of the state.
TypeOK ==
    /\ queue \in [Tasks -> {"waiting", "running", "done", "dropped"}]
    /\ tries \in [Tasks -> 0 .. MaxAttempts]
    /\ pc \in [Attempts -> Locations]
    /\ pass \in [Attempts -> 1 .. 2]
    /\ holds \in [Attempts -> BOOLEAN]
    /\ result \in [Attempts -> {"none", "delivered", "failed"}]
    /\ lock \in [Marks -> Attempts \cup {None}]
    /\ delivered \subseteq Marks
    /\ log \in [Notifications -> {"absent", "PENDING", "delivered", "FAILED"}]
    /\ emailSent \subseteq Notifications
    /\ mails \in [Attempts -> 0 .. 2]
    /\ reported \subseteq Attempts
    /\ lapsed \subseteq Marks

\* Cloud Tasks is told 200 only when one of the task's own attempts had its mail
\* delivered: a duplicate, a rate-limited notification, a failure inside either
\* of the rate limiter's two passes is never acknowledged.
AcknowledgedWasDelivered ==
    \A t \in Tasks : queue[t] = "done" => \E a \in reported : Task(a) = t

\* What the stores say of a delivery happened: the deduplication key, the log's
\* status and the quote's isEmailSent each follow a delivery of that payload or
\* that notification.
RecordsAreTrue ==
    /\ \A m \in delivered : \E a \in reported : Mark(a) = m
    /\ \A n \in Notifications :
          log[n] = "delivered" \/ n \in emailSent => \E a \in reported : Notification(a) = n

\* As long as no lock of the mark has expired under its holder, two attempts
\* that took it are never both downstream, although the lock is deleted without
\* a look at its owner and Redis may fail under SET and DEL.
OneHolder ==
    \A a, b \in Attempts :
        holds[a] /\ holds[b] /\ Mark(a) = Mark(b) /\ Mark(a) \notin lapsed => a = b

\* Once its mail is reported delivered an attempt sends no other, whatever fails
\* afterwards: the second pass of RateLimiterStage is only for failed sends.
NoResendAfterDelivery ==
    [][\A a \in reported : mails'[a] = mails[a]]_vars

\* Every task is acknowledged or given up in the end: no attempt waits for
\* another one's lock or for a result that never comes.
EveryTaskSettles ==
    \A t \in Tasks : <>(queue[t] \in {"done", "dropped"})

\* Deduplication loses nothing: every valid notification's payload is delivered,
\* by this task or by one with the same payload, as long as no process dies, the
\* database and the provider work, no answer is late, the recipient is within the
\* limit and the template file can be read where TemplateCompilerStage looks for
\* it.  The image the Dockerfile builds ships no such file: it never sends a mail.
NoPayloadLost ==
    \A t \in Tasks \ Invalid : <>(\E a \in reported : Mark(a) = MarkOf[t])

\* No task's mail is sent by two attempts.
SentOnlyOnce ==
    \A a, b \in Attempts : Task(a) = Task(b) /\ mails[a] > 0 /\ mails[b] > 0 => a = b

\* What the comment on isAlreadyDelivered says: a task that already sent the mail
\* is acknowledged without sending it again.  An attempt that begins when another
\* attempt of its task has delivered and ended sends nothing.
AlreadySentIsNotSentAgain ==
    \A a, b \in Attempts :
        Task(a) = Task(b) =>
            [](a \in reported /\ pc[a] = "done" /\ pc[b] = "idle" => [](mails[b] = 0))

\* What DeduplicationStage says of its window: while the deduplication key of a
\* payload exists, no mail with that payload is sent.
WindowHolds ==
    [][\A a \in Attempts : Mark(a) \in delivered => mails'[a] = mails[a]]_vars
==============================================================================
