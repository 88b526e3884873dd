---------------------------- MODULE PortalProofs ----------------------------
(* Theorems about Portal, for every value of its constants.                 *)
EXTENDS Portal, TLAPS

USE DEF httpVars, sessionVars, uploadVars

------------------------------------------------------------------------------
(* The steps, one name each.                                                *)

Steps(r) ==
    \/ \E c \in Calls : (Arrive(r, c) \/ ArriveFails(r, c))
                        /\ UNCHANGED <<assets, signed, users>>
                        /\ earlier' = [earlier EXCEPT ![r] =
                                           {k \in Keys : assets[k] = "confirmed"}]
    \/ Guard(r) /\ UNCHANGED <<uploadVars, users>>
    \/ Close(r) /\ UNCHANGED <<uploadVars, users>>
    \/ Presign(r) /\ UNCHANGED users
    \/ Record(r) /\ UNCHANGED users
    \/ FindAsset(r) /\ UNCHANGED users
    \/ UpdateStatus(r) /\ UNCHANGED users
    \/ Authenticate(r) /\ UNCHANGED uploadVars
    \/ FindAccount(r) /\ UNCHANGED uploadVars
    \/ FindName(r) /\ UNCHANGED uploadVars
    \/ Insert(r) /\ UNCHANGED uploadVars

LEMMA StepCases ==
    ASSUME [Next]_vars
    PROVE  \/ \E r \in Requests : Steps(r)
           \/ Environment /\ UNCHANGED <<uploadVars, users>>
           \/ (\E u \in users : Suspend(u)) /\ UNCHANGED uploadVars
           \/ UNCHANGED vars
BY DEF Next, Begin, Handle, Outside, Quiet, HandleUploads, HandleAccounts, Steps, vars

\* Where a request stands tells what it asks for and how far it got.
Progress(r) ==
    /\ pc[r] = "recording" => call[r].kind = "presign"
    /\ pc[r] = "updating" => call[r].kind = "confirm"
    /\ pc[r] = "authenticated" => Public(call[r])
    /\ pc[r] \in {"naming", "inserting"} => call[r].kind = "register"
    /\ pc[r] \in {"idle", "guarded"} => signed[r] = 0
    /\ pc[r] \in {"handling", "recording"} /\ call[r].kind = "presign" =>
          signed[r] < call[r].files

TypeInv == TypeOK /\ \A r \in Requests : Progress(r)

LEMMA Successor ==
    ASSUME NEW m \in Nat, NEW n \in Nat, m < n, m + 1 # n
    PROVE  m + 1 < n
OBVIOUS

LEMMA TypeInvHolds == Spec => []TypeInv
<1>1. Init => TypeInv
  <2> SUFFICES ASSUME Init PROVE TypeInv
    OBVIOUS
  <2>1. HttpTypeOK
    BY CallsAssumption DEF Init, InitHttp, HttpTypeOK, Roles, Session
  <2>2. UploadTypeOK
    BY MaxFilesAssumption DEF Init, InitUploads, UploadTypeOK
  <2>3. QED
    BY <2>1, <2>2 DEF Init, InitHttp, InitUploads, TypeOK, TypeInv, Progress
<1>2. TypeInv /\ [Next]_vars => TypeInv'
  <2> SUFFICES ASSUME TypeInv, [Next]_vars PROVE TypeInv'
    OBVIOUS
  <2> USE FilesAssumption, MaxFilesAssumption
  <2> USE DEF TypeInv, Progress, TypeOK, HttpTypeOK, UploadTypeOK, Goto, Reply
  <2>1. ASSUME NEW r \in Requests, Steps(r) PROVE TypeInv'
    <3>1. ASSUME NEW c \in Calls, Arrive(r, c), UNCHANGED <<assets, signed, users>>,
                 earlier' = [earlier EXCEPT ![r] = {k \in Keys : assets[k] = "confirmed"}]
          PROVE  TypeInv'
      BY <3>1 DEF Arrive, Fetch, Session
    <3>2. ASSUME NEW c \in Calls, ArriveFails(r, c), UNCHANGED <<assets, signed, users>>,
                 earlier' = [earlier EXCEPT ![r] = {k \in Keys : assets[k] = "confirmed"}]
          PROVE  TypeInv'
      BY <3>2 DEF ArriveFails
    <3>3. CASE Guard(r) /\ UNCHANGED <<uploadVars, users>>
      BY <3>3 DEF Guard
    <3>4. CASE Close(r) /\ UNCHANGED <<uploadVars, users>>
      <4>1. Touch(r) \in [Sids -> Session]
        BY DEF Touch
      <4>2. QED
        BY <3>4, <4>1 DEF Close
    <3>5. CASE Presign(r) /\ UNCHANGED users
      <4>1. TypeOK'
        BY <3>5 DEF Presign, Handles, Breaks
      <4>2. \A q \in Requests : Progress(q)'
        BY <3>5 DEF Presign, Handles, Breaks
      <4>3. QED
        BY <4>1, <4>2
    <3>6. CASE Record(r) /\ UNCHANGED users
      <4>1. /\ signed[r] \in Nat /\ signed[r] < call[r].files
            /\ call[r].files \in 1..MaxFiles
        BY <3>6 DEF Record
      <4>2. assets' \in [Keys -> {"none", "pending", "confirmed"}]
        BY <3>6 DEF Record
      <4>3. CASE Push(r)
        <5>1. signed' \in [Requests -> 0..MaxFiles]
          BY <4>1, <4>3 DEF Push
        <5>2. CASE signed[r] + 1 = call[r].files
          <6>1. Reply(r, "ok") /\ UNCHANGED <<call, loaded, entitled, sessionVars, earlier>>
            BY <3>6, <4>3, <5>2 DEF Record, Push
          <6>2. TypeOK'
            BY <3>6, <4>2, <5>1, <6>1
          <6>3. \A q \in Requests : Progress(q)'
            BY <3>6, <4>3, <6>1 DEF Record, Push
          <6>4. QED
            BY <6>2, <6>3
        <5>3. CASE signed[r] + 1 # call[r].files
          <6>1. signed'[r] < call[r].files
            <7>1. signed'[r] = signed[r] + 1
              BY <4>3 DEF Push
            <7>2. call[r].files \in Nat
              BY <4>1
            <7>3. QED
              BY <4>1, <5>3, <7>1, <7>2, Successor
          <6>2. TypeOK'
            BY <3>6, <4>2, <4>3, <5>1, <5>3 DEF Record, Push
          <6>3. \A q \in Requests : Progress(q)'
            BY <3>6, <4>3, <5>3, <6>1 DEF Record, Push
          <6>4. QED
            BY <6>2, <6>3
        <5>4. QED
          BY <5>2, <5>3
      <4>4. CASE Breaks(r) /\ UNCHANGED signed
        BY <3>6, <4>2, <4>4 DEF Record, Breaks
      <4>5. QED
        BY <3>6, <4>3, <4>4 DEF Record
    <3>7. CASE FindAsset(r) /\ UNCHANGED users
      BY <3>7 DEF FindAsset, Handles, Breaks
    <3>8. CASE UpdateStatus(r) /\ UNCHANGED users
      <4>1. assets' \in [Keys -> {"none", "pending", "confirmed"}]
        BY <3>8 DEF UpdateStatus
      <4>2. \E answer \in {"ok", "error"} : Reply(r, answer)
        BY <3>8 DEF UpdateStatus, Breaks
      <4>3. UNCHANGED <<call, loaded, entitled, sessionVars, signed, earlier, users>>
        BY <3>8 DEF UpdateStatus
      <4>4. TypeOK'
        BY <4>1, <4>2, <4>3
      <4>5. \A q \in Requests : Progress(q)'
        BY <4>2, <4>3
      <4>6. QED
        BY <4>4, <4>5
    <3>9. CASE Authenticate(r) /\ UNCHANGED uploadVars
      BY <3>9 DEF Authenticate
    <3>10. CASE FindAccount(r) /\ UNCHANGED uploadVars
      BY <3>10 DEF FindAccount, Public
    <3>11. CASE FindName(r) /\ UNCHANGED uploadVars
      BY <3>11 DEF FindName
    <3>12. CASE Insert(r) /\ UNCHANGED uploadVars
      BY <3>12 DEF Insert
    <3>13. QED
      BY <2>1, <3>1, <3>2, <3>3, <3>4, <3>5, <3>6, <3>7, <3>8, <3>9, <3>10, <3>11, <3>12
      DEF Steps
  <2>2. CASE Environment /\ UNCHANGED <<uploadVars, users>>
    BY <2>2 DEF Environment, LoginServiceWrites, SessionExpires, Roles, Session
  <2>3. CASE (\E u \in users : Suspend(u)) /\ UNCHANGED uploadVars
    BY <2>3 DEF Suspend
  <2>4. CASE UNCHANGED vars
    BY <2>4 DEF vars
  <2>5. QED
    BY <2>1, <2>2, <2>3, <2>4, StepCases
<1>3. QED
  BY <1>1, <1>2, PTL DEF Spec

\* Every variable keeps its type, and a request has an answer exactly when it is
\* about to end.
THEOREM TypeCorrect == Spec => []TypeOK
BY TypeInvHolds, PTL DEF TypeInv

------------------------------------------------------------------------------
(* Sessions.                                                                *)

\* A running request whose session is not stale runs with the login service's
\* last word on it; what touch will write back is therefore nothing else.
Faithful(r) ==
    /\ pc[r] = "idle" => loaded[r] = "none"
    /\ Running(r) /\ loaded[r] # "none" =>
          /\ call[r].sid \in Sids
          /\ call[r].sid \notin stale => loaded[r] = granted[call[r].sid]

\* A request that may act as an administrator is one's.
Entitled(r) == Running(r) /\ loaded[r] = "ADMIN" => r \in entitled

SessionInv ==
    /\ TypeInv
    /\ SessionsFollowTheLogin
    /\ \A r \in Requests : Faithful(r) /\ Entitled(r)

\* A step of one request that writes no session and takes it no further back
\* than it was.
LEMMA SessionFrame ==
    ASSUME SessionInv, TypeInv', NEW r \in Requests, UNCHANGED <<call, loaded, entitled>>,
           UNCHANGED sessionVars, Running(r),
           \A q \in Requests \ {r} : pc'[q] = pc[q], pc'[r] # "idle"
    PROVE  SessionInv'
BY DEF SessionInv, SessionsFollowTheLogin, Faithful, Entitled, Running

LEMMA SessionInvHolds == Spec => []SessionInv
<1>1. Init /\ TypeInv => SessionInv
  BY DEF Init, InitHttp, SessionInv, SessionsFollowTheLogin, Faithful, Entitled, Running
<1>2. SessionInv /\ [Next]_vars /\ TypeInv' => SessionInv'
  <2> SUFFICES ASSUME SessionInv, [Next]_vars, TypeInv' PROVE SessionInv'
    OBVIOUS
  <2>0. /\ TypeOK /\ HttpTypeOK /\ pc' \in [Requests -> {"idle", "guarded", "handling",
             "recording", "updating", "authenticated", "naming", "inserting", "closing", "done"}]
    BY DEF SessionInv, TypeInv, TypeOK
  <2>1. ASSUME NEW r \in Requests, Steps(r) PROVE SessionInv'
    <3>1. ASSUME NEW c \in Calls, Arrive(r, c) PROVE SessionInv'
      <4>1. SessionsFollowTheLogin'
        BY <3>1 DEF Arrive, SessionInv, SessionsFollowTheLogin
      <4>2. \A q \in Requests : Faithful(q)'
        BY <2>0, <3>1, CallsAssumption, SidsAssumption
        DEF Arrive, Goto, Fetch, SessionInv, SessionsFollowTheLogin, Faithful, Running,
            HttpTypeOK, TypeOK
      <4>3. \A q \in Requests : Entitled(q)'
        BY <2>0, <3>1
        DEF Arrive, Goto, Fetch, SessionInv, SessionsFollowTheLogin, Entitled, Running,
            HttpTypeOK, TypeOK
      <4>4. QED
        BY <4>1, <4>2, <4>3 DEF SessionInv
    <3>2. ASSUME NEW c \in Calls, ArriveFails(r, c) PROVE SessionInv'
      BY <2>0, <3>2 DEF ArriveFails, Reply, Goto, SessionInv, SessionsFollowTheLogin,
                        Faithful, Entitled, Running, HttpTypeOK, TypeOK
    <3>3. CASE Guard(r)
      BY <2>0, <3>3, SessionFrame DEF Guard, Reply, Goto, Running, TypeOK
    <3>4. CASE Close(r)
      <4>1. SessionsFollowTheLogin'
        BY <2>0, <3>4 DEF Close, Touch, Goto, SessionInv, SessionsFollowTheLogin, Faithful,
                          Running, HttpTypeOK, TypeOK
      <4>2. \A q \in Requests : Faithful(q)' /\ Entitled(q)'
        BY <2>0, <3>4 DEF Close, Goto, SessionInv, Faithful, Entitled, Running, TypeOK
      <4>3. QED
        BY <4>1, <4>2 DEF SessionInv
    <3>5. CASE Presign(r)
      BY <2>0, <3>5, SessionFrame DEF Presign, Handles, Breaks, Reply, Goto, Running, TypeOK
    <3>6. CASE Record(r)
      BY <2>0, <3>6, SessionFrame DEF Record, Push, Breaks, Reply, Goto, Running, TypeOK
    <3>7. CASE FindAsset(r)
      BY <2>0, <3>7, SessionFrame DEF FindAsset, Handles, Breaks, Reply, Goto, Running, TypeOK
    <3>8. CASE UpdateStatus(r)
      BY <2>0, <3>8, SessionFrame DEF UpdateStatus, Breaks, Reply, Goto, Running, TypeOK
    <3>9. CASE Authenticate(r)
      BY <2>0, <3>9, SessionFrame DEF Authenticate, Reply, Goto, Running, TypeOK
    <3>10. CASE FindAccount(r)
      BY <2>0, <3>10, SessionFrame DEF FindAccount, Reply, Goto, Running, TypeOK
    <3>11. CASE FindName(r)
      BY <2>0, <3>11, SessionFrame DEF FindName, Reply, Goto, Running, TypeOK
    <3>12. CASE Insert(r)
      BY <2>0, <3>12, SessionFrame DEF Insert, Reply, Goto, Running, TypeOK
    <3>13. QED
      BY <2>1, <3>1, <3>2, <3>3, <3>4, <3>5, <3>6, <3>7, <3>8, <3>9, <3>10, <3>11, <3>12
      DEF Steps
  <2>2. ASSUME NEW s \in Sids, NEW session \in Roles \cup {"none"},
               LoginServiceWrites(s, session)
        PROVE  SessionInv'
    <3>1. SessionsFollowTheLogin'
      BY <2>0, <2>2 DEF LoginServiceWrites, SessionInv, SessionsFollowTheLogin, HttpTypeOK
    <3>2. \A r \in Requests : Faithful(r)' /\ Entitled(r)'
      BY <2>0, <2>2 DEF LoginServiceWrites, Overlapped, SessionInv, Faithful, Entitled,
                        Running, HttpTypeOK
    <3>3. QED
      BY <3>1, <3>2 DEF SessionInv
  <2>3. ASSUME NEW s \in Sids, SessionExpires(s) PROVE SessionInv'
    BY <2>0, <2>3 DEF SessionExpires, SessionInv, SessionsFollowTheLogin, Faithful, Entitled,
                      Running, HttpTypeOK
  <2>4. CASE (\E u \in users : Suspend(u)) /\ UNCHANGED uploadVars
    BY <2>4 DEF Suspend, SessionInv, SessionsFollowTheLogin, Faithful, Entitled, Running
  <2>5. CASE UNCHANGED vars
    BY <2>5 DEF vars, SessionInv, SessionsFollowTheLogin, Faithful, Entitled, Running
  <2>6. QED
    BY <2>1, <2>2, <2>3, <2>4, <2>5, StepCases DEF Environment
<1>3. QED
  BY <1>1, <1>2, TypeInvHolds, PTL DEF Spec

\* Touch revives and promotes no session but those a request was running on when
\* the login service wrote them.
THEOREM SessionsAreTheLogins == Spec => []SessionsFollowTheLogin
BY SessionInvHolds, PTL DEF SessionInv

------------------------------------------------------------------------------
(* Uploads.                                                                 *)

\* The records of a request's own files: one for each signed so far, none beyond
\* while it is still signing, and none at all for other kinds of request.
Records(r) ==
    /\ \A n \in 1..signed[r] : assets[<<r, n>>] # "none"
    /\ pc[r] \in {"idle", "guarded", "handling", "recording"} =>
          \A n \in 1..MaxFiles : n > signed[r] => assets[<<r, n>>] = "none"
    /\ \A n \in 1..MaxFiles : assets[<<r, n>>] # "none" =>
          /\ pc[r] \notin {"idle", "guarded"}
          /\ call[r].kind = "presign"
          /\ reply[r] \in {"none", "ok", "error"}
    /\ call[r].kind = "presign" /\ reply[r] = "ok" => signed[r] = call[r].files

\* What a confirmation knows of the record it is about: found pending, it was
\* not confirmed when the request arrived.
Confirms(r) ==
    /\ \A k \in earlier[r] : assets[k] = "confirmed"
    /\ pc[r] = "updating" => assets[call[r].key] # "none" /\ call[r].key \notin earlier[r]
    /\ call[r].kind = "confirm" /\ reply[r] = "ok" =>
          assets[call[r].key] = "confirmed" /\ call[r].key \notin earlier[r]

\* Who makes or confirms a record is allowed to.
Permitted(r) ==
    /\ pc[r] \in {"handling", "recording", "updating"} => Allows(call[r], loaded[r])
    /\ \A n \in 1..MaxFiles : assets[<<r, n>>] # "none" => r \in entitled
    /\ call[r].kind = "confirm" /\ reply[r] = "ok" => r \in entitled

UploadInv ==
    /\ SessionInv
    /\ \A r \in Requests : Records(r) /\ Confirms(r) /\ Permitted(r)

\* What a step of one request, whose kind is known, leaves of the others when it
\* keeps the records: nothing changes for them.
LEMMA UploadFrame ==
    ASSUME NEW q \in Requests, Records(q), Confirms(q), Permitted(q),
           UNCHANGED <<assets, entitled>>, pc'[q] = pc[q], call'[q] = call[q],
           loaded'[q] = loaded[q], reply'[q] = reply[q], signed'[q] = signed[q],
           earlier'[q] = earlier[q]
    PROVE  Records(q)' /\ Confirms(q)' /\ Permitted(q)'
BY DEF Records, Confirms, Permitted, Allows, Public

\* A step of one request that keeps the records has to be looked at for that
\* request only.
LEMMA OneUpload ==
    ASSUME UploadInv, SessionInv', NEW r \in Requests,
           Records(r)' /\ Confirms(r)' /\ Permitted(r)',
           UNCHANGED <<call, loaded, earlier, assets, signed, entitled>>,
           \A q \in Requests \ {r} : pc'[q] = pc[q] /\ reply'[q] = reply[q]
    PROVE  UploadInv'
BY UploadFrame DEF UploadInv

\* An answer that reports neither URLs nor a confirmation cannot be wrong.
LEMMA OtherAnswers ==
    ASSUME UploadInv, SessionInv', NEW r \in Requests, UNCHANGED <<call, loaded, entitled>>,
           UNCHANGED uploadVars, NEW a, Reply(r, a), pc[r] \in {"guarded", "handling", "updating",
               "recording", "authenticated", "naming", "inserting"},
           a = "error" \/ (a # "none" /\ \A n \in 1..MaxFiles : assets[<<r, n>>] = "none"),
           a = "ok" => Public(call[r])
    PROVE  UploadInv'
<1>1. /\ pc \in [Requests -> {"idle", "guarded", "handling", "recording", "updating",
                            "authenticated", "naming", "inserting", "closing", "done"}]
      /\ reply[r] = "none" /\ reply'[r] = a /\ pc'[r] = "closing"
      /\ \A q \in Requests \ {r} : pc'[q] = pc[q] /\ reply'[q] = reply[q]
  BY DEF UploadInv, SessionInv, TypeInv, TypeOK, Reply, Goto
<1>2. Records(r) /\ Confirms(r) /\ Permitted(r)
  BY DEF UploadInv
<1>3. Records(r)' /\ Confirms(r)' /\ Permitted(r)'
  BY <1>1, <1>2 DEF Records, Confirms, Permitted, Public
<1>4. QED
  BY <1>1, <1>3, OneUpload

\* A step to another await of the same handler, without writing anything.
LEMMA Onward ==
    ASSUME UploadInv, SessionInv', NEW r \in Requests, UNCHANGED <<call, loaded, entitled>>,
           UNCHANGED <<reply, uploadVars>>, NEW location, Goto(r, location),
           location \in {"recording", "authenticated", "naming", "inserting"},
           pc[r] \in {"handling", "authenticated", "naming"},
           location = "recording" => pc[r] = "handling"
    PROVE  UploadInv'
<1>1. /\ pc \in [Requests -> {"idle", "guarded", "handling", "recording", "updating",
                            "authenticated", "naming", "inserting", "closing", "done"}]
      /\ pc'[r] = location
      /\ \A q \in Requests \ {r} : pc'[q] = pc[q] /\ reply'[q] = reply[q]
  BY DEF UploadInv, SessionInv, TypeInv, TypeOK, Goto
<1>2. Records(r) /\ Confirms(r) /\ Permitted(r)
  BY DEF UploadInv
<1>3. Records(r)' /\ Confirms(r)' /\ Permitted(r)'
  BY <1>1, <1>2 DEF Records, Confirms, Permitted, Allows, Public
<1>4. QED
  BY <1>1, <1>3, OneUpload

LEMMA UploadInvHolds == Spec => []UploadInv
<1>1. Init /\ SessionInv => UploadInv
  <2> SUFFICES ASSUME Init, SessionInv PROVE UploadInv
    OBVIOUS
  <2>1. ASSUME NEW r \in Requests, NEW n \in 1..MaxFiles PROVE assets[<<r, n>>] = "none"
    BY PendingAssumption DEF Init, InitUploads, Keys, Fresh
  <2>2. ASSUME NEW r \in Requests PROVE Records(r)
    BY <2>1 DEF Init, InitHttp, InitUploads, Records
  <2>3. ASSUME NEW r \in Requests PROVE Confirms(r) /\ Permitted(r)
    BY <2>1 DEF Init, InitHttp, InitUploads, Confirms, Permitted
  <2>4. QED
    BY <2>2, <2>3 DEF UploadInv
<1>2. UploadInv /\ [Next]_vars /\ SessionInv' => UploadInv'
  <2> SUFFICES ASSUME UploadInv, [Next]_vars, SessionInv' PROVE UploadInv'
    OBVIOUS
  <2>0. /\ pc \in [Requests -> {"idle", "guarded", "handling", "recording", "updating",
                            "authenticated", "naming", "inserting", "closing", "done"}]
        /\ HttpTypeOK /\ UploadTypeOK /\ TypeOK /\ TypeOK'
        /\ \A q \in Requests : /\ Records(q) /\ Confirms(q) /\ Permitted(q)
                               /\ Faithful(q) /\ Entitled(q) /\ Progress(q)
    BY DEF UploadInv, SessionInv, TypeInv, TypeOK
  <2>1. ASSUME NEW r \in Requests, Steps(r) PROVE UploadInv'
    <3>0. \A n \in 1..MaxFiles :
            pc[r] \in {"idle", "guarded"} \/ call[r].kind # "presign" =>
               assets[<<r, n>>] = "none"
      BY <2>0 DEF Records
    <3>1. ASSUME NEW c \in Calls, Arrive(r, c) \/ ArriveFails(r, c),
                 UNCHANGED <<assets, signed, users>>,
                 earlier' = [earlier EXCEPT ![r] = {k \in Keys : assets[k] = "confirmed"}]
          PROVE  UploadInv'
      <4>1. /\ \A q \in Requests \ {r} : /\ pc'[q] = pc[q] /\ call'[q] = call[q]
                                          /\ loaded'[q] = loaded[q] /\ reply'[q] = reply[q]
                                          /\ earlier'[q] = earlier[q]
            /\ earlier'[r] = {k \in Keys : assets[k] = "confirmed"}
            /\ pc[r] = "idle" /\ pc'[r] \in {"guarded", "closing"}
            /\ reply'[r] \in {"none", "error"} /\ signed[r] = 0
            /\ entitled \subseteq entitled'
        BY <2>0, <3>1 DEF Arrive, ArriveFails, Reply, Goto, TypeOK, HttpTypeOK, UploadTypeOK,
                          Progress
      <4>2. \A q \in Requests \ {r} : Records(q)' /\ Confirms(q)' /\ Permitted(q)'
        BY <2>0, <3>1, <4>1 DEF Records, Confirms, Permitted, Allows, Public
      <4>3. Records(r)' /\ Confirms(r)' /\ Permitted(r)'
        BY <2>0, <3>0, <3>1, <4>1 DEF Records, Confirms, Permitted
      <4>4. QED
        BY <4>2, <4>3 DEF UploadInv
    <3>2. CASE Guard(r) /\ UNCHANGED <<uploadVars, users>>
      <4>1. CASE Reply(r, "throttled") \/ Reply(r, "denied")
        BY <2>0, <3>0, <3>2, <4>1, OtherAnswers DEF Guard
      <4>2. CASE Allows(call[r], loaded[r]) /\ Goto(r, "handling") /\ UNCHANGED reply
        <5>1. /\ pc[r] = "guarded" /\ pc'[r] = "handling"
              /\ \A q \in Requests \ {r} : pc'[q] = pc[q] /\ reply'[q] = reply[q]
          BY <2>0, <3>2, <4>2 DEF Guard, Goto
        <5>2. Records(r)' /\ Confirms(r)' /\ Permitted(r)'
          BY <2>0, <3>2, <4>2, <5>1 DEF Guard, Records, Confirms, Permitted, Allows, Public
        <5>3. QED
          BY <3>2, <5>1, <5>2, OneUpload DEF Guard
      <4>3. QED
        BY <3>2, <4>1, <4>2 DEF Guard
    <3>3. CASE Close(r) /\ UNCHANGED <<uploadVars, users>>
      <4>1. /\ pc[r] = "closing" /\ pc'[r] = "done"
            /\ \A q \in Requests \ {r} : pc'[q] = pc[q] /\ reply'[q] = reply[q]
        BY <2>0, <3>3 DEF Close, Goto
      <4>2. Records(r)' /\ Confirms(r)' /\ Permitted(r)'
        BY <2>0, <3>3, <4>1 DEF Close, Records, Confirms, Permitted
      <4>3. QED
        BY <3>3, <4>1, <4>2, OneUpload DEF Close
    <3>4. CASE Presign(r) /\ UNCHANGED users
      BY <3>4, Onward, OtherAnswers DEF Presign, Handles, Breaks
    <3>5. CASE Record(r) /\ UNCHANGED users
      <4>1. /\ pc[r] = "recording" /\ call[r].kind = "presign" /\ reply[r] = "none"
            /\ signed[r] \in Nat /\ signed[r] < call[r].files
            /\ call[r].files \in 1..MaxFiles
        BY <2>0, <3>5, FilesAssumption DEF Record, Progress, TypeOK, HttpTypeOK, UploadTypeOK
      <4>2. r \in entitled
        BY <2>0, <4>1 DEF Permitted, Entitled, Allows, Public, Running
      <4>3. NextKey(r) \in Keys /\ assets[NextKey(r)] = "none"
        <5>1. signed[r] + 1 \in 1..MaxFiles /\ signed[r] + 1 > signed[r]
          BY <4>1, MaxFilesAssumption
        <5>2. QED
          BY <2>0, <4>1, <5>1 DEF NextKey, Keys, Fresh, Records
      <4>4. /\ \A k \in Keys : k # NextKey(r) => assets'[k] = assets[k]
            /\ assets'[NextKey(r)] \in {"none", "pending"}
        BY <2>0, <3>5, <4>3 DEF Record, UploadTypeOK
      <4>5. \A q \in Requests, n \in 1..MaxFiles :
               q # r \/ n # signed[r] + 1 => assets'[<<q, n>>] = assets[<<q, n>>]
        BY <4>4 DEF NextKey, Keys, Fresh
      <4>6. /\ \A q \in Requests \ {r} : /\ pc'[q] = pc[q] /\ reply'[q] = reply[q]
                                          /\ signed'[q] = signed[q]
            /\ UNCHANGED <<call, loaded, entitled, earlier>>
        BY <2>0, <3>5 DEF Record, Push, Breaks, Reply, Goto, TypeOK, UploadTypeOK
      <4>7. \A q \in Requests : call'[q].key \in Keys /\ earlier'[q] \subseteq Keys
        BY <2>0, <4>6, FilesAssumption DEF HttpTypeOK, UploadTypeOK
      <4>8. \A q \in Requests \ {r} : Records(q)' /\ Confirms(q)' /\ Permitted(q)'
        <5> SUFFICES ASSUME NEW q \in Requests \ {r}
                     PROVE  Records(q)' /\ Confirms(q)' /\ Permitted(q)'
          OBVIOUS
        <5>1. signed[q] \in 0..MaxFiles
          BY <2>0 DEF UploadTypeOK
        <5>2. Records(q)'
          BY <2>0, <4>5, <4>6, <5>1, MaxFilesAssumption DEF Records
        <5>3. Confirms(q)'
          BY <2>0, <4>3, <4>4, <4>6, <4>7 DEF Confirms
        <5>4. Permitted(q)'
          BY <2>0, <4>5, <4>6 DEF Permitted, Allows, Public
        <5>5. QED
          BY <5>2, <5>3, <5>4
      <4>9. /\ Confirms(r)' /\ Permitted(r)'
        <5>1. pc'[r] \in {"handling", "closing"}
          BY <2>0, <3>5 DEF Record, Push, Breaks, Reply, Goto
        <5>2. QED
          BY <2>0, <4>1, <4>2, <4>3, <4>4, <4>6, <4>7, <5>1
          DEF Confirms, Permitted, Allows, Public
      <4>10. CASE Push(r) /\ assets' = [assets EXCEPT ![NextKey(r)] = "pending"]
        <5>1. signed'[r] = signed[r] + 1
          BY <2>0, <4>10 DEF Push, UploadTypeOK
        <5>2. assets'[<<r, signed[r] + 1>>] = "pending"
          BY <2>0, <4>3, <4>10 DEF NextKey, UploadTypeOK
        <5>3. \/ pc'[r] = "closing" /\ reply'[r] = "ok" /\ signed'[r] = call'[r].files
              \/ pc'[r] = "handling" /\ reply'[r] = "none"
          BY <2>0, <4>1, <4>6, <4>10, <5>1 DEF Push, Reply, Goto, TypeOK
        <5>4. \A n \in 1..(signed[r] + 1) : assets'[<<r, n>>] # "none"
          BY <2>0, <4>1, <4>5, <5>2, MaxFilesAssumption DEF Records
        <5>5. \A n \in 1..MaxFiles : n > signed[r] + 1 => assets'[<<r, n>>] = "none"
          BY <2>0, <4>1, <4>5, MaxFilesAssumption DEF Records
        <5>6. Records(r)'
          BY <4>1, <4>6, <5>1, <5>3, <5>4, <5>5 DEF Records
        <5>7. QED
          BY <4>8, <4>9, <5>6 DEF UploadInv
      <4>11. CASE Breaks(r) /\ UNCHANGED signed
        <5>1. pc'[r] = "closing" /\ reply'[r] = "error"
          BY <2>0, <4>11 DEF Breaks, Reply, Goto, TypeOK
        <5>2. \A n \in 1..signed[r] : assets'[<<r, n>>] # "none"
          BY <2>0, <4>1, <4>5, MaxFilesAssumption DEF Records
        <5>3. Records(r)'
          BY <4>1, <4>6, <4>11, <5>1, <5>2 DEF Records
        <5>4. QED
          BY <4>8, <4>9, <5>3 DEF UploadInv
      <4>12. QED
        BY <3>5, <4>10, <4>11 DEF Record
    <3>6. CASE FindAsset(r) /\ UNCHANGED users
      <4>1. call[r].kind = "confirm" /\ pc[r] = "handling"
        BY <3>6 DEF FindAsset, Handles
      <4>2. CASE Reply(r, "unknown") \/ Reply(r, "already") \/ Breaks(r)
        BY <3>0, <3>6, <4>1, <4>2, OtherAnswers DEF FindAsset, Breaks
      <4>3. CASE /\ assets[call[r].key] = "pending"
                 /\ Goto(r, "updating") /\ UNCHANGED reply
        <5>1. /\ pc'[r] = "updating"
              /\ \A q \in Requests \ {r} : pc'[q] = pc[q] /\ reply'[q] = reply[q]
          BY <2>0, <4>3 DEF Goto
        <5>2. Records(r)'
          BY <2>0, <3>6, <4>1, <4>3, <5>1 DEF FindAsset, Records
        <5>3. Confirms(r)' /\ Permitted(r)'
          BY <2>0, <3>6, <4>1, <4>3, <5>1 DEF FindAsset, Confirms, Permitted, Allows, Public
        <5>4. QED
          BY <3>6, <5>1, <5>2, <5>3, OneUpload DEF FindAsset
      <4>4. QED
        BY <3>6, <4>2, <4>3 DEF FindAsset
    <3>7. CASE UpdateStatus(r) /\ UNCHANGED users
      <4>1. /\ call[r].kind = "confirm" /\ pc[r] = "updating" /\ reply[r] = "none"
            /\ call[r].key \in Keys /\ assets[call[r].key] # "none"
            /\ call[r].key \notin earlier[r]
        BY <2>0, <3>7, FilesAssumption
        DEF UpdateStatus, Progress, Confirms, TypeOK, HttpTypeOK
      <4>2. r \in entitled
        BY <2>0, <4>1 DEF Permitted, Entitled, Allows, Public, Running
      <4>3. /\ \A k \in Keys : assets'[k] = assets[k]
                               \/ (assets[k] # "none" /\ assets'[k] = "confirmed")
        BY <2>0, <3>7, <4>1 DEF UpdateStatus, UploadTypeOK
      <4>4. /\ pc'[r] = "closing" /\ reply'[r] \in {"ok", "error"}
            /\ reply'[r] = "ok" => assets'[call[r].key] = "confirmed"
            /\ \A q \in Requests \ {r} : pc'[q] = pc[q] /\ reply'[q] = reply[q]
        BY <2>0, <3>7, <4>1 DEF UpdateStatus, Breaks, Reply, Goto, TypeOK, UploadTypeOK
      <4>5. UNCHANGED <<call, loaded, entitled, signed, earlier>>
        BY <3>7 DEF UpdateStatus
      <4>6. \A q \in Requests, n \in 1..MaxFiles :
               assets'[<<q, n>>] = "none" <=> assets[<<q, n>>] = "none"
        BY <4>3 DEF Keys, Fresh
      <4>7. \A q \in Requests : Records(q)'
        <5> SUFFICES ASSUME NEW q \in Requests PROVE Records(q)'
          OBVIOUS
        <5>1. 1..signed[q] \subseteq 1..MaxFiles
          BY <2>0, MaxFilesAssumption DEF UploadTypeOK
        <5>2. QED
          BY <2>0, <4>1, <4>4, <4>5, <4>6, <5>1 DEF Records
      <4>8. \A q \in Requests : call'[q].key \in Keys /\ earlier'[q] \subseteq Keys
        BY <2>0, <4>5, FilesAssumption DEF HttpTypeOK, UploadTypeOK
      <4>9. \A q \in Requests : Confirms(q)'
        BY <2>0, <4>1, <4>3, <4>4, <4>5, <4>8 DEF Confirms
      <4>10. \A q \in Requests : Permitted(q)'
        BY <2>0, <4>1, <4>2, <4>4, <4>5, <4>6 DEF Permitted, Allows, Public
      <4>11. QED
        BY <4>7, <4>9, <4>10 DEF UploadInv
    <3>8. CASE Authenticate(r) /\ UNCHANGED uploadVars
      BY <3>0, <3>8, Onward, OtherAnswers DEF Authenticate, Public
    <3>9. CASE FindAccount(r) /\ UNCHANGED uploadVars
      <4>1. Public(call[r]) /\ call[r].kind # "presign"
        BY <2>0, <3>9 DEF FindAccount, Progress, Public
      <4>2. QED
        BY <3>0, <3>9, <4>1, Onward, OtherAnswers DEF FindAccount
    <3>10. CASE FindName(r) /\ UNCHANGED uploadVars
      <4>1. Public(call[r]) /\ call[r].kind # "presign"
        BY <2>0, <3>10 DEF FindName, Progress, Public
      <4>2. QED
        BY <3>0, <3>10, <4>1, Onward, OtherAnswers DEF FindName
    <3>11. CASE Insert(r) /\ UNCHANGED uploadVars
      <4>1. Public(call[r]) /\ call[r].kind # "presign"
        BY <2>0, <3>11 DEF Insert, Progress, Public
      <4>2. CASE \E a \in {"ok", "error"} : Reply(r, a)
        BY <3>0, <3>11, <4>1, <4>2, OtherAnswers DEF Insert
      <4>3. CASE Reply(r, "conflict")
        BY <3>0, <3>11, <4>1, <4>3, OtherAnswers DEF Insert
      <4>4. QED
        BY <3>11, <4>2, <4>3 DEF Insert, Reply
    <3>12. QED
      BY <2>1, <3>1, <3>2, <3>3, <3>4, <3>5, <3>6, <3>7, <3>8, <3>9, <3>10, <3>11 DEF Steps
  <2>2. CASE Environment /\ UNCHANGED <<uploadVars, users>>
    <3>1. UNCHANGED <<httpVars, uploadVars>>
      BY <2>2 DEF Environment, LoginServiceWrites, SessionExpires
    <3>2. QED
      BY <2>0, <3>1, UploadFrame DEF UploadInv
  <2>3. CASE (\E u \in users : Suspend(u)) /\ UNCHANGED uploadVars
    BY <2>0, <2>3, UploadFrame DEF Suspend, UploadInv
  <2>4. CASE UNCHANGED vars
    BY <2>0, <2>4, UploadFrame DEF vars, UploadInv
  <2>5. QED
    BY <2>1, <2>2, <2>3, <2>4, StepCases
<1>3. QED
  BY <1>1, <1>2, SessionInvHolds, PTL DEF Spec

\* URLs that were handed out have a record each, and records without URLs are
\* those of failed requests.
THEOREM UrlsAreBacked == Spec => []UrlsHaveRecords
<1>1. UploadInv => UrlsHaveRecords
  <2> SUFFICES ASSUME UploadInv, NEW r \in Requests
               PROVE  /\ call[r].kind = "presign" /\ reply[r] = "ok" =>
                            \A n \in 1..call[r].files : assets[<<r, n>>] # "none"
                      /\ pc[r] = "done" /\ (\E n \in 1..MaxFiles : assets[<<r, n>>] # "none")
                            => call[r].kind = "presign" /\ reply[r] \in {"ok", "error"}
    BY DEF UrlsHaveRecords
  <2>1. Records(r) /\ (pc[r] = "done" => reply[r] # "none")
    BY DEF UploadInv, SessionInv, TypeInv, TypeOK
  <2>2. QED
    BY <2>1 DEF Records
<1>2. QED
  BY <1>1, UploadInvHolds, PTL

\* A successful confirmation is about a record nobody had confirmed when the
\* request arrived.
THEOREM ConfirmationsAreNew == Spec => []ConfirmationsAreNews
<1>1. UploadInv => ConfirmationsAreNews
  BY DEF UploadInv, Confirms, ConfirmationsAreNews
<1>2. QED
  BY <1>1, UploadInvHolds, PTL

\* Records are made and confirmed for administrators only.
THEOREM OnlyAdministratorsUpload == Spec => []AssetsAreAdministrators
<1>1. ASSUME UploadInv, NEW k \in Fresh, assets[k] # "none" PROVE k[1] \in entitled
  <2>1. k[1] \in Requests /\ k[2] \in 1..MaxFiles /\ k = <<k[1], k[2]>>
    BY DEF Fresh
  <2>2. QED
    BY <1>1, <2>1 DEF UploadInv, Permitted
<1>2. UploadInv => AssetsAreAdministrators
  BY <1>1 DEF UploadInv, Permitted, AssetsAreAdministrators
<1>3. QED
  BY <1>2, UploadInvHolds, PTL

------------------------------------------------------------------------------
(* Accounts.                                                                *)

\* A profile has the fields of a profile.
IsProfile(u) ==
    u = [uid |-> u.uid, username |-> u.username, email |-> u.email,
         emailVerified |-> u.emailVerified, phone |-> u.phone,
         phoneVerified |-> u.phoneVerified, status |-> u.status]

\* Two profiles have nothing in common that an index keeps unique.
Apart(u, v) ==
    /\ u.uid # v.uid /\ u.username # v.username
    /\ u.emailVerified /\ v.emailVerified => u.email # v.email
    /\ u.phoneVerified /\ v.phoneVerified => u.phone # v.phone

\* Whose contacts Firebase vouches for.
Vouched(u) ==
    \E t \in DOMAIN Firebase :
        LET a == Firebase[t] IN
        /\ a.uid = u.uid /\ ~a.disabled
        /\ u.emailVerified => a.emailVerified /\ a.email # "none"
                              /\ u.email = Lower[a.email]
        /\ u.phoneVerified => a.phone # "none" /\ u.phone = a.phone
        /\ u.emailVerified \/ u.phoneVerified

\* A request that gets as far as the insertion has shown a token that Firebase
\* accepts, of an account with a verified contact.
Authenticated(r) ==
    /\ pc[r] \in {"authenticated", "naming", "inserting"} =>
          /\ call[r].token \in DOMAIN Firebase
          /\ ~Account(r).disabled
          /\ call[r].kind = "register" =>
                EmailVerified(Account(r)) \/ PhoneVerified(Account(r))

AccountInv ==
    /\ TypeInv
    /\ \A r \in Requests : Authenticated(r)
    /\ \A u \in users : IsProfile(u) /\ Vouched(u)
    /\ \A u, v \in users : u = v \/ Apart(u, v)

\* A new profile that clashes with none is apart from every other.
LEMMA NewProfile ==
    ASSUME NEW r, NEW u \in users, IsProfile(u), ~Clashes(Profile(r))
    PROVE  Apart(u, Profile(r)) /\ Apart(Profile(r), u)
<1> DEFINE p == Profile(r)
<1>1. /\ u.uid # p.uid /\ ~SameName(u, p) /\ ~SameEmail(u, p) /\ ~SamePhone(u, p)
  BY DEF Clashes
<1> HIDE DEF p
<1>2. Apart(u, p) /\ Apart(p, u)
  BY <1>1 DEF SameName, SameEmail, SamePhone, Apart
<1>3. QED
  BY <1>2 DEF p

\* A profile made for an authenticated registration is vouched for.
LEMMA NewProfileVouched ==
    ASSUME NEW r \in Requests, Authenticated(r), pc[r] = "inserting",
           call[r].kind = "register"
    PROVE  IsProfile(Profile(r)) /\ Vouched(Profile(r))
<1>1. IsProfile(Profile(r))
  BY DEF IsProfile, Profile
<1> DEFINE a == Account(r)
<1>2. /\ call[r].token \in DOMAIN Firebase /\ a = Firebase[call[r].token]
      /\ ~a.disabled /\ (EmailVerified(a) \/ PhoneVerified(a))
  BY DEF Authenticated, Account
<1>3. /\ Profile(r).uid = a.uid
      /\ Profile(r).emailVerified = EmailVerified(a)
      /\ Profile(r).phoneVerified = PhoneVerified(a)
      /\ Profile(r).email = Lower[Email(r)] /\ Profile(r).phone = Phone(r)
  BY DEF Profile
<1>4. /\ EmailVerified(a) => Email(r) = a.email /\ a.emailVerified /\ a.email # "none"
      /\ PhoneVerified(a) => Phone(r) = a.phone /\ a.phone # "none"
  BY DEF Email, Phone, EmailVerified, PhoneVerified
<1> HIDE DEF a
<1>5. Vouched(Profile(r))
  BY <1>2, <1>3, <1>4 DEF Vouched
<1>6. QED
  BY <1>1, <1>5

\* A suspension changes nothing that must be unique or vouched for.
LEMMA SuspensionFrame ==
    ASSUME NEW u, IsProfile(u), Vouched(u)
    PROVE  LET w == [u EXCEPT !.status = "SUSPENDED"] IN
           /\ IsProfile(w) /\ Vouched(w)
           /\ \A v : Apart(u, v) => Apart(w, v)
           /\ \A v : Apart(v, u) => Apart(v, w)
<1> DEFINE w == [u EXCEPT !.status = "SUSPENDED"]
<1>1. w = [uid |-> u.uid, username |-> u.username, email |-> u.email,
           emailVerified |-> u.emailVerified, phone |-> u.phone,
           phoneVerified |-> u.phoneVerified, status |-> "SUSPENDED"]
  BY DEF IsProfile
<1> HIDE DEF w
<1>2. /\ w.uid = u.uid /\ w.username = u.username /\ w.email = u.email
      /\ w.emailVerified = u.emailVerified /\ w.phone = u.phone
      /\ w.phoneVerified = u.phoneVerified /\ w.status = "SUSPENDED"
  BY <1>1
<1>3. IsProfile(w)
  BY <1>1, <1>2 DEF IsProfile
<1>4. Vouched(w)
  BY <1>2 DEF Vouched
<1>5. /\ \A v : Apart(u, v) => Apart(w, v)
      /\ \A v : Apart(v, u) => Apart(v, w)
  BY <1>2 DEF Apart
<1>6. QED
  BY <1>3, <1>4, <1>5 DEF w

LEMMA AccountInvHolds == Spec => []AccountInv
<1>1. Init /\ TypeInv => AccountInv
  BY DEF Init, InitHttp, InitAccounts, AccountInv, Authenticated
<1>2. AccountInv /\ [Next]_vars /\ TypeInv' => AccountInv'
  <2> SUFFICES ASSUME AccountInv, [Next]_vars, TypeInv' PROVE AccountInv'
    OBVIOUS
  <2>0. /\ TypeOK /\ HttpTypeOK
        /\ \A q \in Requests : Authenticated(q) /\ Progress(q)
    BY DEF AccountInv, TypeInv, TypeOK
  <2>1. ASSUME NEW r \in Requests, Steps(r) PROVE AccountInv'
    <3>1. CASE UNCHANGED <<call, users>>
      <4>1. \A q \in Requests : Authenticated(q)'
        <5>1. CASE pc'[r] \notin {"authenticated", "naming", "inserting"}
          BY <2>0, <2>1, <3>1, <5>1
          DEF Steps, Arrive, ArriveFails, Guard, Close, Presign, Record, FindAsset,
              UpdateStatus, Authenticate, FindAccount, FindName, Insert, Push, Breaks,
              Reply, Goto, Authenticated, Account, TypeOK
        <5>2. CASE pc'[r] \in {"authenticated", "naming", "inserting"}
          <6>1. Authenticate(r) \/ FindAccount(r) \/ FindName(r)
            BY <2>0, <2>1, <5>2
            DEF Steps, Arrive, ArriveFails, Guard, Close, Presign, Record, FindAsset,
                UpdateStatus, Insert, Push, Breaks, Reply, Goto, TypeOK
          <6>2. QED
            BY <2>0, <3>1, <5>2, <6>1
            DEF Authenticate, FindAccount, FindName, Reply, Goto, Authenticated, Account,
                TypeOK
        <5>3. QED
          BY <5>1, <5>2
      <4>2. QED
        BY <3>1, <4>1 DEF AccountInv
    <3>2. ASSUME NEW c \in Calls, Arrive(r, c) \/ ArriveFails(r, c), UNCHANGED users
          PROVE  AccountInv'
      <4>1. \A q \in Requests : Authenticated(q)'
        BY <2>0, <3>2 DEF Arrive, ArriveFails, Reply, Goto, Authenticated, Account,
                          TypeOK, HttpTypeOK
      <4>2. QED
        BY <3>2, <4>1 DEF AccountInv
    <3>3. CASE Insert(r) /\ users' = users \cup {Profile(r)} /\ ~Clashes(Profile(r))
      <4>1. pc[r] = "inserting" /\ call[r].kind = "register" /\ UNCHANGED call
        BY <2>0, <3>3 DEF Insert, Progress
      <4>2. IsProfile(Profile(r)) /\ Vouched(Profile(r))
        BY <2>0, <4>1, NewProfileVouched
      <4>3. \A u, v \in users' : u = v \/ Apart(u, v)
        BY <3>3, NewProfile DEF AccountInv
      <4>4. \A q \in Requests : Authenticated(q)'
        BY <2>0, <3>3, <4>1 DEF Insert, Reply, Goto, Authenticated, Account, TypeOK
      <4>5. QED
        BY <3>3, <4>2, <4>3, <4>4 DEF AccountInv
    <3>4. QED
      BY <2>1, <3>1, <3>2, <3>3
      DEF Steps, Guard, Close, Presign, Record, FindAsset, UpdateStatus, Authenticate,
          FindAccount, FindName, Insert
  <2>2. CASE Environment /\ UNCHANGED <<uploadVars, users>>
    BY <2>2 DEF Environment, LoginServiceWrites, SessionExpires, AccountInv, Authenticated,
                Account
  <2>3. ASSUME NEW u \in users, Suspend(u) PROVE AccountInv'
    <3> DEFINE w == [u EXCEPT !.status = "SUSPENDED"]
    <3>1. /\ IsProfile(w) /\ Vouched(w)
          /\ \A v : Apart(u, v) => Apart(w, v)
          /\ \A v : Apart(v, u) => Apart(v, w)
      BY SuspensionFrame DEF AccountInv
    <3>2. users' = (users \ {u}) \cup {w} /\ UNCHANGED <<pc, call>>
      BY <2>3 DEF Suspend
    <3> HIDE DEF w
    <3>3. \A q \in Requests : Authenticated(q)'
      BY <2>0, <3>2 DEF Authenticated, Account
    <3>4. \A x, y \in users' : x = y \/ Apart(x, y)
      BY <3>1, <3>2 DEF AccountInv
    <3>5. QED
      BY <3>1, <3>2, <3>3, <3>4 DEF AccountInv
  <2>4. CASE UNCHANGED vars
    BY <2>4 DEF vars, AccountInv, Authenticated, Account
  <2>5. QED
    BY <2>1, <2>2, <2>3, <2>4, StepCases
<1>3. QED
  BY <1>1, <1>2, TypeInvHolds, PTL DEF Spec

\* However many registrations run at once, profiles share no account, no username
\* and no verified contact.
THEOREM ProfilesAreUnique == Spec => []OneProfileEach
<1>1. AccountInv => OneProfileEach
  BY DEF AccountInv, Apart, OneProfileEach
<1>2. QED
  BY <1>1, AccountInvHolds, PTL

\* No contact is marked verified on the word of the form.
THEOREM ContactsAreFirebases == Spec => []VerifiedContactsAreFirebases
<1>1. AccountInv => VerifiedContactsAreFirebases
  BY DEF AccountInv, Vouched, VerifiedContactsAreFirebases
<1>2. QED
  BY <1>1, AccountInvHolds, PTL

------------------------------------------------------------------------------
(* Answers.                                                                 *)

\* What the answer to one request says of the profiles.
Mine(u, r)  == u.uid = Account(r).uid
Named(u, r) == u.username = Trim[call[r].username]
Shares(u, r) ==
    \/ u.emailVerified /\ EmailVerified(Account(r)) /\ u.email = Lower[Account(r).email]
    \/ u.phoneVerified /\ u.phone = Account(r).phone

TrueAnswer(r) ==
    /\ Public(call[r]) /\ reply[r] = "ok" => \E u \in users : Mine(u, r)
    /\ reply[r] \in {"registered", "inactive"} => \E u \in users : Mine(u, r)
    /\ reply[r] = "taken" => \E u \in users : Named(u, r)
    /\ reply[r] = "conflict" =>
          \E u \in users : Mine(u, r) \/ Named(u, r) \/ Shares(u, r)

AnswerInv == AccountInv /\ \A r \in Requests : TrueAnswer(r)

\* Nothing that makes an answer true is lost.
Alike(u, v) ==
    /\ v.uid = u.uid /\ v.username = u.username
    /\ v.email = u.email /\ v.emailVerified = u.emailVerified
    /\ v.phone = u.phone /\ v.phoneVerified = u.phoneVerified

Lasting == \A u \in users : \E v \in users' : Alike(u, v)

\* Answers that say nothing of profiles.
Plain == {"none", "error", "throttled", "denied", "unknown", "already",
          "unauthorized", "missing"}

LEMMA AnswerStaysTrue ==
    ASSUME NEW q \in Requests, TrueAnswer(q), Lasting, call'[q] = call[q],
           reply'[q] = reply[q]
    PROVE  TrueAnswer(q)'
<1>1. \A u, v : Alike(u, v) => /\ Mine(u, q) => Mine(v, q)'
                               /\ Named(u, q) => Named(v, q)'
                               /\ Shares(u, q) => Shares(v, q)'
  BY DEF Alike, Mine, Named, Shares, Account, EmailVerified
<1>2. Public(call[q]) = Public(call'[q])
  OBVIOUS
<1> HIDE DEF Public
<1>3. QED
  BY <1>1, <1>2 DEF TrueAnswer, Lasting

LEMMA PlainAnswerIsTrue ==
    ASSUME NEW q, reply[q] \in Plain
    PROVE  TrueAnswer(q)
BY DEF Plain, TrueAnswer

\* A refusal by an index names what it refuses: a contact that is marked in both
\* profiles is the one Firebase verified, not the one in the form.
LEMMA ClashIsShared ==
    ASSUME NEW r \in Requests, Clashes(Profile(r))
    PROVE  \E u \in users : Mine(u, r) \/ Named(u, r) \/ Shares(u, r)
<1> DEFINE p == Profile(r)
<1>1. PICK u \in users : \/ u.uid = p.uid \/ SameName(u, p)
                         \/ SameEmail(u, p) \/ SamePhone(u, p)
  BY DEF Clashes
<1>2. /\ p.uid = Account(r).uid /\ p.username = Trim[call[r].username]
      /\ p.emailVerified = EmailVerified(Account(r)) /\ p.email = Lower[Email(r)]
      /\ p.phoneVerified = PhoneVerified(Account(r)) /\ p.phone = Phone(r)
  BY DEF Profile
<1>3. /\ EmailVerified(Account(r)) => Email(r) = Account(r).email
      /\ PhoneVerified(Account(r)) => Phone(r) = Account(r).phone
  BY DEF Email, Phone
<1> HIDE DEF p
<1>4. Mine(u, r) \/ Named(u, r) \/ Shares(u, r)
  BY <1>1, <1>2, <1>3 DEF SameName, SameEmail, SamePhone, Mine, Named, Shares
<1>5. QED
  BY <1>4

LEMMA AnswerInvHolds == Spec => []AnswerInv
<1>1. Init /\ AccountInv => AnswerInv
  BY PlainAnswerIsTrue DEF Init, InitHttp, AnswerInv, Plain
<1>2. AnswerInv /\ [Next]_vars /\ AccountInv' => AnswerInv'
  <2> SUFFICES ASSUME AnswerInv, [Next]_vars, AccountInv' PROVE AnswerInv'
    OBVIOUS
  <2>0. /\ TypeOK /\ HttpTypeOK
        /\ \A q \in Requests : TrueAnswer(q) /\ Progress(q)
    BY DEF AnswerInv, AccountInv, TypeInv, TypeOK
  <2>1. ASSUME NEW r \in Requests, Steps(r) PROVE AnswerInv'
    <3>1. Lasting
      BY <2>1 DEF Steps, Arrive, ArriveFails, Guard, Close, Presign, Record, FindAsset,
          UpdateStatus, Authenticate, FindAccount, FindName, Insert, Lasting, Alike
    <3>2. \A q \in Requests \ {r} : call'[q] = call[q] /\ reply'[q] = reply[q]
      BY <2>0, <2>1
      DEF Steps, Arrive, ArriveFails, Guard, Close, Presign, Record, FindAsset,
          UpdateStatus, Authenticate, FindAccount, FindName, Insert, Push, Breaks,
          Reply, Goto, TypeOK, HttpTypeOK
    <3>3. TrueAnswer(r)'
      <4>1. CASE reply'[r] \in Plain
        BY <4>1 DEF Plain, TrueAnswer
      <4>2. CASE UNCHANGED <<call, reply>>
        BY <2>0, <3>1, <4>2, AnswerStaysTrue
      <4>3. CASE Record(r) \/ UpdateStatus(r)
        <5>1. call[r].kind \in {"presign", "confirm"} /\ UNCHANGED call
          BY <2>0, <4>3 DEF Record, UpdateStatus, Progress
        <5>2. reply'[r] \in {reply[r], "ok", "error"} /\ reply[r] = "none"
          BY <2>0, <4>3 DEF Record, UpdateStatus, Push, Breaks, Reply, Goto, TypeOK
        <5>3. QED
          BY <5>1, <5>2 DEF TrueAnswer, Public
      <4>4. CASE FindAccount(r) /\ reply'[r] \notin Plain
        <5>1. reply'[r] \in {"registered", "ok", "inactive"} /\ UNCHANGED <<call, users>>
              /\ \E u \in users : u.uid = Account(r).uid
          BY <2>0, <4>4 DEF FindAccount, Reply, Goto, Plain, TypeOK
        <5>2. QED
          BY <5>1 DEF TrueAnswer, Mine, Account
      <4>5. CASE FindName(r) /\ reply'[r] \notin Plain
        <5>1. reply'[r] = "taken" /\ UNCHANGED <<call, users>>
              /\ \E u \in users : u.username = Trim[call[r].username]
          BY <2>0, <4>5 DEF FindName, Reply, Goto, Plain, TypeOK
        <5>2. QED
          BY <5>1 DEF TrueAnswer, Named
      <4>6. CASE Insert(r) /\ Clashes(Profile(r)) /\ reply'[r] = "conflict" /\ UNCHANGED users
        <5>1. UNCHANGED call
          BY <4>6 DEF Insert
        <5>2. \E u \in users : Mine(u, r) \/ Named(u, r) \/ Shares(u, r)
          BY <4>6, ClashIsShared
        <5>3. QED
          BY <4>6, <5>1, <5>2 DEF TrueAnswer, Mine, Named, Shares, Account, EmailVerified
      <4>7. CASE Insert(r) /\ users' = users \cup {Profile(r)} /\ reply'[r] = "ok"
        <5>1. Profile(r).uid = Account(r).uid /\ UNCHANGED call
          BY <4>7 DEF Insert, Profile
        <5>2. QED
          BY <4>7, <5>1 DEF TrueAnswer, Mine, Account
      <4>8. QED
        <5>1. reply[r] \in Plain \/ pc[r] = "closing"
          BY <2>0, <2>1
          DEF Steps, Arrive, ArriveFails, Guard, Close, Presign, Record, FindAsset,
              UpdateStatus, Authenticate, FindAccount, FindName, Insert, Handles,
              TypeOK, Plain
        <5>2. CASE Insert(r)
          BY <2>0, <4>1, <4>6, <4>7, <5>2 DEF Insert, Reply, Goto, Plain, TypeOK
        <5>3. CASE Steps(r) /\ ~Insert(r)
          BY <2>0, <4>1, <4>2, <4>3, <4>4, <4>5, <5>1, <5>3
          DEF Steps, Arrive, ArriveFails, Guard, Close, Presign, FindAsset,
              Authenticate, FindAccount, FindName, Breaks, Reply, Goto, Plain, TypeOK
        <5>4. QED
          BY <2>1, <5>2, <5>3
    <3>4. \A q \in Requests : TrueAnswer(q)'
      BY <2>0, <3>1, <3>2, <3>3, AnswerStaysTrue
    <3>5. QED
      BY <3>4 DEF AnswerInv
  <2>2. CASE UNCHANGED <<call, reply, users>>
    <3>1. Lasting
      BY <2>2 DEF Lasting, Alike
    <3>2. \A q \in Requests : TrueAnswer(q)'
      BY <2>0, <2>2, <3>1, AnswerStaysTrue
    <3>3. QED
      BY <3>2 DEF AnswerInv
  <2>3. ASSUME NEW u \in users, Suspend(u) PROVE AnswerInv'
    <3>1. IsProfile(u) /\ users' = (users \ {u}) \cup {[u EXCEPT !.status = "SUSPENDED"]}
          /\ UNCHANGED <<call, reply>>
      BY <2>3 DEF Suspend, AnswerInv, AccountInv
    <3>2. Alike(u, [u EXCEPT !.status = "SUSPENDED"])
      BY <3>1 DEF IsProfile, Alike
    <3>3. Lasting
      BY <3>1, <3>2 DEF Lasting, Alike
    <3>4. \A q \in Requests : TrueAnswer(q)'
      BY <2>0, <3>1, <3>3, AnswerStaysTrue
    <3>5. QED
      BY <3>4 DEF AnswerInv
  <2>4. CASE Environment /\ UNCHANGED <<uploadVars, users>>
    BY <2>2, <2>4 DEF Environment, LoginServiceWrites, SessionExpires
  <2>5. CASE UNCHANGED vars
    BY <2>2, <2>5 DEF vars
  <2>6. QED
    BY <2>1, <2>3, <2>4, <2>5, StepCases
<1>3. QED
  BY <1>1, <1>2, AccountInvHolds, PTL DEF Spec

\* What the service answers about profiles is so, and stays so.
THEOREM AnswersHold == Spec => []AnswersAreTrue
<1>1. AnswerInv => AnswersAreTrue
  BY DEF AnswerInv, TrueAnswer, Mine, Named, Shares, AnswersAreTrue
<1>2. QED
  BY <1>1, AnswerInvHolds, PTL
==============================================================================
