------------------------------- MODULE Portal -------------------------------
(***************************************************************************)
(* The uploads and the accounts behind one HTTP front and one session      *)
(* store: AppModule without the quotes, whose handlers read no session.    *)
(***************************************************************************)
EXTENDS MediaUploads, Accounts

vars == <<httpVars, sessionVars, uploadVars, users>>

Init == InitHttp /\ InitUploads /\ InitAccounts

\* A request arrives; what is confirmed by then is remembered.
Begin(r) ==
    /\ \E c \in Calls : Arrive(r, c) \/ ArriveFails(r, c)
    /\ earlier' = [earlier EXCEPT ![r] = {k \in Keys : assets[k] = "confirmed"}]
    /\ UNCHANGED <<assets, signed, users>>

Handle(r) ==
    \/ (Guard(r) \/ Close(r)) /\ UNCHANGED <<uploadVars, users>>
    \/ HandleUploads(r) /\ UNCHANGED users
    \/ HandleAccounts(r) /\ UNCHANGED uploadVars

Outside ==
    \/ Environment /\ UNCHANGED <<uploadVars, users>>
    \/ \E u \in users : Suspend(u) /\ UNCHANGED uploadVars

\* Every request has been answered.
Quiet == (\A r \in Requests : pc[r] = "done") /\ UNCHANGED vars

Next ==
    \/ \E r \in Requests : Begin(r) \/ Handle(r)
    \/ Outside
    \/ Quiet

Spec == Init /\ [][Next]_vars

\* Every await settles: the drivers of the cache, of MongoDB and of the storage,
\* and the Firebase SDK, answer or give up.  Nobody has to send a request.
FairSpec == Spec /\ \A r \in Requests : WF_vars(Handle(r))

\* The shape of the state.
TypeOK ==
    /\ HttpTypeOK /\ UploadTypeOK
    /\ pc \in [Requests -> {"idle", "guarded", "handling", "recording", "updating",
                            "authenticated", "naming", "inserting", "closing", "done"}]
    /\ reply \in [Requests -> {"none", "error", "throttled", "denied", "ok",
                               "unknown", "already", "unauthorized", "registered",
                               "missing", "inactive", "taken", "conflict"}]
    /\ \A r \in Requests : pc[r] \in {"closing", "done"} <=> reply[r] # "none"

\* Every request that arrives is answered, whichever of its steps fails.
EveryRequestAnswered == \A r \in Requests : pc[r] # "idle" ~> pc[r] = "done"
==============================================================================
