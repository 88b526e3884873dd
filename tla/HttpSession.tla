---------------------------- MODULE HttpSession -----------------------------
(***************************************************************************)
(* The frame every HTTP request of the portal runs in: the session is read *)
(* from the cache, the guards decide, a handler answers, and the session   *)
(* is written back to refresh its time to live (CacheSessionStore, behind  *)
(* express-session with resave and saveUninitialized off).                 *)
(*                                                                         *)
(* Nothing in this repository signs anybody in or out: sessions are the    *)
(* login service's, which shares the store.  It is modelled by its writes. *)
(***************************************************************************)
EXTENDS Integers, FiniteSets

CONSTANTS
    Requests,   \* HTTP requests
    Calls,      \* what a request may ask for
    Sids,       \* session cookies; a call without one has sid "no cookie"
    MaxWrites   \* bound on the login service's writes

Roles   == {"ADMIN", "CUSTOMER"}
Session == Roles \cup {"none", "anonymous"}

ASSUME SidsAssumption == IsFiniteSet(Sids) /\ "no cookie" \notin Sids
ASSUME CallsAssumption ==
    Calls # {} /\ \A c \in Calls : c.sid \in Sids \cup {"no cookie"}

VARIABLES
    pc,        \* where each request stands
    call,      \* what it asks for
    loaded,    \* the session it runs with
    reply,     \* its answer
    store,     \* the sessions in the cache
    writes,    \* the login service's writes so far, for the bound
    \* ------------ history, read by properties only
    granted,   \* what the login service last wrote to each session
    stale,     \* sessions with a request on its way at that write
    entitled   \* requests whose user was, on arrival, an administrator

sessionVars == <<store, writes, granted, stale>>
httpVars    == <<pc, call, loaded, reply, entitled>>

Running(r) == pc[r] \notin {"idle", "done"}

InitHttp ==
    /\ pc = [r \in Requests |-> "idle"]
    /\ call \in [Requests -> {CHOOSE c \in Calls : TRUE}]
    /\ loaded = [r \in Requests |-> "none"]
    /\ reply = [r \in Requests |-> "none"]
    /\ store \in [Sids -> Roles \cup {"none"}]
    /\ writes = 0
    /\ granted = store
    /\ stale = {}
    /\ entitled = {}

Goto(r, location) == pc' = [pc EXCEPT ![r] = location]

Reply(r, answer) ==
    /\ reply' = [reply EXCEPT ![r] = answer]
    /\ Goto(r, "closing")

------------------------------------------------------------------------------
(* Arrival: store.get, ThrottlerGuard, RolesGuard.                          *)

Public(c) == c.kind \in {"register", "me"}

MutantAllows(c, session) == Public(c) \/ session # "none"

\* RolesGuard: both upload routes want an administrator.
Allows(c, session) == Public(c) \/ session = "ADMIN"

\* express-session takes a missing session for none.
Fetch(sid) == IF sid \in Sids THEN store[sid] ELSE "none"

\* The session is read ...
Arrive(r, c) ==
    /\ pc[r] = "idle"
    /\ call' = [call EXCEPT ![r] = c]
    /\ loaded' = [loaded EXCEPT ![r] = Fetch(c.sid)]
    /\ Goto(r, "guarded")
    /\ entitled' = IF c.sid \in stale \/ (c.sid \in Sids /\ granted[c.sid] = "ADMIN")
                   THEN entitled \cup {r} ELSE entitled
    /\ UNCHANGED <<reply, sessionVars>>

\* ... or the cache fails, and with it the request: 500, and nothing to touch.
ArriveFails(r, c) ==
    /\ pc[r] = "idle"
    /\ c.sid \in Sids
    /\ call' = [call EXCEPT ![r] = c]
    /\ Reply(r, "error")
    /\ UNCHANGED <<loaded, entitled, sessionVars>>

\* 429 of the throttler, 401 or 403 of the roles, or on to the handler.
Guard(r) ==
    /\ pc[r] = "guarded"
    /\ \/ Reply(r, "throttled")
       \/ ~Allows(call[r], loaded[r]) /\ Reply(r, "denied")
       \/ Allows(call[r], loaded[r]) /\ Goto(r, "handling") /\ UNCHANGED reply
    /\ UNCHANGED <<call, loaded, entitled, sessionVars>>

------------------------------------------------------------------------------
(* The end of the response.                                                 *)

MutantTouch(r) ==
    LET sid == call[r].sid IN
    IF sid \in Sids /\ (loaded[r] # "none" \/ store[sid] = "none")
    THEN [store EXCEPT ![sid] = IF loaded[r] = "none" THEN "anonymous" ELSE loaded[r]]
    ELSE store

\* touch: the session as the request loaded it is written whole.  A request that
\* found none has a new, uninitialized session, which is not saved.
Touch(r) == IF loaded[r] = "none" THEN store
            ELSE [store EXCEPT ![call[r].sid] = loaded[r]]

MutantClose(r) ==
    /\ pc[r] = "closing"
    /\ \/ loaded[r] = "none" /\ UNCHANGED <<pc, store>>
       \/ loaded[r] # "none" /\ Goto(r, "done") /\ store' = Touch(r)
    /\ UNCHANGED <<call, loaded, reply, entitled, writes, granted, stale>>

\* The response ends whether or not the touch succeeds.
Close(r) ==
    /\ pc[r] = "closing"
    /\ Goto(r, "done")
    /\ store' \in {store, Touch(r)}
    /\ UNCHANGED <<call, loaded, reply, entitled, writes, granted, stale>>

------------------------------------------------------------------------------
(* The login service and the cache's clock.                                 *)

Overlapped(s) == \E r \in Requests :
                    Running(r) /\ call[r].sid = s /\ loaded[r] # "none"

\* A sign-in, a change of role, a sign-out.
LoginServiceWrites(s, session) ==
    /\ writes < MaxWrites
    /\ writes' = writes + 1
    /\ store' = [store EXCEPT ![s] = session]
    /\ granted' = [granted EXCEPT ![s] = session]
    /\ stale' = IF Overlapped(s) THEN stale \cup {s} ELSE stale \ {s}
    /\ UNCHANGED httpVars

\* Eight hours without a request.
SessionExpires(s) ==
    /\ store[s] # "none"
    /\ store' = [store EXCEPT ![s] = "none"]
    /\ UNCHANGED <<writes, granted, stale, httpVars>>

Environment ==
    \E s \in Sids : \/ \E session \in Roles \cup {"none"} : LoginServiceWrites(s, session)
                    \/ SessionExpires(s)

------------------------------------------------------------------------------
\* The shape of the state of every request and session.
HttpTypeOK ==
    /\ call \in [Requests -> Calls]
    /\ loaded \in [Requests -> Session]
    /\ store \in [Sids -> Session]
    /\ granted \in [Sids -> Session]
    /\ stale \subseteq Sids
    /\ entitled \subseteq Requests

\* A session is what the login service last made of it, or expired, unless a
\* request was running on it when that was written: touch may revive or promote
\* a session only for those.  In particular a sign-out that no request overlaps
\* is final, and requests without a session leave none behind.
SessionsFollowTheLogin ==
    \A s \in Sids \ stale : store[s] \in {granted[s], "none"}
==============================================================================
