------------------------------ MODULE Accounts ------------------------------
(***************************************************************************)
(* AuthController, AuthService and UserService: the profile of a Firebase  *)
(* account is created once, and read back.  Between the look-ups and the   *)
(* insertion other registrations run; the unique indexes have the last     *)
(* word.                                                                   *)
(***************************************************************************)
EXTENDS HttpSession

CONSTANTS
    Firebase,    \* the account behind each ID token that Firebase accepts
    Lower,       \* trim and toLowerCase, on the e-mail addresses used
    Trim,        \* trim, on the usernames used
    ShortNames   \* usernames with fewer than three characters when trimmed

ASSUME TrimAssumption == \A c \in Calls : c.username \in DOMAIN Trim
ASSUME LowerAssumption ==
    /\ \A t \in DOMAIN Firebase : Firebase[t].email \in DOMAIN Lower
    /\ \A c \in Calls : c.email \in DOMAIN Lower

VARIABLE users   \* the user collection

InitAccounts == users = {}

Account(r) == Firebase[call[r].token]

\* Firebase vouches for an e-mail when it says so, for a phone by having one.
EmailVerified(a) == a.emailVerified /\ a.email # "none"
PhoneVerified(a) == a.phone # "none"

MutantEmail(r) == IF call[r].email # "none" THEN call[r].email ELSE Account(r).email

\* registerUser: a verified address is Firebase's, any other the form's.
Email(r) == IF EmailVerified(Account(r)) THEN Account(r).email ELSE call[r].email
Phone(r) == IF PhoneVerified(Account(r)) THEN Account(r).phone ELSE call[r].phone

\* User.create, ACTIVE from the start.
Profile(r) ==
    [uid |-> Account(r).uid, username |-> Trim[call[r].username],
     email |-> Lower[Email(r)], emailVerified |-> EmailVerified(Account(r)),
     phone |-> Phone(r), phoneVerified |-> PhoneVerified(Account(r)),
     status |-> "ACTIVE"]

MutantSameName(u, p) == u.username = p.username /\ u.emailVerified

\* The unique indexes; those on contacts hold verified ones only.
SameName(u, p)  == u.username = p.username

MutantSameEmail(u, p) == u.email = p.email /\ u.email # "none"

SameEmail(u, p) == u.emailVerified /\ p.emailVerified /\ u.email = p.email
SamePhone(u, p) == u.phoneVerified /\ p.phoneVerified /\ u.phone = p.phone
Clashes(p) == \E u \in users : \/ u.uid = p.uid
                               \/ SameName(u, p)
                               \/ SameEmail(u, p) \/ SamePhone(u, p)

------------------------------------------------------------------------------
\* getFirebaseUser: 401 unless Firebase knows the token, and to register one
\* needs a verified contact.  The look-up may fail for any token.
Authenticate(r) ==
    /\ pc[r] = "handling" /\ Public(call[r])
    /\ \/ Reply(r, "unauthorized")
       \/ /\ call[r].token \in DOMAIN Firebase
          /\ ~Account(r).disabled
          /\ call[r].kind = "register" =>
                EmailVerified(Account(r)) \/ PhoneVerified(Account(r))
          /\ Goto(r, "authenticated") /\ UNCHANGED reply
    /\ UNCHANGED <<call, loaded, entitled, sessionVars, users>>

\* findByUserId.  Registering: 400 for an account with a profile.  Reading back:
\* 404 for one without, 403 for one that is not active.
FindAccount(r) ==
    LET mine == {u \in users : u.uid = Account(r).uid} IN
    /\ pc[r] = "authenticated"
    /\ \/ Reply(r, "error")
       \/ call[r].kind = "register" /\ mine # {} /\ Reply(r, "registered")
       \/ call[r].kind = "register" /\ mine = {} /\ Goto(r, "naming") /\ UNCHANGED reply
       \/ call[r].kind = "me" /\ mine = {} /\ Reply(r, "missing")
       \/ /\ call[r].kind = "me"
          /\ \E u \in mine : Reply(r, IF u.status = "ACTIVE" THEN "ok" ELSE "inactive")
    /\ UNCHANGED <<call, loaded, entitled, sessionVars, users>>

\* findByUsername, and User.create, which throws for a name too short when
\* trimmed although the DTO let it pass: 500.
FindName(r) ==
    LET taken == \E u \in users : u.username = Trim[call[r].username]
        short == Trim[call[r].username] \in ShortNames IN
    /\ pc[r] = "naming"
    /\ \/ taken /\ Reply(r, "taken")
       \/ ~taken /\ ~short /\ Goto(r, "inserting") /\ UNCHANGED reply
       \/ Reply(r, "error")
    /\ UNCHANGED <<call, loaded, entitled, sessionVars, users>>

\* The insertion: 409 when an index refuses, whatever the look-ups found.
Insert(r) ==
    /\ pc[r] = "inserting"
    /\ \/ Clashes(Profile(r)) /\ Reply(r, "conflict") /\ UNCHANGED users
       \/ /\ ~Clashes(Profile(r))
          /\ users' = users \cup {Profile(r)}
          /\ reply' \in {[reply EXCEPT ![r] = a] : a \in {"ok", "error"}}
          /\ Goto(r, "closing")
       \/ Reply(r, "error") /\ UNCHANGED users
    /\ UNCHANGED <<call, loaded, entitled, sessionVars>>

HandleAccounts(r) == Authenticate(r) \/ FindAccount(r) \/ FindName(r) \/ Insert(r)

\* The support suspends a user in the database; no operation here does.
Suspend(u) ==
    /\ u.status = "ACTIVE"
    /\ users' = (users \ {u}) \cup {[u EXCEPT !.status = "SUSPENDED"]}
    /\ UNCHANGED <<sessionVars, httpVars>>

------------------------------------------------------------------------------
\* No two profiles share an account, a username or a verified contact, however
\* many registrations found them free at the same time.
OneProfileEach ==
    \A u, v \in users :
        \/ u = v
        \/ /\ u.uid # v.uid /\ u.username # v.username
           /\ u.emailVerified /\ v.emailVerified => u.email # v.email
           /\ u.phoneVerified /\ v.phoneVerified => u.phone # v.phone

\* A contact is marked verified only if Firebase verified that very contact for
\* that account: what the form says never gets the mark, so nobody registers
\* another's address as his own.
VerifiedContactsAreFirebases ==
    \A u \in users : \E t \in DOMAIN Firebase :
        LET a == Firebase[t] IN
        /\ a.uid = u.uid /\ ~a.disabled
        /\ u.emailVerified => a.emailVerified /\ a.email # "none"
                              /\ u.email = Lower[a.email]
        /\ u.phoneVerified => a.phone # "none" /\ u.phone = a.phone
        /\ u.emailVerified \/ u.phoneVerified

\* What an answer says is so: a profile reported is there, and a refusal has its
\* reason in the database.  An address someone merely typed refuses nobody.
AnswersAreTrue ==
    \A r \in Requests :
        LET some(P(_)) == \E u \in users : P(u)
            mine(u)    == u.uid = Account(r).uid
            named(u)   == u.username = Trim[call[r].username]
            email(u)   == /\ u.emailVerified /\ EmailVerified(Account(r))
                          /\ u.email = Lower[Account(r).email]
            phone(u)   == u.phoneVerified /\ u.phone = Account(r).phone IN
        /\ Public(call[r]) /\ reply[r] = "ok" => some(mine)
        /\ reply[r] \in {"registered", "inactive"} => some(mine)
        /\ reply[r] = "taken" => some(named)
        /\ reply[r] = "conflict" => \/ some(mine) \/ some(named)
                                    \/ some(email) \/ some(phone)
==============================================================================
