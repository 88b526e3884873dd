SPECIFICATION FairSpec
CONSTANTS
    r1 = r1
    r2 = r2
    old = old
    s1 = s1
    Requests = {r1, r2}
    Calls <- MCCalls
    Sids = {s1}
    MaxWrites = 1
    MaxFiles = 2
    Pending <- MCPending
    Firebase <- MCFirebase
    Lower <- MCLower
    Trim <- MCTrim
    ShortNames = {"ab"}
INVARIANTS
    TypeOK
    SessionsFollowTheLogin
    UrlsHaveRecords
    ConfirmationsAreNews
    AssetsAreAdministrators
    OneProfileEach
    VerifiedContactsAreFirebases
    AnswersAreTrue
PROPERTIES
    EveryRequestAnswered
