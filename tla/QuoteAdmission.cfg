SPECIFICATION FairSpec
CONSTANTS
    r1 = r1
    r2 = r2
    ip = ip
    ada = ada
    ADA = ADA
    p1 = p1
    p2 = p2
    human = human
    site = site
    Requests = {r1, r2}
    Message <- MCMessage
    Normal <- MCNormal
    Layers = {"ip", "email", "phone"}
    Limit <- MCLimit
    Assessment <- MCAssessment
    Hostnames = {site}
    MinScore = 50
    Provider = "upstash"
    Faults = {"error", "shutdown"}
    MaxRefill = 1
INVARIANTS
    TypeOK
    AdmissionsWithinQuota
    LimitedHasCause
    OneProbe
    VouchedOnce
PROPERTIES
    ImplementsGate
    EveryCheckSettles
    ProbeSettles
