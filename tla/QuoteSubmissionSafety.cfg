SPECIFICATION Spec
CONSTANTS
    p1 = p1
    p2 = p2
    p3 = p3
    p4 = p4
    c1 = c1
    c2 = c2
    f1 = f1
    f3 = f3
    f4 = f4
    None = None
    Requests = {r1, r2, r3}
    Keys = {k1, k2}
    Payloads = {p1, p4}
    Callers = {c1}
    Fingerprints = {f1, f4}
    CallerOf <- MCCallerOf
    FingerprintOf <- MCFingerprintOf
    Indexed = {f1}
    Faults = {"crash", "cache", "database", "lockExpiry", "recordExpiry"}
SYMMETRY MCSymmetry
INVARIANTS TypeOK
           OneQuotePerKey
           OneQuotePerFullHome
           AnswersAreTrue
           SameKeySameAnswer
           CustomersHaveQuotes
           GuardExcludes
           TasksAreOwed
