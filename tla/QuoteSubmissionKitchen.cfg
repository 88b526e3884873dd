SPECIFICATION Spec
CONSTANTS
    p1 = p1
    p2 = p2
    p3 = p3
    p4 = p4
    c1 = c1
    c2 = c2
    f1 = f1
    f3 = f3
    f4 = f4
    None = None
    Requests = {r1, r2}
    Keys = {k1, k2}
    Payloads = {p4}
    Callers = {c1}
    Fingerprints = {f4}
    CallerOf <- MCCallerOf
    FingerprintOf <- MCFingerprintOf
    Indexed = {}
    Faults = {}
INVARIANTS OneQuotePerFingerprint
