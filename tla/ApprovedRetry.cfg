\* The approved retry of a parked transaction, under its own key.
CONSTANTS
    r1 = r1
    r2 = r2
    r3 = r3
    k1 = k1
    k2 = k2
    f1 = f1
    f2 = f2
    p1 = p1
    p2 = p2
    None = None
    Requests = {r1, r2}
    Sweepers = {}
    Keys = {k1, k2}
    Fingerprints = {f1, f2}
    KeyOf <- RetryKey
    FpOf <- SameFp
    PayloadOf <- SamePayload
    Execute = {r1, r2}
    Faults = {}
SPECIFICATION Spec
INVARIANTS
    ParkedAdmitsApprovedRetry
CHECK_DEADLOCK FALSE
