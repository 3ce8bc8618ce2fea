\* An expiry sweep racing a submission.
CONSTANTS
    r1 = r1
    r2 = r2
    r3 = r3
    k1 = k1
    k2 = k2
    f1 = f1
    f2 = f2
    p1 = p1
    p2 = p2
    None = None
    Requests = {r1}
    Sweepers = {"s1"}
    Keys = {k1, k2}
    Fingerprints = {f1, f2}
    KeyOf <- SingleKey
    FpOf <- SingleFp
    PayloadOf <- SinglePayload
    Execute = {r1}
    Faults = {"token_expiry"}
SPECIFICATION Spec
PROPERTIES
    OnlyValidTransitions
