\* One cart under two keys and one key for two carts, locks that hold.
CONSTANTS
    r1 = r1
    r2 = r2
    r3 = r3
    k1 = k1
    k2 = k2
    f1 = f1
    f2 = f2
    p1 = p1
    p2 = p2
    None = None
    Requests = {r1, r2, r3}
    Sweepers = {"s1"}
    Keys = {k1, k2}
    Fingerprints = {f1, f2}
    KeyOf <- TrioKey
    FpOf <- TrioFp
    PayloadOf <- TrioPayload
    Execute = {r1, r2, r3}
    Faults = {"late"}
SPECIFICATION Spec
INVARIANTS
    OneChargePerFingerprint
    BlockedMeansNotCharged
PROPERTIES
    OnlyValidTransitions
