\* Concurrent writers, a verifier and an anchorer; any await may fail and any writer may die.
CONSTANTS
    w1 = w1
    w2 = w2
    w3 = w3
    v1 = v1
    a1 = a1
    None = None
    Writers = {w1, w2, w3}
    Verifiers = {v1}
    Anchorers = {a1}
    MaxAnchors = 2
    Faults = {"outage", "crash", "anchor_outage"}
SPECIFICATION Spec
INVARIANTS
    TypeOK
    ChainIntact
    ReceiptStands
    AnchorsAreHistory
    GrowthIsNotTampering
PROPERTY ImplementsHistory
SYMMETRY WriterSymmetry
CHECK_DEADLOCK FALSE
