\* A verifier and a writer, nothing fails.
CONSTANTS
    w1 = w1
    w2 = w2
    w3 = w3
    v1 = v1
    a1 = a1
    None = None
    Writers = {w1, w2}
    Verifiers = {v1}
    Anchorers = {}
    MaxAnchors = 2
    Faults = {}
SPECIFICATION Spec
INVARIANTS
    NoFalseAlarm
CHECK_DEADLOCK FALSE
