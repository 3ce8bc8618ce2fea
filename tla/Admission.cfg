\* One user, one delegation, three carts, two control-plane calls.
SPECIFICATION Spec
CONSTANTS
    r1 = r1
    r2 = r2
    r3 = r3
    d1 = d1
    o1 = o1
    o2 = o2
    None = None
    Requests = {r1, r2, r3}
    Delegations = {d1}
    Ops = {o1, o2}
    DelegationOf <- MCDelegationOf
    AmountOf <- MCAmountOf
    ContentOf <- MCContentOf
    Policy <- MCPolicy
    Casts <- MCCasts
    Verdicts <- MCVerdicts
SYMMETRY OpSymmetry
INVARIANTS
    TypeOK
    RevocationHolds
    DailyLimitHolds
    VelocityLimitHolds
    NoUnreviewedRisk
CHECK_DEADLOCK FALSE
