\* One behaviour runs one of the seven components.
SPECIFICATION Spec
CONSTANTS
    c1 = c1
    c2 = c2
    c3 = c3
    c4 = c4
    u1 = u1
    u2 = u2
    t1 = t1
    t2 = t2
    n1 = n1
    n2 = n2
    a1 = a1
    a2 = a2
    kettle = kettle
    coffee = coffee
    Callers = {c1, c2, c3}
    Windows = {"agent", "delegation", "other"}
    ChecksOf <- MCChecksOf
    Limit <- MCLimit
    Classifications = {c1, c2, c3}
    Threshold = 2
    Cooldown = 2
    Users = {u1, u2}
    Tids = {t1, t2}
    Sessions = {c1, c2, c3, c4}
    NoUser = NoUser
    MaxInAir = 2
    MaxLost = 2
    MaxEvents = 5
    CLIENT_QUEUE_SIZE = 1
    REPLAY_BUFFER_SIZE = 2
    FacetCount = 3
    Positions = {0, 1, 2, 3}
    IntentWindow = 2
    Runs = {n1, n2}
    Taps = {a1, a2}
    Carts = {kettle, coffee}
    CartOf <- MCCartOf
    NeedsApproval = {kettle}
    CrewCarts = {coffee}
    AgentCasts <- MCAgentCasts
    MaxBucket = 1
    MaxResets = 1
    NoCart = NoCart
INVARIANTS
    TypeOK
    CeilingHolds
    RejectedLeavesNoTrace
    OpenIsEarned
    LinkIsCurrent
    SingleUse
    OnlyLatestWorks
    BeamStops
    ViewIsComplete
    NoGapAtJoin
    DropsAreReported
    WindowIsExact
    LoneMatchIsReviewed
    OneChargePerWindow
    RefusalIsHonest
    ApprovesWhatIsShown
PROPERTY
    BreakerCloses
CHECK_DEADLOCK FALSE
