\* Three callers of two keys; two slots, so that slots are refilled, with a limit
\* per key and without; gates and limits of two permits on a scope of three;
\* three keys for the two slots of a keyed limit.
CONSTANTS
    Calls = {c1, c2, c3}
    Keys = {k1, k2}
    Tables = {o1, o2}
    Capacity = 2
    None = None
    Waiters = {c1, c2, c3}
    WaitKeys = {k1, k2}
    ListCapacity = 2
    PerKeyLimits = {0, 1}
    NoEntry = None
    Gates = {g1, g2}
    GateCapacity = 2
    ScopeMax = 7
    Weight = 2
    MaxIds <- PermitBounds
    MaxGeneration = 2
    RateKeys = {k1, k2}
    NoBucket = None
    RateConfigs <- PolicyConfigs
    One = 5
    MaxNow = 6
    Limits = {g1, g2}
    LimitKeys = {k1, k2, k3}
    NoSlot = None
    NumSlots = 2
    PerKey = 2
    Pressure = "shed"
    MaxKeyIds = 4
    MaxRefusals = 1
    OneClient = {p1}
    TwoClients = {p1, p2}
SPECIFICATION AnySpec
SYMMETRY Symmetry
CHECK_DEADLOCK FALSE
INVARIANTS WaitersSound GuardsSound PermitsBalance LeasesSound ChargesExact RateHeld KeysExact
PROPERTIES AnswersTrue
