CONSTANTS
    m1 = m1
    m2 = m2
    m3 = m3
    m4 = m4
    p1 = p1
    p2 = p2
    chat = chat
    other = other
    Messages = {m1, m2, m3, m4}
    NoMessage = NoMessage
    Items = {i1}
    ProgressStates = {"NOT_STARTED", "COMPLETED"}
    MaxVersions = 3
    Plans = {p1}
    Conversation <- OneChat
    ReplanIntent = {m1, m2, m3, m4}
    SerialTurns = TRUE
    TicksPerSecond = 1
    MaxClock = 0
    MaxTools = 3
SPECIFICATION Spec
CHECK_DEADLOCK FALSE
SYMMETRY MessageSymmetry
INVARIANTS
    LineageSound
    StrategyAndPlanAgree
PROPERTIES
    AppendOnly
    ImplementsAuthority
    AuditTrusted
