CONSTANTS
    m1 = m1
    m2 = m2
    m3 = m3
    m4 = m4
    p1 = p1
    p2 = p2
    chat = chat
    other = other
    Messages = {m1, m2, m3}
    NoMessage = NoMessage
    Items = {i1}
    ProgressStates = {"NOT_STARTED", "COMPLETED"}
    MaxVersions = 2
    Plans = {p1, p2}
    Conversation <- TwoChats
    ReplanIntent = {m1}
    SerialTurns = FALSE
    TicksPerSecond = 1
    MaxClock = 1
    MaxTools = 2
SPECIFICATION Spec
CHECK_DEADLOCK FALSE
INVARIANTS
    TypeOK
    AuthorityPresented
    UnaskedPlanIsFirst
    EveryVersionShown
    FailedTurnLeavesNoTrace
