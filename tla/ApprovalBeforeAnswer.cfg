CONSTANTS
    m1 = m1
    m2 = m2
    m3 = m3
    m4 = m4
    p1 = p1
    p2 = p2
    chat = chat
    other = other
    Messages = {m1, m2}
    NoMessage = NoMessage
    Items = {i1}
    ProgressStates = {"NOT_STARTED", "COMPLETED"}
    MaxVersions = 1
    Plans = {p1}
    Conversation <- OneChat
    ReplanIntent = {m1}
    SerialTurns = TRUE
    TicksPerSecond = 1
    MaxClock = 2
    MaxTools = 2
SPECIFICATION Spec
CHECK_DEADLOCK FALSE
INVARIANT ApprovalAnswersPresentation
