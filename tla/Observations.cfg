CONSTANTS
    Conversations = {c1, c2}
    Claims = {k1, k2}
    Scope <- PhraseBroken
    Forms = {"plain", "ragged"}
    Workers = {w1, w2}
    None = None
    topic = topic
    profile = profile
    MaxEntries = 1
    MaxMessages = 2
    MaxTransactions = 3
SPECIFICATION Spec
SYMMETRY Interchangeable
INVARIANTS
    TwinsExplained
    ContestedByTwin
    IngestedIsEvidence
    SummaryCovers
    PagesCurrent
CHECK_DEADLOCK FALSE
