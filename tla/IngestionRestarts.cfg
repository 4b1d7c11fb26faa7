CONSTANTS
    Conversations = {1, 2}
    Messages = {1, 2, 3, 4}
    ConvOf <- EvenInSecond
    Blank = {3}
    Poison = {}
    Workers = {w1}
    BatchSize = 2
    MaxFailures = 2
SPECIFICATION FairSpec
CHECK_DEADLOCK FALSE
INVARIANTS
    TypeOK
    RetainsOnlyNew
    SummaryCurrent
PROPERTIES
    CatchesUp
    DerivedCatchesUp
