SPECIFICATION FairSpec
CONSTANTS
    Messages = {1, 2}
    Whitespace = {2}
    Generations = {1, 2}
    Maintainers = {r1, r2}
    Ingestion = ingestion
    NoOwner = NoOwner
    BatchSize = 1
    InOrder = TRUE
    MaxFailures = 1
PROPERTIES
    IngestedAfterAll
    CommandsEnd
CHECK_DEADLOCK FALSE
