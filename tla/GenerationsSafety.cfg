SPECIFICATION Spec
CONSTANTS
    Messages = {1, 2}
    Whitespace = {}
    Generations = {1, 2, 3}
    Maintainers = {r1, r2}
    Ingestion = ingestion
    NoOwner = NoOwner
    BatchSize = 2
    InOrder = TRUE
    MaxFailures = 2
SYMMETRY MaintainerSymmetry
INVARIANTS
    TypeOK
    PointerSound
    ActiveComplete
PROPERTIES
    ImplementsMemory
    DeletesRetiredOnly
CHECK_DEADLOCK FALSE
