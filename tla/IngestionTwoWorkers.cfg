CONSTANTS
    Conversations = {1}
    Messages = {1, 2, 3}
    ConvOf <- OneConversation
    Blank = {2}
    Poison = {3}
    Workers = {w1, w2}
    BatchSize = 2
    MaxFailures = 2
SPECIFICATION Spec
CHECK_DEADLOCK FALSE
INVARIANTS
    ReceiptsHonest
