CONSTANTS
    a = a
    b = b
    c = c
    alice = alice
    bob = bob
    None = None
    Req = {a, b}
    User = {alice, bob}
    userOf <- MCUserOf
    priorityOf <- MCPriorityOf
    MaxConcurrent = 2
    Lookahead = 1
    QueueCapacity = 1
    MaxPerUser = 2
    HighWater = 2
    PromptLen = 2
    MaxTokens = 3
    MayPanic = TRUE
    Fickle = {a}
    Hasty = {b}
SPECIFICATION OrderFairSpec
INVARIANTS TypeOK CountersBalance StreamsEnd
PROPERTIES ImplementsService CancelStopsSoon AcceptedEnds
