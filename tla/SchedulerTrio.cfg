CONSTANTS
    a = a
    b = b
    c = c
    alice = alice
    bob = bob
    None = None
    Req = {a, b, c}
    User = {alice, bob}
    userOf <- MCUserOf
    priorityOf <- MCPriorityOf
    MaxConcurrent = 1
    Lookahead = 0
    QueueCapacity = 1
    MaxPerUser = 1
    HighWater = 2
    PromptLen = 0
    MaxTokens = 0
    MayPanic = TRUE
    Fickle = {a}
    Hasty = {}
SPECIFICATION OrderSpec
INVARIANTS SlotLimit PermitsConserved UserLimit
PROPERTY NoOvertaking
