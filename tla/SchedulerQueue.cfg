CONSTANTS
    a = a
    b = b
    c = c
    alice = alice
    bob = bob
    None = None
    Req = {a, b, c}
    User = {alice, bob}
    userOf <- MCUserOf
    priorityOf <- MCPriorityOf
    MaxConcurrent = 1
    Lookahead = 0
    QueueCapacity = 1
    MaxPerUser = 2
    HighWater = 2
    PromptLen = 1
    MaxTokens = 1
    MayPanic = FALSE
    Fickle = {}
    Hasty = {}
SPECIFICATION Spec
INVARIANT QueueLimit
