CONSTANTS
    s1 = s1
    s2 = s2
    None = None
    Session = {s1, s2}
    Token <- MCToken
    EndTokens <- MCEndTokens
    Prompts <- MCPrompts
    Choice <- MCChoice
    Greedy = {s1}
    Flaky = {s2}
    Layers = 2
    Linear = {1}
    MaxContext = 5
    DraftContext = 4
    MaxTokens = 3
    Lookahead = 2
    Ngram = 1
    CacheLimits <- MCCacheLimits
SPECIFICATION Spec
INVARIANT FailureIsOwn
