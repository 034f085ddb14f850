CONSTANTS
    p1 = p1
    p2 = p2
    r1 = r1
    r2 = r2
    past = 7
    NoOne = NoOne
    Passes = {p1, p2}
    Readers = {r1, r2}
    Slots = 2
    NLayers = 3
    Recurrent = {0}
    Tensors <- MCTensors
    MaxPasses = 2
    MaxFaults = 1
    Alphabet = {"a", "b"}
    Cases <- MCCases
    Followed = {1, 2}
SPECIFICATION EngineSpec
INVARIANTS OwnBytes LoadedWhole PinnedOrStreamed ExpertsWarmed KernelsExact
PROPERTIES PassesEnd
CHECK_DEADLOCK FALSE
