CONSTANTS
    s1 = s1
    s2 = s2
    e1 = e1
    v1 = v1
    v2 = v2
    v3 = v3
    None = None
    Session = {s1, s2}
    Entry = {e1}
    Value = {v1, v2, v3}
    Writes <- MCWrites
    BlockSize = 2
    MaxPositions = 5
    MaxResident = 1
    Windows = {2, 5}
    Lookahead = 2
    Flaky = {}
SPECIFICATION Spec
INVARIANT FilesGoWithOwner
