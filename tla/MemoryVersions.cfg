\* One request at a time: a replacement that meets two conflicting memories.
CONSTANTS
    Workers = {w1}
    Proposals = {p1, p2, p3}
    Memories = {m1, m2, m3}
    Claims <- OverlappingClaims
    NoKey = NoKey
    NoProposal = NoProposal
    NoMemory = NoMemory
    Starts <- AtOnce
    TTL = 1
    MaxTime = 0
    k1 = k1
    k2 = k2
    t1 = t1
    t2 = t2
SPECIFICATION Spec
SYMMETRY Symmetry
PROPERTY ReplacementKeepsOneVersion
CHECK_DEADLOCK FALSE
