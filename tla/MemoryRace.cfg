\* Two requests decide the same proposal.
CONSTANTS
    Workers = {w1, w2}
    Proposals = {p1}
    Memories = {m1}
    Claims <- OneClaim
    NoKey = NoKey
    NoProposal = NoProposal
    NoMemory = NoMemory
    Starts <- AtOnce
    TTL = 1
    MaxTime = 0
    k1 = k1
    k2 = k2
    t1 = t1
    t2 = t2
SPECIFICATION Spec
SYMMETRY Symmetry
INVARIANT MemoryOnlyFromApproval
CHECK_DEADLOCK FALSE
