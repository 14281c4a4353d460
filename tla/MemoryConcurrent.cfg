\* Two requests at a time: a first version and two rival replacements.
CONSTANTS
    Workers = {w1, w2}
    Proposals = {p1, p2, p3}
    Memories = {m1, m2, m3}
    Claims <- OneClaim
    NoKey = NoKey
    NoProposal = NoProposal
    NoMemory = NoMemory
    Starts <- AtOnce
    TTL = 1
    MaxTime = 1
    k1 = k1
    k2 = k2
    t1 = t1
    t2 = t2
SPECIFICATION Spec
SYMMETRY Symmetry
CONSTRAINT FewWhenLate
INVARIANTS TypeOK VersionChain MemoryFollowsDecision ApprovedUnlessContested
PROPERTIES ImplementsLedger DecisionIsFinal
CHECK_DEADLOCK FALSE
