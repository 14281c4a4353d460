\* A reminder fails after the risk was acknowledged.
SPECIFICATION Spec
CONSTANTS
    Jobs = {j1, j2}
    Owners = {o1, o2}
    Group = Group
    System = System
    Signatures = {s1}
    SnoozeTime = 1
    MaxFeedback = 2
    MaxTime = 1
    Faults = {"send"}
    j1 = j1
    j2 = j2
    o1 = o1
    o2 = o2
    s1 = s1
    s2 = s2
SYMMETRY Symmetry
INVARIANT SnoozeCanEnd
