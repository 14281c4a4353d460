\* Two jobs at a time, two feedback rows, evidence that changes; no failures.
SPECIFICATION Spec
CONSTANTS
    Jobs = {j1, j2}
    Owners = {o1, o2}
    Group = Group
    System = System
    Signatures = {s1, s2}
    SnoozeTime = 1
    MaxFeedback = 2
    MaxTime = 2
    Faults = {}
    j1 = j1
    j2 = j2
    o1 = o1
    o2 = o2
    s1 = s1
    s2 = s2
SYMMETRY Symmetry
INVARIANT SnoozeCanEnd
PROPERTY UserDecisionStands
