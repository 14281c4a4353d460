\* Two lines with crashes, expiry and worker-thread tools.
SPECIFICATION Spec
CONSTANTS
    MaxLines = 2
    Turns = {q1, q2}
    NoLine = NoLine
    Letters = 2
    TTL = 1
    MaxTime = 2
    Faults = {"crash", "tool"}
    q1 = q1
    q2 = q2
SYMMETRY Symmetry
INVARIANT TypeOK
INVARIANT NoForeignTurns
PROPERTY TurnsAreKept
