\* Three lines, two questions, no faults.
SPECIFICATION Spec
CONSTANTS
    MaxLines = 3
    Turns = {q1, q2}
    NoLine = NoLine
    Letters = 2
    TTL = 0
    MaxTime = 0
    Faults = {}
    q1 = q1
    q2 = q2
SYMMETRY Symmetry
INVARIANT OneLineInProgress
INVARIANT UniqueLetters
PROPERTY SomeLineStays
PROPERTY TurnsGoToTheirLine
