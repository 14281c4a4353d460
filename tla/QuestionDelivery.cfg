\* Two presses, each delivered up to twice, with one store call that raises
\* (twice for one completion: two faults) and one death of the process.
CONSTANTS
  Presses = {p1, p2}
  MaxDeliveries = 2
  MaxFaults = 2
  MaxCrashes = 1
SPECIFICATION Spec
INVARIANTS TypeOK ShownIsKept AnswersAreGrounded
PROPERTIES NeverAskedTwice EveryRunEnds KeepsPromise
CHECK_DEADLOCK FALSE
