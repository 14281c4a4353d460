\* Two verbatim turns, compressed two at a time: the fifth turn starts the
\* second compression.  Three presses: two ticks and a confirmation.
CONSTANTS
  Messages = {m1}
  MessageDay <- MCMessageDay
  PickedDays = {1}
  RecentTurnLimit = 2
  DefaultTurnLimit = 2
  CompressEnd = 2
  MaxTurns = 5
  MaxEdits = 3
  MaxCrashes = 1
SPECIFICATION Spec
INVARIANTS TypeOK PoolIsContiguous EveryTurnIsCited OneCitationPerMessage WindowFilters
PROPERTIES TicksAreApplied RemovedStaysOut
CHECK_DEADLOCK FALSE
