\* Three events, pages of two and two faults.
SPECIFICATION Spec
CONSTANTS
  e1 = e1
  e2 = e2
  e3 = e3
  Event = {e1, e2, e3}
  Looked = {}
  None = None
  Overlaps = {2}
  Lookback = 3
  BatchSize = 2
  Skew = 1
  MaxLate = 2
  MaxTime = 3
  MaxFaults = 2
SYMMETRY Interchangeable
INVARIANTS
  TypeOK
  PromptEventStaysInReach
  CheckpointIsEarned
  PointInTimeIsGivenUp
  SchedulerStaysArmed
PROPERTIES
  CheckpointMovesForward
