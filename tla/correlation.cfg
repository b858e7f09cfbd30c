SPECIFICATION Spec
CONSTANTS
  r1 = r1
  r2 = r2
  x1 = x1
  x2 = x2
  x3 = x3
  poller = poller
  sender = sender
  Request = {r1, r2}
  Execution = {x1, x2, x3}
  Ingest = {poller, sender}
  Object <- MCObject
  Scenarios <- MCScenarios
  None = None
INVARIANTS
  TypeOK
  NothingFallsBetween
  CorrelationIsJustified
  OwnEventsMatch
  MatchedWhenAllIsObserved
  OneRowUnlessRaced
  DiagnosisExplains
CHECK_DEADLOCK FALSE
