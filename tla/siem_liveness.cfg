\* Two events, one of them looked up in the directory, with and without overlap.
SPECIFICATION Spec
CONSTANTS
  e1 = e1
  e2 = e2
  e3 = e3
  Event = {e1, e2}
  Looked = {e2}
  None = None
  Overlaps = {0, 2}
  Lookback = 3
  BatchSize = 1
  Skew = 1
  MaxLate = 1
  MaxTime = 2
  MaxFaults = 1
PROPERTIES
  PromptEventIsExamined
