SPECIFICATION Spec
CONSTANTS
  Request = {r1, r2}
  requester = requester
  assigned = assigned
  admin = admin
  User <- MCUser
  Approver <- MCApprover
  Administrator <- MCAdministrator
  Call <- MCFourCalls
  None = None
  Overlapping = FALSE
  MaxFaults = 1
INVARIANTS
  DatesTellTheStory
PROPERTIES
  DecisionIsFinal
  ImplementsLifecycle
CHECK_DEADLOCK FALSE
