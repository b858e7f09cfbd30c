SPECIFICATION Spec
CONSTANTS
  Request = {r1}
  requester = requester
  assigned = assigned
  admin = admin
  User <- MCUser
  Approver <- MCApprover
  Administrator <- MCAdministrator
  Call <- MCThreeCalls
  None = None
  Overlapping = TRUE
  MaxFaults = 0
PROPERTY
  DecisionIsFinal
CHECK_DEADLOCK FALSE
