SPECIFICATION Spec
CONSTANTS
  Request = {r1}
  requester = requester
  assigned = assigned
  admin = admin
  User = {admin}
  Approver = {}
  Administrator <- MCAdministrator
  Call <- MCFourCalls
  None = None
  Overlapping = TRUE
  MaxFaults = 0
PROPERTY
  ApprovedIsExecuted
CHECK_DEADLOCK FALSE
