SPECIFICATION Spec
CONSTANTS
  Request = {r1}
  requester = requester
  assigned = assigned
  admin = admin
  User <- MCUser
  Approver <- MCApprover
  Administrator <- MCAdministrator
  Call <- MCFourCalls
  None = None
  Overlapping = TRUE
  MaxFaults = 0
PROPERTY
  RetryBeginsFromFailed
CHECK_DEADLOCK FALSE
