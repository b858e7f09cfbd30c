SPECIFICATION Spec
CONSTANTS
  Request = {r1}
  requester = requester
  assigned = assigned
  admin = admin
  User = {admin}
  Approver = {}
  Administrator <- MCAdministrator
  Call <- MCFourCalls
  None = None
  Overlapping = TRUE
  MaxFaults = 1
INVARIANTS
  TypeOK
  DirectoryTouchIsAccountedFor
  TablesAgree
  RetryFollowsAnAttempt
  StuckOnlyAfterFault
CHECK_DEADLOCK FALSE
