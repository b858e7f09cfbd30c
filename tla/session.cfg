SPECIFICATION WebSpec
CONSTANTS
  ann = ann
  admin = admin
  c1 = c1
  c2 = c2
  c3 = c3
  t1 = t1
  t2 = t2
  None = None
  Null = Null
  Person = {ann}
  LocalAdmin = admin
  Mapped = {"approver", "administrator"}
  Ttl = 1
  Call = {c1, c2, c3}
  Tab = {t1, t2}
  u1 = u1
  u2 = u2
  Object = {u1, u2}
  Tag = {"x", "y"}
  PageSize = 2
  Plans <- MCPlans
  Scenarios <- MCScenarios
INVARIANTS
  TypeOK
  RolesEndWithTheToken
  SessionIsOneUsers
  PageSuitsUser
  ConsoleAgrees
CHECK_DEADLOCK FALSE
