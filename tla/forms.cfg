SPECIFICATION Spec
CONSTANTS
  a1 = a1
  a2 = a2
  u1 = u1
  u2 = u2
  None = None
  Template = {t1, t2}
  Name = {"n1", "n2"}
  Suffix = {"s1"}
  Default = "d"
  Typed = "typed"
  Group = {g1}
  Admin = {a1, a2}
  Form = form
  Slot = {c1, c2, c3}
  Object = {u1, u2}
  Held = {h1}
  Other = {m1}
  Back = 2
  Hour = 1
  Far = 4
  Scenarios <- MCScenarios
SYMMETRY Slots
INVARIANTS
  TypeOK
  VersionNamesOneContent
  SelectionAgrees
  NothingUnasked
CHECK_DEADLOCK FALSE
