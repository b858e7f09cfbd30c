SPECIFICATION Spec
CONSTANTS
  newUser = newUser
  newUserElsewhere = newUserElsewhere
  newUserBare = newUserBare
  change = change
  addMembers = addMembers
  update = update
  join = join
  helpdesk = helpdesk
  vpn = vpn
  Operation = {o1}
  Request = {newUser, newUserElsewhere, newUserBare, change, addMembers, update, join}
  Group = {helpdesk, vpn}
  Payload <- MCPayload
  None = None
INVARIANT
  NoPartialChangesIsTrue
CHECK_DEADLOCK FALSE
