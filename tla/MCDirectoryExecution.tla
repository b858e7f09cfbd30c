------------------------ MODULE MCDirectoryExecution ------------------------
(* Requests of every kind about one account, with and without DNs.          *)
EXTENDS DirectoryExecution

CONSTANTS
  helpdesk, vpn,
  newUser, newUserElsewhere, newUserBare, change, addMembers, update, join

Entry(op, group, dn) == [op |-> op, group |-> group, dn |-> dn]

Of(kind, targetDn, changes, members) ==
  [kind |-> kind, targetDn |-> targetDn, password |-> kind = "user_create",
   enabled |-> kind = "user_create", changes |-> changes, members |-> members]

MCPayload == [r \in Request |->
  CASE r = newUser -> Of("user_create", FALSE, {}, <<Entry("add", helpdesk, TRUE), Entry("add", vpn, FALSE)>>)
    [] r = newUserElsewhere -> [Of("user_create", TRUE, {}, <<>>) EXCEPT !.enabled = FALSE]
    [] r = newUserBare -> [Of("user_create", TRUE, {}, <<>>) EXCEPT !.password = FALSE]
    [] r = change -> Of("account_change", FALSE, {"attributes", "disable"}, <<Entry("add", vpn, FALSE), Entry("remove", helpdesk, TRUE)>>)
    [] r = addMembers -> Of("group_change", TRUE, {}, <<Entry("add", helpdesk, TRUE), Entry("add", vpn, TRUE)>>)
    [] r = update -> Of("account_update", TRUE, {"enable"}, <<>>)
    [] r = join -> Of("group_membership", TRUE, {}, <<Entry("add", helpdesk, FALSE)>>)]
=============================================================================
