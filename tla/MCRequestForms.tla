---------------------------- MODULE MCRequestForms ----------------------------
(* Small instances of RequestForms: templates that are edited and used, and *)
(* the page for a new request.                                              *)
EXTENDS RequestForms, TLC

CONSTANTS a1, a2, u1, u2

Slots == Permutations(Slot)

\* Neither the templates nor the editors move.
Still ==
  [admins |-> {}, edits |-> {}, saves |-> 0, lists |-> 0, fills |-> 0, faults |-> 0,
   start |-> [name |-> "n1", active |-> TRUE, suffix |-> "s1", groups |-> {}],
   editor |-> [kind |-> "account", objects |-> {}, enabled |-> None, expiry |-> None, boxes |-> {}, texts |-> 0, loads |-> 0,
               faults |-> 0, edits |-> 0]]

\* Whether an account is enabled, and when it ends: on the minute, and between two;
\* in the hour that is shown twice, and after it; in a year of five digits.
Accounts == {<<"true", 2>>, <<None, 3>>, <<"false", 4>>, <<None, 6>>, <<"true", 10>>}

Editing(kind, objects, boxes, texts, loads, faults, edits) ==
  {[Still EXCEPT !.editor = [kind |-> kind, objects |-> objects, enabled |-> is[1], expiry |-> is[2], boxes |-> boxes,
                             texts |-> texts, loads |-> loads, faults |-> faults, edits |-> edits]] :
     is \in IF kind = "account" THEN Accounts ELSE {<<None, None>>}}

MCScenarios ==
  {Still,
   \* the saves of two administrators
   [Still EXCEPT !.admins = {a1, a2}, !.edits = {"groups"}, !.saves = 2, !.lists = 2],
   \* names and new templates
   [Still EXCEPT !.admins = {a1, a2}, !.edits = {"name"}, !.saves = 2, !.lists = 1],
   \* a request beside a save, and a call that fails
   [Still EXCEPT !.admins = {a1}, !.edits = {"suffix"}, !.saves = 1, !.lists = 2, !.fills = 2],
   [Still EXCEPT !.admins = {a1}, !.edits = {"active"}, !.saves = 1, !.lists = 2, !.fills = 1, !.faults = 1],
   \* a form that is filled in
   [Still EXCEPT !.lists = 1, !.fills = 4]}
  \* two targets, loads that overtake each other and fail, and a request that is sent
  \cup Editing("account", {u1, u2}, {"target"}, 2, 2, 1, 0)
  \cup Editing("account", {u1, u2}, {"approver", "target"}, 2, 2, 0, 1)
  \* approvers, whose searches overtake each other
  \cup Editing("account", {u1, u2}, {"approver"}, 4, 0, 1, 0)
  \* members to be added and taken away
  \cup Editing("group", {u1}, {"approver", "target", "member"}, 3, 1, 0, 1)
=============================================================================
