---------------------------- MODULE MCWebSession ----------------------------
(***************************************************************************)
(* The web application in the browser: its tabs with their sessions, and    *)
(* the pages in them that show what was recorded.  A behaviour explores one *)
(* of the two.                                                              *)
(***************************************************************************)
EXTENDS WebSession, ConsolePages, TLC

CONSTANTS ann, admin, c1, c2, c3, t1, t2, u1, u2

Small ==
  [calls |-> {c1, c2}, tabs |-> {t1}, who |-> {ann}, named |-> {}, groups |-> [p \in Person |-> {"administrator"}],
   horizon |-> 0, changes |-> 0, faults |-> 0, reloads |-> FALSE]

\* No tab is open.
Quiet == [Small EXCEPT !.calls = {}, !.tabs = {}]

MCScenarios ==
  {Quiet,
   \* two resolutions of one account at once, and time
   [Small EXCEPT !.named = {ann}, !.horizon = 1, !.changes = 1, !.groups = [p \in Person |-> {"approver"}]],
   \* the local administrator, whose token ends
   [Small EXCEPT !.who = {admin}, !.named = {admin}, !.horizon = 1],
   \* two users in two tabs
   [Small EXCEPT !.tabs = {t1, t2}, !.who = {ann, admin}, !.reloads = TRUE],
   \* failing calls and changing roles
   [Small EXCEPT !.faults = 1, !.changes = 1, !.reloads = TRUE],
   [Small EXCEPT !.faults = 1, !.who = {ann, admin}, !.reloads = TRUE]}

\* Nothing is open.
Shut ==
  [kind |-> "closed", rows |-> <<>>, admin |-> FALSE, users |-> {u1}, groups |-> {u2}, nameless |-> {},
   items |-> (u1 :> 3 @@ u2 :> 1), loads |-> 0, writes |-> 0, faults |-> 0, edits |-> 0]

MCPlans ==
  {Shut,
   \* lists that are turned, filtered and refreshed while rows are written
   [Shut EXCEPT !.kind = "audit", !.rows = <<"x", "y", "x", "y">>, !.loads = 3, !.writes = 1, !.faults = 1, !.edits = 2],
   [Shut EXCEPT !.kind = "logs", !.rows = <<"x", "y", "x">>, !.loads = 3, !.writes = 1, !.faults = 1, !.edits = 1],
   [Shut EXCEPT !.kind = "events", !.admin = TRUE, !.rows = <<"x", "x", "x">>, !.loads = 3, !.writes = 1, !.faults = 1],
   [Shut EXCEPT !.kind = "requests", !.rows = <<"x", "x">>, !.loads = 3, !.faults = 1],
   \* a request that is decided here and there, executed and tried again
   [Shut EXCEPT !.kind = "request", !.admin = TRUE, !.loads = 3, !.writes = 2, !.faults = 1],
   [Shut EXCEPT !.kind = "request", !.loads = 3, !.writes = 1, !.faults = 1],
   \* objects of both kinds
   [Shut EXCEPT !.kind = "object", !.loads = 3, !.faults = 1, !.edits = 3],
   [Shut EXCEPT !.kind = "object", !.users = {}, !.groups = {u1, u2}, !.nameless = {u2}, !.loads = 1, !.edits = 3]}

WebInit == Init /\ ConsoleInit /\ (scenario = Quiet \/ plan = Shut)

WebNext ==
  \/ Next /\ UNCHANGED consoleVars
  \/ ConsoleNext /\ UNCHANGED vars

WebSpec == WebInit /\ [][WebNext]_<<vars, consoleVars>>
=============================================================================
