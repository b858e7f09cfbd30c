-------------------------- MODULE RequestLifecycle --------------------------
(* What the workflow promises of a request: it is decided once; its target  *)
(* changes only while it is executing; a failed execution may be repeated,  *)
(* and a rejected or executed request is over.                              *)
CONSTANT Request

VARIABLES
  stage,    \* where each request is in its life
  changed   \* the requests whose target was changed

vars == <<stage, changed>>

Stage == {"absent", "submitted", "approved", "rejected",
          "executing", "executed", "failed"}

TypeOK == stage \in [Request -> Stage] /\ changed \subseteq Request

Init ==
  /\ stage = [r \in Request |-> "absent"]
  /\ changed = {}

Moves(r, from, to) ==
  /\ stage[r] \in from
  /\ stage' = [stage EXCEPT ![r] = to]
  /\ UNCHANGED changed

Submit(r) == Moves(r, {"absent"}, "submitted")
Approve(r) == Moves(r, {"submitted"}, "approved")
Reject(r) == Moves(r, {"submitted"}, "rejected")
Begin(r) == Moves(r, {"approved", "failed"}, "executing")
Succeed(r) == Moves(r, {"executing"}, "executed")
Fail(r) == Moves(r, {"executing"}, "failed")

Change(r) ==
  /\ stage[r] = "executing"
  /\ changed' = changed \cup {r}
  /\ UNCHANGED stage

Next ==
  \E r \in Request :
    Submit(r) \/ Approve(r) \/ Reject(r) \/ Begin(r) \/ Succeed(r) \/ Fail(r) \/ Change(r)

Spec == Init /\ [][Next]_vars
=============================================================================
