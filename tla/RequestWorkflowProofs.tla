----------------------- MODULE RequestWorkflowProofs -----------------------
(* Proofs about RequestWorkflow, for every set of requests, users and calls *)
(* and every number of faults, with and without overlapping calls.          *)
EXTENDS RequestWorkflow, TLAPS

\* The local variable a handler is about to store has been set by then.
LocalsSet ==
  \A c \in Call :
    /\ pc[c] \in {"persistDecision", "auditDecision"} => job[c].verdict \in {"approved", "rejected"}
    /\ pc[c] \in {"markFinished", "auditFinished"} => job[c].outcome \in {"executed", "failed"}

TypeInv == TypeOK /\ LocalsSet

LEMMA TypeInvInit == Init => TypeInv
  BY NoneAssumption, MaxFaultsAssumption
     DEF Init, TypeInv, TypeOK, LocalsSet, Status, Decision, Execution, PC, Active, Awaiting, AuditRow, Job

LEMMA TypeInvNext == TypeInv /\ [Next]_vars => TypeInv'
<1> SUFFICES ASSUME TypeInv, [Next]_vars PROVE TypeInv'
  OBVIOUS
<1> USE RolesAssumption, MaxFaultsAssumption
<1> USE DEF TypeInv, LocalsSet, TypeOK, Status, Decision, Execution, Outcome, PC, Active, Awaiting,
            Job, On, Goto, Ends, Over, Handler, rowVars
<1>1. ASSUME NEW c \in Call, Create(c) PROVE TypeInv'
  BY <1>1 DEF Create, Arrives
<1>2. ASSUME NEW c \in Call, Decide(c) PROVE TypeInv'
  BY <1>2 DEF Decide, Arrives
<1>3. ASSUME NEW c \in Call, RetryExecution(c) PROVE TypeInv'
  BY <1>3 DEF RetryExecution, Arrives
<1>4. ASSUME NEW c \in Call, TouchDirectory(c) PROVE TypeInv'
  BY <1>4 DEF TouchDirectory
<1>5. ASSUME NEW c \in Call, AuditSubmitted(c) PROVE TypeInv'
  BY <1>5 DEF AuditSubmitted, Write, AuditRow, AuditEvent
<1>6. ASSUME NEW c \in Call, PersistApprovalDecision(c) PROVE TypeInv'
  BY <1>6 DEF PersistApprovalDecision
<1>7. ASSUME NEW c \in Call, AuditDecision(c) PROVE TypeInv'
  BY <1>7 DEF AuditDecision, Write, AuditRow, AuditEvent
<1>8. ASSUME NEW c \in Call, LoadExecution(c) PROVE TypeInv'
  BY <1>8 DEF LoadExecution
<1>9. ASSUME NEW c \in Call, LoadApproval(c) PROVE TypeInv'
  BY <1>9 DEF LoadApproval
<1>10. ASSUME NEW c \in Call, AuditRetry(c) PROVE TypeInv'
  BY <1>10 DEF AuditRetry, Write, AuditRow, AuditEvent
<1>11. ASSUME NEW c \in Call, LoadRequest(c) PROVE TypeInv'
  BY <1>11 DEF LoadRequest, Earlier
<1>12. ASSUME NEW c \in Call, MarkExecutionStarted(c) PROVE TypeInv'
  BY <1>12 DEF MarkExecutionStarted
<1>13. ASSUME NEW c \in Call, AuditExecutionStarted(c) PROVE TypeInv'
  BY <1>13 DEF AuditExecutionStarted, Write, AuditRow, AuditEvent
<1>14. ASSUME NEW c \in Call, DirectoryReturns(c) PROVE TypeInv'
  BY <1>14 DEF DirectoryReturns
<1>15. ASSUME NEW c \in Call, MarkExecutionFinished(c) PROVE TypeInv'
  BY <1>15 DEF MarkExecutionFinished
<1>16. ASSUME NEW c \in Call, FinishConflicts(c) PROVE TypeInv'
  BY <1>16 DEF FinishConflicts
<1>17. ASSUME NEW c \in Call, AuditExecutionFinished(c) PROVE TypeInv'
  BY <1>17 DEF AuditExecutionFinished, Write, AuditRow, AuditEvent
<1>18. ASSUME NEW c \in Call, CorrelateRequest(c) PROVE TypeInv'
  BY <1>18 DEF CorrelateRequest
<1>19. ASSUME NEW c \in Call, Abort(c) PROVE TypeInv'
  BY <1>19 DEF Abort, Fault
<1>20. ASSUME Crash PROVE TypeInv'
  BY <1>20 DEF Crash, Fault
<1>21. ASSUME UNCHANGED vars PROVE TypeInv'
  BY <1>21 DEF vars
<1> QED
  BY <1>1, <1>2, <1>3, <1>4, <1>5, <1>6, <1>7, <1>8, <1>9, <1>10, <1>11, <1>12,
     <1>13, <1>14, <1>15, <1>16, <1>17, <1>18, <1>19, <1>20, <1>21
     DEF Next, Step

(* Type correctness: every row and every handler keeps its type.            *)
THEOREM TypeCorrect == Spec => []TypeOK
<1>1. TypeInv => TypeOK
  BY DEF TypeInv
<1> QED
  BY <1>1, TypeInvInit, TypeInvNext, PTL DEF Spec

----------------------------------------------------------------------------
(* The trail: what must have been audited for a handler to be where it is.  *)

\* Where a handler is once the approval of its request has been audited.
PastApproval == {"loadExecution", "loadApproval", "auditRetry", "loadRequest", "markStarted",
                 "auditStarted", "directory", "markFinished", "auditFinished", "correlate"}

\* Where a handler is once it has audited the start of its execution.
PastStart == {"directory", "markFinished", "auditFinished", "correlate"}

ApprovalAccounted(r) ==
  \E row \in audit : /\ row.request = r
                    /\ row.event = "request_approved"
                    /\ MayDecide(row.actor, r)

StartAudited(c, r) ==
  \E row \in audit : /\ row.request = r
                    /\ row.event = "execution_started"
                    /\ row.call = c

HandlerAt(c) ==
  /\ pc[c] # "idle" => status[On(c)] # "absent"
  /\ pc[c] \in {"persistDecision", "auditDecision"} => MayDecide(job[c].actor, On(c))
  /\ pc[c] \in PastApproval => ApprovalAccounted(On(c))
  /\ pc[c] \in PastStart => StartAudited(c, On(c))

HandlerTrail == \A c \in Call : HandlerAt(c)

RowTrail ==
  /\ \A row \in audit : status[row.request] # "absent"
  /\ \A r \in Request :
       /\ execution[r] # "none" => ApprovalAccounted(r)
       /\ status[r] \in {"executing", "executed", "failed"} => ApprovalAccounted(r)

TrailInv == TypeInv /\ HandlerTrail /\ RowTrail /\ DirectoryTouchIsAccountedFor

LEMMA TrailInit == Init => TrailInv
  BY TypeInvInit
     DEF Init, TrailInv, HandlerTrail, HandlerAt, RowTrail, DirectoryTouchIsAccountedFor,
         PastApproval, PastStart

\* Audit rows stay, and so does the approver of a request that is there.
LEMMA TrailGrows ==
  ASSUME TypeInv, [Next]_vars
  PROVE  /\ audit \subseteq audit'
         /\ \A r \in Request : status[r] # "absent" =>
              status'[r] # "absent" /\ approver'[r] = approver[r]
<1> DEFINE Grows == /\ audit \subseteq audit'
                    /\ \A r \in Request : status[r] # "absent" =>
                         status'[r] # "absent" /\ approver'[r] = approver[r]
<1> USE DEF Write, rowVars
<1>1. ASSUME NEW c \in Call, Create(c) PROVE Grows
  BY <1>1 DEF Create, Arrives, TypeInv, TypeOK
<1>2. ASSUME NEW c \in Call, Decide(c) PROVE Grows
  BY <1>2 DEF Decide, Arrives
<1>3. ASSUME NEW c \in Call, RetryExecution(c) PROVE Grows
  BY <1>3 DEF RetryExecution, Arrives
<1>4. ASSUME NEW c \in Call, TouchDirectory(c) PROVE Grows
  BY <1>4 DEF TouchDirectory
<1>5. ASSUME NEW c \in Call, AuditSubmitted(c) PROVE Grows
  BY <1>5 DEF AuditSubmitted
<1>6. ASSUME NEW c \in Call, PersistApprovalDecision(c) PROVE Grows
  BY <1>6 DEF PersistApprovalDecision, TypeInv, TypeOK, LocalsSet
<1>7. ASSUME NEW c \in Call, AuditDecision(c) PROVE Grows
  BY <1>7 DEF AuditDecision
<1>8. ASSUME NEW c \in Call, LoadExecution(c) PROVE Grows
  BY <1>8 DEF LoadExecution
<1>9. ASSUME NEW c \in Call, LoadApproval(c) PROVE Grows
  BY <1>9 DEF LoadApproval
<1>10. ASSUME NEW c \in Call, AuditRetry(c) PROVE Grows
  BY <1>10 DEF AuditRetry
<1>11. ASSUME NEW c \in Call, LoadRequest(c) PROVE Grows
  BY <1>11 DEF LoadRequest
<1>12. ASSUME NEW c \in Call, MarkExecutionStarted(c) PROVE Grows
  BY <1>12 DEF MarkExecutionStarted, TypeInv, TypeOK
<1>13. ASSUME NEW c \in Call, AuditExecutionStarted(c) PROVE Grows
  BY <1>13 DEF AuditExecutionStarted
<1>14. ASSUME NEW c \in Call, DirectoryReturns(c) PROVE Grows
  BY <1>14 DEF DirectoryReturns
<1>15. ASSUME NEW c \in Call, MarkExecutionFinished(c) PROVE Grows
  BY <1>15 DEF MarkExecutionFinished, TypeInv, TypeOK, LocalsSet
<1>16. ASSUME NEW c \in Call, FinishConflicts(c) PROVE Grows
  BY <1>16 DEF FinishConflicts
<1>17. ASSUME NEW c \in Call, AuditExecutionFinished(c) PROVE Grows
  BY <1>17 DEF AuditExecutionFinished
<1>18. ASSUME NEW c \in Call, CorrelateRequest(c) PROVE Grows
  BY <1>18 DEF CorrelateRequest
<1>19. ASSUME NEW c \in Call, Abort(c) PROVE Grows
  BY <1>19 DEF Abort
<1>20. ASSUME Crash PROVE Grows
  BY <1>20 DEF Crash
<1>21. ASSUME UNCHANGED vars PROVE Grows
  BY <1>21 DEF vars
<1> QED
  BY <1>1, <1>2, <1>3, <1>4, <1>5, <1>6, <1>7, <1>8, <1>9, <1>10, <1>11, <1>12, <1>13, <1>14, <1>15, <1>16, <1>17, <1>18, <1>19, <1>20, <1>21 DEF Next, Step

\* DirectoryTouchIsAccountedFor in the words of this module.
LEMMA TouchTrail ==
  DirectoryTouchIsAccountedFor <=>
    \A r \in Request : \A c \in touched[r] : ApprovalAccounted(r) /\ StartAudited(c, r)
  BY DEF DirectoryTouchIsAccountedFor, ApprovalAccounted, StartAudited

\* What the trail shows once, it shows for good.
LEMMA TrailStays ==
  ASSUME TrailInv, [Next]_vars
  PROVE  /\ \A r \in Request : ApprovalAccounted(r) => ApprovalAccounted(r)'
         /\ \A c \in Call, r \in Request : StartAudited(c, r) => StartAudited(c, r)'
<1>1. ASSUME NEW r \in Request, ApprovalAccounted(r) PROVE ApprovalAccounted(r)'
  BY <1>1, TrailGrows DEF ApprovalAccounted, MayDecide, TrailInv, RowTrail
<1>2. ASSUME NEW c \in Call, NEW r \in Request, StartAudited(c, r) PROVE StartAudited(c, r)'
  BY <1>2, TrailGrows DEF StartAudited, TrailInv
<1> QED
  BY <1>1, <1>2

\* A handler that takes no part in a step keeps its trail.
LEMMA OthersKeepTrail ==
  ASSUME TrailInv, [Next]_vars, NEW d \in Call, pc'[d] = pc[d], job'[d] = job[d]
  PROVE  HandlerAt(d)'
<1>1. HandlerAt(d) /\ TypeInv /\ TypeOK
  BY DEF TrailInv, HandlerTrail, TypeInv
<1>2. CASE pc[d] = "idle"
  BY <1>2 DEF HandlerAt, PastApproval, PastStart
<1>3. CASE pc[d] # "idle"
  <2>1. On(d) \in Request /\ On(d)' = On(d)
    BY <1>1, <1>3 DEF TypeOK, Job, On
  <2>2. status[On(d)] # "absent"
    BY <1>1, <1>3 DEF HandlerAt
  <2>3. status'[On(d)] # "absent" /\ approver'[On(d)] = approver[On(d)]
    BY <1>1, <2>1, <2>2, TrailGrows
  <2>4. MayDecide(job[d].actor, On(d)) => MayDecide(job[d].actor, On(d))'
    BY <2>1, <2>3 DEF MayDecide
  <2>5. /\ ApprovalAccounted(On(d)) => ApprovalAccounted(On(d))'
        /\ StartAudited(d, On(d)) => StartAudited(d, On(d))'
    <3> DEFINE r == On(d)
    <3>1. ApprovalAccounted(r) => ApprovalAccounted(r)'
      BY <1>1, <2>1, <2>3, TrailGrows DEF ApprovalAccounted, MayDecide
    <3>2. StartAudited(d, r) => StartAudited(d, r)'
      BY <1>1, <2>1, TrailGrows DEF StartAudited
    <3> QED
      BY <3>1, <3>2
  <2> QED
    BY <1>1, <2>1, <2>3, <2>4, <2>5 DEF HandlerAt
<1> QED
  BY <1>2, <1>3

\* A step of one call leaves the handlers of the others alone.
LEMMA OthersStay ==
  ASSUME TypeInv, NEW c \in Call,
         Create(c) \/ Decide(c) \/ RetryExecution(c) \/ TouchDirectory(c) \/ Step(c) \/ Abort(c)
  PROVE  \A d \in Call \ {c} : pc'[d] = pc[d] /\ job'[d] = job[d]
<1> DEFINE Stay == \A d \in Call \ {c} : pc'[d] = pc[d] /\ job'[d] = job[d]
<1> USE DEF TypeInv, TypeOK, Goto, Ends
<1>1. ASSUME Create(c) PROVE Stay
  BY <1>1 DEF Create
<1>2. ASSUME Decide(c) PROVE Stay
  BY <1>2 DEF Decide
<1>3. ASSUME RetryExecution(c) PROVE Stay
  BY <1>3 DEF RetryExecution
<1>4. ASSUME TouchDirectory(c) PROVE Stay
  BY <1>4 DEF TouchDirectory
<1>5. ASSUME AuditSubmitted(c) PROVE Stay
  BY <1>5 DEF AuditSubmitted
<1>6. ASSUME PersistApprovalDecision(c) PROVE Stay
  BY <1>6 DEF PersistApprovalDecision
<1>7. ASSUME AuditDecision(c) PROVE Stay
  BY <1>7 DEF AuditDecision
<1>8. ASSUME LoadExecution(c) PROVE Stay
  BY <1>8 DEF LoadExecution
<1>9. ASSUME LoadApproval(c) PROVE Stay
  BY <1>9 DEF LoadApproval
<1>10. ASSUME AuditRetry(c) PROVE Stay
  BY <1>10 DEF AuditRetry
<1>11. ASSUME LoadRequest(c) PROVE Stay
  BY <1>11 DEF LoadRequest
<1>12. ASSUME MarkExecutionStarted(c) PROVE Stay
  BY <1>12 DEF MarkExecutionStarted
<1>13. ASSUME AuditExecutionStarted(c) PROVE Stay
  BY <1>13 DEF AuditExecutionStarted
<1>14. ASSUME DirectoryReturns(c) PROVE Stay
  BY <1>14 DEF DirectoryReturns
<1>15. ASSUME MarkExecutionFinished(c) PROVE Stay
  BY <1>15 DEF MarkExecutionFinished
<1>16. ASSUME FinishConflicts(c) PROVE Stay
  BY <1>16 DEF FinishConflicts
<1>17. ASSUME AuditExecutionFinished(c) PROVE Stay
  BY <1>17 DEF AuditExecutionFinished
<1>18. ASSUME CorrelateRequest(c) PROVE Stay
  BY <1>18 DEF CorrelateRequest
<1>19. ASSUME Abort(c) PROVE Stay
  BY <1>19 DEF Abort
<1> QED
  BY <1>1, <1>2, <1>3, <1>4, <1>5, <1>6, <1>7, <1>8, <1>9, <1>10, <1>11, <1>12, <1>13, <1>14, <1>15, <1>16, <1>17, <1>18, <1>19 DEF Step

\* The handler that takes the step has its trail afterwards.
LEMMA OwnTrail ==
  ASSUME TrailInv, [Next]_vars, NEW c \in Call,
         Create(c) \/ Decide(c) \/ RetryExecution(c) \/ TouchDirectory(c) \/ Step(c) \/ Abort(c)
  PROVE  HandlerAt(c)'
<1>a. TypeInv /\ TypeOK /\ LocalsSet /\ HandlerAt(c) /\ RowTrail
  BY DEF TrailInv, TypeInv, HandlerTrail
<1>b. /\ \A r \in Request : ApprovalAccounted(r) => ApprovalAccounted(r)'
      /\ \A r \in Request : StartAudited(c, r) => StartAudited(c, r)'
      /\ \A r \in Request : status[r] # "absent" => status'[r] # "absent" /\ approver'[r] = approver[r]
  BY <1>a, TrailStays, TrailGrows
<1>c. pc[c] # "idle" => job[c] \in Job /\ On(c) \in Request
  BY <1>a DEF TypeOK, Job, On
\* A handler that goes on with the same request needs only what its new place adds.
<1>d. ASSUME pc[c] # "idle", On(c)' = On(c),
             pc'[c] \in {"persistDecision", "auditDecision"} =>
               pc[c] \in {"persistDecision", "auditDecision"} /\ job'[c].actor = job[c].actor,
             pc'[c] \in PastApproval => pc[c] \in PastApproval \/ ApprovalAccounted(On(c))',
             pc'[c] \in PastStart => pc[c] \in PastStart \/ StartAudited(c, On(c))'
      PROVE  HandlerAt(c)'
  <2>1. PICK r \in Request : On(c) = r /\ On(c)' = r
    BY <1>c, <1>d
  <2>2. /\ status[r] # "absent" /\ status'[r] # "absent" /\ approver'[r] = approver[r]
        /\ ApprovalAccounted(r) => ApprovalAccounted(r)'
        /\ StartAudited(c, r) => StartAudited(c, r)'
    BY <1>a, <1>b, <1>d, <2>1 DEF HandlerAt
  <2>3. pc'[c] \in {"persistDecision", "auditDecision"} => MayDecide(job[c].actor, r)'
    BY <1>a, <1>d, <2>1, <2>2 DEF HandlerAt, MayDecide
  <2>4. (ApprovalAccounted(On(c)) => ApprovalAccounted(r)) /\ (StartAudited(c, On(c)) => StartAudited(c, r))
    BY <2>1
  <2>5. (ApprovalAccounted(r)' => ApprovalAccounted(On(c))') /\ (StartAudited(c, r)' => StartAudited(c, On(c))')
    BY <2>1 DEF ApprovalAccounted, StartAudited
  <2>6. status[On(c)]' # "absent"
    BY <2>1, <2>2
  <2>7. pc'[c] \in {"persistDecision", "auditDecision"} => MayDecide(job[c].actor, On(c))'
    BY <2>1, <2>3 DEF MayDecide
  <2>8. pc'[c] \in PastApproval => ApprovalAccounted(On(c))'
    BY <1>a, <1>d, <2>2, <2>4, <2>5 DEF HandlerAt
  <2>9. pc'[c] \in PastStart => StartAudited(c, On(c))'
    BY <1>a, <1>d, <2>2, <2>4, <2>5 DEF HandlerAt
  <2> QED
    BY <2>6, <2>7, <2>8, <2>9 DEF HandlerAt
<1>1. ASSUME Create(c) PROVE HandlerAt(c)'
  BY <1>1, <1>a DEF Create, HandlerAt, Handler, Goto, On, TypeOK, PastApproval, PastStart
<1>2. ASSUME Decide(c) PROVE HandlerAt(c)'
  BY <1>2, <1>a, <1>b DEF Decide, HandlerAt, Handler, Goto, On, TypeOK, PastApproval, PastStart, MayDecide, rowVars
<1>3. ASSUME RetryExecution(c) PROVE HandlerAt(c)'
  <2>1. PICK r \in Request : /\ status[r] = "failed" /\ On(c)' = r
                             /\ pc'[c] = "loadExecution" /\ status' = status
    BY <1>3, <1>a DEF RetryExecution, Handler, Goto, On, TypeOK, rowVars
  <2>2. ApprovalAccounted(r)'
    BY <2>1, <1>a, <1>b DEF RowTrail
  <2> QED
    BY <2>1, <2>2 DEF HandlerAt, PastStart
<1>4. ASSUME TouchDirectory(c) PROVE HandlerAt(c)'
  <2>1. pc[c] = "directory" /\ On(c)' = On(c) /\ pc'[c] = "directory"
    BY <1>4, <1>a, <1>c DEF TouchDirectory, Goto, Ends, Over, Handler, On, TypeOK, Job
  <2> QED
    BY <1>d, <2>1 DEF PastApproval, PastStart
<1>5. ASSUME AuditSubmitted(c) PROVE HandlerAt(c)'
  <2>1. pc[c] = "auditSubmitted" /\ On(c)' = On(c) /\ pc'[c] = "done"
    BY <1>5, <1>a, <1>c DEF AuditSubmitted, Goto, Ends, Over, Handler, On, TypeOK, Job
  <2> QED
    BY <1>d, <2>1 DEF PastApproval, PastStart
<1>6. ASSUME PersistApprovalDecision(c) PROVE HandlerAt(c)'
  <2>1. pc[c] = "persistDecision" /\ job' = job /\ On(c)' = On(c) /\ pc'[c] = "auditDecision"
    BY <1>6, <1>a, <1>c DEF PersistApprovalDecision, Goto, Ends, Over, Handler, On, TypeOK, Job
  <2> QED
    BY <1>d, <2>1 DEF PastApproval, PastStart
<1>7. ASSUME AuditDecision(c) PROVE HandlerAt(c)'
  <2>1. pc[c] = "auditDecision" /\ On(c)' = On(c) /\ pc'[c] \in {"loadRequest", "done"}
    BY <1>7, <1>a, <1>c DEF AuditDecision, Goto, Ends, Over, Handler, On, TypeOK, Job
  <2>2. pc'[c] = "loadRequest" => ApprovalAccounted(On(c))'
    <3>1. MayDecide(job[c].actor, On(c))
      BY <1>a, <2>1 DEF HandlerAt
    <3>2. CASE job[c].verdict = "approved"
      <4>1. PICK r \in Request, u \in User : On(c) = r /\ On(c)' = r /\ job[c].actor = u
        BY <1>c, <2>1 DEF Job
      <4>2. [event |-> "request_approved", request |-> r, actor |-> u, call |-> c] \in audit'
        BY <1>7, <1>a, <3>2, <4>1 DEF AuditDecision, Write
      <4>3. MayDecide(u, r)'
        BY <1>7, <3>1, <4>1 DEF AuditDecision, MayDecide, rowVars
      <4>4. ApprovalAccounted(r)'
        BY <4>2, <4>3 DEF ApprovalAccounted
      <4> QED
        BY <4>1, <4>4 DEF ApprovalAccounted
    <3>3. CASE job[c].verdict = "rejected"
      BY <1>7, <1>a, <3>3 DEF AuditDecision, Ends, TypeOK
    <3> QED
      BY <1>7, <3>2, <3>3 DEF AuditDecision
  <2> QED
    BY <1>d, <2>1, <2>2 DEF PastApproval, PastStart
<1>8. ASSUME LoadExecution(c) PROVE HandlerAt(c)'
  <2>1. pc[c] = "loadExecution" /\ On(c)' = On(c) /\ pc'[c] \in {"loadApproval", "done"}
    BY <1>8, <1>a, <1>c DEF LoadExecution, Goto, Ends, Over, Handler, On, TypeOK, Job
  <2> QED
    BY <1>d, <2>1 DEF PastApproval, PastStart
<1>9. ASSUME LoadApproval(c) PROVE HandlerAt(c)'
  <2>1. pc[c] = "loadApproval" /\ On(c)' = On(c) /\ pc'[c] \in {"auditRetry", "done"}
    BY <1>9, <1>a, <1>c DEF LoadApproval, Goto, Ends, Over, Handler, On, TypeOK, Job
  <2> QED
    BY <1>d, <2>1 DEF PastApproval, PastStart
<1>10. ASSUME AuditRetry(c) PROVE HandlerAt(c)'
  <2>1. pc[c] = "auditRetry" /\ On(c)' = On(c) /\ pc'[c] = "loadRequest"
    BY <1>10, <1>a, <1>c DEF AuditRetry, Goto, Ends, Over, Handler, On, TypeOK, Job
  <2> QED
    BY <1>d, <2>1 DEF PastApproval, PastStart
<1>11. ASSUME LoadRequest(c) PROVE HandlerAt(c)'
  <2>1. pc[c] = "loadRequest" /\ On(c)' = On(c) /\ pc'[c] = "markStarted"
    BY <1>11, <1>a, <1>c DEF LoadRequest, Goto, Ends, Over, Handler, On, TypeOK, Job
  <2> QED
    BY <1>d, <2>1 DEF PastApproval, PastStart
<1>12. ASSUME MarkExecutionStarted(c) PROVE HandlerAt(c)'
  <2>1. pc[c] = "markStarted" /\ On(c)' = On(c) /\ pc'[c] = "auditStarted"
    BY <1>12, <1>a, <1>c DEF MarkExecutionStarted, Goto, Ends, Over, Handler, On, TypeOK, Job
  <2> QED
    BY <1>d, <2>1 DEF PastApproval, PastStart
<1>13. ASSUME AuditExecutionStarted(c) PROVE HandlerAt(c)'
  <2>1. pc[c] = "auditStarted" /\ On(c)' = On(c) /\ pc'[c] = "directory"
    BY <1>13, <1>a DEF AuditExecutionStarted, Goto, On, TypeOK
  <2>2. [event |-> "execution_started", request |-> On(c), actor |-> None, call |-> c] \in audit'
    BY <1>13 DEF AuditExecutionStarted, Write
  <2>3. StartAudited(c, On(c))'
    BY <2>1, <2>2 DEF StartAudited
  <2> QED
    BY <1>d, <2>1, <2>3 DEF PastApproval, PastStart
<1>14. ASSUME DirectoryReturns(c) PROVE HandlerAt(c)'
  <2>1. pc[c] = "directory" /\ On(c)' = On(c) /\ pc'[c] = "markFinished"
    BY <1>14, <1>a, <1>c DEF DirectoryReturns, Goto, Ends, Over, Handler, On, TypeOK, Job
  <2> QED
    BY <1>d, <2>1 DEF PastApproval, PastStart
<1>15. ASSUME MarkExecutionFinished(c) PROVE HandlerAt(c)'
  <2>1. pc[c] = "markFinished" /\ On(c)' = On(c) /\ pc'[c] = "auditFinished"
    BY <1>15, <1>a, <1>c DEF MarkExecutionFinished, Goto, Ends, Over, Handler, On, TypeOK, Job
  <2> QED
    BY <1>d, <2>1 DEF PastApproval, PastStart
<1>16. ASSUME FinishConflicts(c) PROVE HandlerAt(c)'
  <2>1. pc[c] = "markFinished" /\ On(c)' = On(c) /\ pc'[c] = "conflicted"
    BY <1>16, <1>a, <1>c DEF FinishConflicts, Goto, Ends, Over, Handler, On, TypeOK, Job
  <2> QED
    BY <1>d, <2>1 DEF PastApproval, PastStart
<1>17. ASSUME AuditExecutionFinished(c) PROVE HandlerAt(c)'
  <2>1. pc[c] = "auditFinished" /\ On(c)' = On(c) /\ pc'[c] = "correlate"
    BY <1>17, <1>a, <1>c DEF AuditExecutionFinished, Goto, Ends, Over, Handler, On, TypeOK, Job
  <2> QED
    BY <1>d, <2>1 DEF PastApproval, PastStart
<1>18. ASSUME CorrelateRequest(c) PROVE HandlerAt(c)'
  <2>1. pc[c] = "correlate" /\ On(c)' = On(c) /\ pc'[c] = "done"
    BY <1>18, <1>a, <1>c DEF CorrelateRequest, Goto, Ends, Over, Handler, On, TypeOK, Job
  <2> QED
    BY <1>d, <2>1 DEF PastApproval, PastStart
<1>19. ASSUME Abort(c) PROVE HandlerAt(c)'
  <2>1. pc[c] # "idle" /\ On(c)' = On(c) /\ pc'[c] = "aborted"
    BY <1>19, <1>a, <1>c DEF Abort, Goto, Ends, Over, Handler, On, TypeOK, Job, Awaiting
  <2> QED
    BY <1>d, <2>1 DEF PastApproval, PastStart
<1> QED
  BY <1>1, <1>2, <1>3, <1>4, <1>5, <1>6, <1>7, <1>8, <1>9, <1>10, <1>11, <1>12, <1>13, <1>14, <1>15, <1>16, <1>17, <1>18, <1>19 DEF Step

\* The rows keep their trail: a row that comes to hold a phase of the execution
\* is written by a handler that is past the approval.
LEMMA RowTrailNext ==
  ASSUME TrailInv, [Next]_vars
  PROVE  RowTrail'
<1>a. TypeInv /\ TypeOK /\ LocalsSet /\ HandlerTrail /\ RowTrail
  BY DEF TrailInv, TypeInv
<1>b. /\ \A r \in Request : ApprovalAccounted(r) => ApprovalAccounted(r)'
      /\ \A r \in Request : status[r] # "absent" => status'[r] # "absent"
  BY <1>a, TrailStays, TrailGrows
<1>c. \A row \in audit : row.request \in Request
  BY <1>a DEF TypeOK, AuditRow
<1>q. ASSUME UNCHANGED <<status, execution, audit>> PROVE RowTrail'
  BY <1>a, <1>b, <1>q DEF RowTrail
<1>w. ASSUME NEW c \in Call, NEW event, NEW actor, pc[c] # "idle", Write(c, event, actor), UNCHANGED <<status, execution>>
      PROVE  RowTrail'
  <2>1. On(c) \in Request /\ status[On(c)] # "absent"
    BY <1>a, <1>w DEF TypeOK, Job, On, HandlerTrail, HandlerAt
  <2> QED
    BY <1>a, <1>b, <1>w, <2>1 DEF RowTrail, Write
<1>e. ASSUME NEW c \in Call, NEW r \in Request, On(c) = r, pc[c] \in PastApproval PROVE ApprovalAccounted(r)'
  BY <1>a, <1>b, <1>e DEF HandlerTrail, HandlerAt
<1>1. ASSUME NEW c \in Call, Create(c) PROVE RowTrail' 
  BY <1>1, <1>a, <1>b, <1>c DEF Create, RowTrail, TypeOK
<1>2. ASSUME NEW c \in Call, Decide(c) PROVE RowTrail'
  BY <1>2, <1>q DEF Decide, rowVars
<1>3. ASSUME NEW c \in Call, RetryExecution(c) PROVE RowTrail'
  BY <1>3, <1>q DEF RetryExecution, rowVars
<1>4. ASSUME NEW c \in Call, TouchDirectory(c) PROVE RowTrail'
  BY <1>4, <1>q DEF TouchDirectory, rowVars
<1>5. ASSUME NEW c \in Call, AuditSubmitted(c) PROVE RowTrail'
  BY <1>5, <1>w DEF AuditSubmitted, rowVars
<1>6. ASSUME NEW c \in Call, PersistApprovalDecision(c) PROVE RowTrail'
  <2>1. /\ execution' = execution /\ audit' = audit
        /\ \A r \in Request : status'[r] = status[r] \/ status'[r] \in {"approved", "rejected"}
    BY <1>6, <1>a DEF PersistApprovalDecision, LocalsSet, TypeOK
  <2> QED
    BY <1>a, <1>b, <1>c, <2>1 DEF RowTrail
<1>7. ASSUME NEW c \in Call, AuditDecision(c) PROVE RowTrail'
  BY <1>7, <1>w DEF AuditDecision, rowVars
<1>8. ASSUME NEW c \in Call, LoadExecution(c) PROVE RowTrail'
  BY <1>8, <1>q DEF LoadExecution, rowVars
<1>9. ASSUME NEW c \in Call, LoadApproval(c) PROVE RowTrail'
  BY <1>9, <1>q DEF LoadApproval, rowVars
<1>10. ASSUME NEW c \in Call, AuditRetry(c) PROVE RowTrail'
  BY <1>10, <1>w DEF AuditRetry, rowVars
<1>11. ASSUME NEW c \in Call, LoadRequest(c) PROVE RowTrail'
  BY <1>11, <1>q DEF LoadRequest, rowVars
<1>12. ASSUME NEW c \in Call, MarkExecutionStarted(c) PROVE RowTrail'
  <2>1. PICK r \in Request : On(c) = r
    BY <1>12, <1>a DEF MarkExecutionStarted, TypeOK, Job, On
  <2>2. ApprovalAccounted(r)'
    BY <1>12, <1>e, <2>1 DEF MarkExecutionStarted, PastApproval
  <2>3. \A s \in Request \ {r} : status'[s] = status[s] /\ execution'[s] = execution[s]
    BY <1>12, <1>a, <2>1 DEF MarkExecutionStarted, TypeOK
  <2> QED
    BY <1>12, <1>a, <1>b, <1>c, <2>2, <2>3 DEF MarkExecutionStarted, RowTrail
<1>13. ASSUME NEW c \in Call, AuditExecutionStarted(c) PROVE RowTrail'
  BY <1>13, <1>w DEF AuditExecutionStarted, rowVars
<1>14. ASSUME NEW c \in Call, DirectoryReturns(c) PROVE RowTrail'
  BY <1>14, <1>q DEF DirectoryReturns, rowVars
<1>15. ASSUME NEW c \in Call, MarkExecutionFinished(c) PROVE RowTrail'
  <2>1. PICK r \in Request : On(c) = r
    BY <1>15, <1>a DEF MarkExecutionFinished, TypeOK, Job, On
  <2>2. ApprovalAccounted(r)'
    BY <1>15, <1>e, <2>1 DEF MarkExecutionFinished, PastApproval
  <2>3. \A s \in Request \ {r} : status'[s] = status[s] /\ execution'[s] = execution[s]
    BY <1>15, <1>a, <2>1 DEF MarkExecutionFinished, TypeOK
  <2> QED
    BY <1>15, <1>a, <1>b, <1>c, <2>2, <2>3 DEF MarkExecutionFinished, RowTrail
<1>16. ASSUME NEW c \in Call, FinishConflicts(c) PROVE RowTrail'
  BY <1>16, <1>q DEF FinishConflicts, rowVars
<1>17. ASSUME NEW c \in Call, AuditExecutionFinished(c) PROVE RowTrail'
  BY <1>17, <1>w DEF AuditExecutionFinished, rowVars
<1>18. ASSUME NEW c \in Call, CorrelateRequest(c) PROVE RowTrail'
  BY <1>18, <1>q DEF CorrelateRequest, rowVars
<1>19. ASSUME NEW c \in Call, Abort(c) PROVE RowTrail'
  BY <1>19, <1>q DEF Abort, rowVars
<1>20. ASSUME Crash PROVE RowTrail'
  BY <1>20, <1>q DEF Crash, rowVars
<1>21. ASSUME UNCHANGED vars PROVE RowTrail'
  BY <1>21, <1>q DEF vars, rowVars
<1> QED
  BY <1>1, <1>2, <1>3, <1>4, <1>5, <1>6, <1>7, <1>8, <1>9, <1>10, <1>11, <1>12, <1>13, <1>14, <1>15, <1>16, <1>17, <1>18, <1>19, <1>20, <1>21 DEF Next, Step

\* Only TouchDirectory touches, and it is a step of a handler past the start.
LEMMA TouchedNext ==
  ASSUME TrailInv, [Next]_vars
  PROVE  DirectoryTouchIsAccountedFor'
<1> DEFINE Touched == \A r \in Request : \A c \in touched[r] : ApprovalAccounted(r) /\ StartAudited(c, r)
<1>a. TypeInv /\ TypeOK /\ HandlerTrail /\ Touched
  BY TouchTrail DEF TrailInv, TypeInv
<1>b. /\ \A r \in Request : ApprovalAccounted(r) => ApprovalAccounted(r)'
      /\ \A c \in Call, r \in Request : StartAudited(c, r) => StartAudited(c, r)'
  BY TrailStays
<1>c. \A r \in Request : touched[r] \subseteq Call
  BY <1>a DEF TypeOK
<1>1. ASSUME NEW c \in Call, TouchDirectory(c) PROVE Touched'
  <2>1. PICK r \in Request : On(c) = r
    BY <1>1, <1>a DEF TouchDirectory, TypeOK, Job, On
  <2>2. ApprovalAccounted(r) /\ StartAudited(c, r)
    BY <1>1, <1>a, <2>1 DEF TouchDirectory, HandlerTrail, HandlerAt, PastApproval, PastStart
  <2>3. \A s \in Request : touched'[s] \subseteq touched[s] \cup (IF s = r THEN {c} ELSE {})
    BY <1>1, <1>a, <2>1 DEF TouchDirectory, TypeOK
  <2> QED
    BY <1>a, <1>b, <1>c, <2>2, <2>3
<1>2. ASSUME touched' = touched PROVE Touched'
  BY <1>2, <1>a, <1>b, <1>c
<1>3. (\E c \in Call : TouchDirectory(c)) \/ touched' = touched
  BY DEF Next, Step, vars, Create, Decide, RetryExecution, AuditSubmitted, PersistApprovalDecision,
         AuditDecision, LoadExecution, LoadApproval, AuditRetry, LoadRequest, MarkExecutionStarted,
         AuditExecutionStarted, DirectoryReturns, MarkExecutionFinished, FinishConflicts,
         AuditExecutionFinished, CorrelateRequest, Abort, Crash
<1>4. Touched'
  BY <1>1, <1>2, <1>3
<1> QED
  BY <1>4 DEF DirectoryTouchIsAccountedFor, ApprovalAccounted, StartAudited

LEMMA HandlerTrailNext ==
  ASSUME TrailInv, [Next]_vars
  PROVE  HandlerTrail'
<1>a. TypeInv
  BY DEF TrailInv
<1>1. ASSUME NEW c \in Call,
             Create(c) \/ Decide(c) \/ RetryExecution(c) \/ TouchDirectory(c) \/ Step(c) \/ Abort(c)
      PROVE  HandlerTrail'
  <2>1. HandlerAt(c)'
    BY <1>1, OwnTrail
  <2>2. ASSUME NEW d \in Call \ {c} PROVE HandlerAt(d)'
    BY <1>1, <1>a, OthersStay, OthersKeepTrail
  <2> QED
    BY <2>1, <2>2 DEF HandlerTrail
<1>2. ASSUME Crash PROVE HandlerTrail'
  <2>1. ASSUME NEW d \in Call PROVE HandlerAt(d)'
    <3>1. CASE pc[d] \in Active
      <4>1. pc'[d] = "aborted" /\ On(d) \in Request /\ On(d)' = On(d) /\ status[On(d)] # "absent"
        BY <1>2, <1>a, <3>1 DEF Crash, Over, Handler, On, TypeInv, TypeOK, Job, Active, Awaiting,
                                TrailInv, HandlerTrail, HandlerAt
      <4> QED
        BY <1>2, <4>1 DEF Crash, rowVars, HandlerAt, PastApproval, PastStart
    <3>2. CASE pc[d] \notin Active
      BY <1>2, <3>2, OthersKeepTrail DEF Crash
    <3> QED
      BY <3>1, <3>2
  <2> QED
    BY <2>1 DEF HandlerTrail
<1>3. ASSUME UNCHANGED vars PROVE HandlerTrail'
  BY <1>3, OthersKeepTrail DEF vars, HandlerTrail
<1> QED
  BY <1>1, <1>2, <1>3 DEF Next

LEMMA TrailNext == TrailInv /\ [Next]_vars => TrailInv'
  BY TypeInvNext, HandlerTrailNext, RowTrailNext, TouchedNext DEF TrailInv

(* Under every interleaving, crash and database error, no directory object  *)
(* is touched before the trail shows an entitled approval and the start     *)
(* audited by the very call that touches it.                                *)
THEOREM TouchAccounted == Spec => []DirectoryTouchIsAccountedFor
<1>1. TrailInv => DirectoryTouchIsAccountedFor
  BY DEF TrailInv
<1> QED
  BY <1>1, TrailInit, TrailNext, PTL DEF Spec

----------------------------------------------------------------------------
(* The tables: a handler past the decision proves that there was one.       *)

Decided ==
  \A c \in Call : pc[c] \in PastApproval \cup {"auditDecision"} => decision[On(c)] # "none"

\* What TablesAgree says of one request, without its trail.
RowsAgree(r) ==
  /\ status[r] \in {"executing", "executed", "failed"} => status[r] = execution[r]
  /\ status[r] = "rejected" => decision[r] = "rejected"
  /\ decision[r] = "none" <=> status[r] \in {"absent", "submitted"}
  /\ decision[r] = "none" => execution[r] = "none"
  /\ approvedAt[r] <=> decision[r] = "approved"
  /\ execution[r] = "executed" => executedAt[r]

TablesInv == TrailInv /\ Decided /\ \A r \in Request : RowsAgree(r)

LEMMA TablesInit == Init => TablesInv
  BY TrailInit DEF Init, TablesInv, Decided, RowsAgree, PastApproval

LEMMA RowsAgreeNext ==
  ASSUME TablesInv, [Next]_vars
  PROVE  \A r \in Request : RowsAgree(r)'
<1> DEFINE Rows == \A r \in Request : RowsAgree(r)
<1>a. TypeOK /\ LocalsSet /\ Decided /\ Rows
  BY DEF TablesInv, TrailInv, TypeInv
<1>q. ASSUME UNCHANGED rowVars PROVE Rows'
  BY <1>a, <1>q DEF RowsAgree, rowVars
<1>1. ASSUME NEW c \in Call, Create(c) PROVE Rows'
  BY <1>1, <1>a DEF Create, RowsAgree, TypeOK
<1>2. ASSUME NEW c \in Call, Decide(c) PROVE Rows'
  BY <1>2, <1>q DEF Decide
<1>3. ASSUME NEW c \in Call, RetryExecution(c) PROVE Rows'
  BY <1>3, <1>q DEF RetryExecution
<1>4. ASSUME NEW c \in Call, TouchDirectory(c) PROVE Rows'
  BY <1>4, <1>q DEF TouchDirectory
<1>5. ASSUME NEW c \in Call, AuditSubmitted(c) PROVE Rows'
  BY <1>5, <1>q DEF AuditSubmitted
<1>6. ASSUME NEW c \in Call, PersistApprovalDecision(c) PROVE Rows'
  BY <1>6, <1>a DEF PersistApprovalDecision, RowsAgree, TypeOK, LocalsSet
<1>7. ASSUME NEW c \in Call, AuditDecision(c) PROVE Rows'
  BY <1>7, <1>q DEF AuditDecision
<1>8. ASSUME NEW c \in Call, LoadExecution(c) PROVE Rows'
  BY <1>8, <1>q DEF LoadExecution
<1>9. ASSUME NEW c \in Call, LoadApproval(c) PROVE Rows'
  BY <1>9, <1>q DEF LoadApproval
<1>10. ASSUME NEW c \in Call, AuditRetry(c) PROVE Rows'
  BY <1>10, <1>q DEF AuditRetry
<1>11. ASSUME NEW c \in Call, LoadRequest(c) PROVE Rows'
  BY <1>11, <1>q DEF LoadRequest
<1>12. ASSUME NEW c \in Call, MarkExecutionStarted(c) PROVE Rows'
  <2>1. PICK r \in Request : On(c) = r /\ decision[r] # "none"
    BY <1>12, <1>a DEF MarkExecutionStarted, TypeOK, Job, On, Decided, PastApproval
  <2> QED
    BY <1>12, <1>a, <2>1 DEF MarkExecutionStarted, RowsAgree, TypeOK, LocalsSet
<1>13. ASSUME NEW c \in Call, AuditExecutionStarted(c) PROVE Rows'
  BY <1>13, <1>q DEF AuditExecutionStarted
<1>14. ASSUME NEW c \in Call, DirectoryReturns(c) PROVE Rows'
  BY <1>14, <1>q DEF DirectoryReturns
<1>15. ASSUME NEW c \in Call, MarkExecutionFinished(c) PROVE Rows'
  <2>1. PICK r \in Request : On(c) = r /\ decision[r] # "none"
    BY <1>15, <1>a DEF MarkExecutionFinished, TypeOK, Job, On, Decided, PastApproval
  <2> QED
    BY <1>15, <1>a, <2>1 DEF MarkExecutionFinished, RowsAgree, TypeOK, LocalsSet
<1>16. ASSUME NEW c \in Call, FinishConflicts(c) PROVE Rows'
  BY <1>16, <1>q DEF FinishConflicts
<1>17. ASSUME NEW c \in Call, AuditExecutionFinished(c) PROVE Rows'
  BY <1>17, <1>q DEF AuditExecutionFinished
<1>18. ASSUME NEW c \in Call, CorrelateRequest(c) PROVE Rows'
  BY <1>18, <1>q DEF CorrelateRequest
<1>19. ASSUME NEW c \in Call, Abort(c) PROVE Rows'
  BY <1>19, <1>q DEF Abort
<1>20. ASSUME Crash PROVE Rows'
  BY <1>20, <1>q DEF Crash
<1>21. ASSUME UNCHANGED vars PROVE Rows'
  BY <1>21, <1>q DEF vars
<1> QED
  BY <1>1, <1>2, <1>3, <1>4, <1>5, <1>6, <1>7, <1>8, <1>9, <1>10, <1>11, <1>12, <1>13, <1>14, <1>15, <1>16, <1>17, <1>18, <1>19, <1>20, <1>21 DEF Next, Step

LEMMA DecidedNext ==
  ASSUME TablesInv, [Next]_vars
  PROVE  Decided'
<1>a. TypeInv /\ TypeOK /\ LocalsSet /\ Decided /\ \A r \in Request : RowsAgree(r)
  BY DEF TablesInv, TrailInv, TypeInv
<1> DEFINE Past(c) == pc[c] \in PastApproval \cup {"auditDecision"}
\* A decision stays in the row, whichever it is.
<1>s. \A r \in Request : decision[r] # "none" => decision'[r] # "none"
  BY <1>a DEF TypeOK, LocalsSet, Next, Step, vars, rowVars, Create, Decide, RetryExecution, TouchDirectory,
         AuditSubmitted, PersistApprovalDecision, AuditDecision, LoadExecution, LoadApproval, AuditRetry,
         LoadRequest, MarkExecutionStarted, AuditExecutionStarted, DirectoryReturns, MarkExecutionFinished,
         FinishConflicts, AuditExecutionFinished, CorrelateRequest, Abort, Crash
\* A handler that goes on keeps what it had.
<1>k. ASSUME NEW c \in Call, On(c)' = On(c), Past(c)' => Past(c) PROVE Past(c)' => decision'[On(c)'] # "none"
  <2>1. pc[c] # "idle" => On(c) \in Request
    BY <1>a DEF TypeOK, Job, On
  <2> QED
    BY <1>a, <1>k, <1>s, <2>1 DEF Decided, PastApproval
<1>1. ASSUME NEW c \in Call, Create(c) PROVE Past(c)' => decision'[On(c)'] # "none"
  BY <1>1, <1>a DEF Create, Goto, TypeOK, PastApproval
<1>2. ASSUME NEW c \in Call, Decide(c) PROVE Past(c)' => decision'[On(c)'] # "none"
  BY <1>2, <1>a DEF Decide, Goto, TypeOK, PastApproval
<1>3. ASSUME NEW c \in Call, RetryExecution(c) PROVE Past(c)' => decision'[On(c)'] # "none"
  <2>1. PICK r \in Request : On(c)' = r /\ status[r] = "failed"
    BY <1>3, <1>a DEF RetryExecution, Handler, On, TypeOK
  <2>2. decision[r] # "none"
    BY <1>a, <2>1 DEF RowsAgree
  <2> QED
    BY <1>s, <2>1, <2>2
<1>4. ASSUME NEW c \in Call, TouchDirectory(c) PROVE Past(c)' => decision'[On(c)'] # "none"
  <2>1. On(c)' = On(c) /\ (Past(c)' => Past(c))
    BY <1>4, <1>a DEF TouchDirectory, Goto, Ends, Over, Handler, On, TypeOK, Job, PastApproval, Awaiting
  <2> QED
    BY <1>k, <2>1
<1>5. ASSUME NEW c \in Call, AuditSubmitted(c) PROVE Past(c)' => decision'[On(c)'] # "none"
  <2>1. On(c)' = On(c) /\ (Past(c)' => Past(c))
    BY <1>5, <1>a DEF AuditSubmitted, Goto, Ends, Over, Handler, On, TypeOK, Job, PastApproval, Awaiting
  <2> QED
    BY <1>k, <2>1
<1>6. ASSUME NEW c \in Call, PersistApprovalDecision(c) PROVE Past(c)' => decision'[On(c)'] # "none"
  <2>1. On(c) \in Request /\ On(c)' = On(c)
    BY <1>6, <1>a DEF PersistApprovalDecision, TypeOK, Job, On
  <2> QED
    BY <1>6, <1>a, <2>1 DEF PersistApprovalDecision, LocalsSet, TypeOK
<1>7. ASSUME NEW c \in Call, AuditDecision(c) PROVE Past(c)' => decision'[On(c)'] # "none"
  <2>1. On(c)' = On(c) /\ (Past(c)' => Past(c))
    BY <1>7, <1>a DEF AuditDecision, Goto, Ends, Over, Handler, On, TypeOK, Job, PastApproval, Awaiting
  <2> QED
    BY <1>k, <2>1
<1>8. ASSUME NEW c \in Call, LoadExecution(c) PROVE Past(c)' => decision'[On(c)'] # "none"
  <2>1. On(c)' = On(c) /\ (Past(c)' => Past(c))
    BY <1>8, <1>a DEF LoadExecution, Goto, Ends, Over, Handler, On, TypeOK, Job, PastApproval, Awaiting
  <2> QED
    BY <1>k, <2>1
<1>9. ASSUME NEW c \in Call, LoadApproval(c) PROVE Past(c)' => decision'[On(c)'] # "none"
  <2>1. On(c)' = On(c) /\ (Past(c)' => Past(c))
    BY <1>9, <1>a DEF LoadApproval, Goto, Ends, Over, Handler, On, TypeOK, Job, PastApproval, Awaiting
  <2> QED
    BY <1>k, <2>1
<1>10. ASSUME NEW c \in Call, AuditRetry(c) PROVE Past(c)' => decision'[On(c)'] # "none"
  <2>1. On(c)' = On(c) /\ (Past(c)' => Past(c))
    BY <1>10, <1>a DEF AuditRetry, Goto, Ends, Over, Handler, On, TypeOK, Job, PastApproval, Awaiting
  <2> QED
    BY <1>k, <2>1
<1>11. ASSUME NEW c \in Call, LoadRequest(c) PROVE Past(c)' => decision'[On(c)'] # "none"
  <2>1. On(c)' = On(c) /\ (Past(c)' => Past(c))
    BY <1>11, <1>a DEF LoadRequest, Goto, Ends, Over, Handler, On, TypeOK, Job, PastApproval, Awaiting
  <2> QED
    BY <1>k, <2>1
<1>12. ASSUME NEW c \in Call, MarkExecutionStarted(c) PROVE Past(c)' => decision'[On(c)'] # "none"
  <2>1. On(c)' = On(c) /\ (Past(c)' => Past(c))
    BY <1>12, <1>a DEF MarkExecutionStarted, Goto, Ends, Over, Handler, On, TypeOK, Job, PastApproval, Awaiting
  <2> QED
    BY <1>k, <2>1
<1>13. ASSUME NEW c \in Call, AuditExecutionStarted(c) PROVE Past(c)' => decision'[On(c)'] # "none"
  <2>1. On(c)' = On(c) /\ (Past(c)' => Past(c))
    BY <1>13, <1>a DEF AuditExecutionStarted, Goto, Ends, Over, Handler, On, TypeOK, Job, PastApproval, Awaiting
  <2> QED
    BY <1>k, <2>1
<1>14. ASSUME NEW c \in Call, DirectoryReturns(c) PROVE Past(c)' => decision'[On(c)'] # "none"
  <2>1. On(c)' = On(c) /\ (Past(c)' => Past(c))
    BY <1>14, <1>a DEF DirectoryReturns, Goto, Ends, Over, Handler, On, TypeOK, Job, PastApproval, Awaiting
  <2> QED
    BY <1>k, <2>1
<1>15. ASSUME NEW c \in Call, MarkExecutionFinished(c) PROVE Past(c)' => decision'[On(c)'] # "none"
  <2>1. On(c)' = On(c) /\ (Past(c)' => Past(c))
    BY <1>15, <1>a DEF MarkExecutionFinished, Goto, Ends, Over, Handler, On, TypeOK, Job, PastApproval, Awaiting
  <2> QED
    BY <1>k, <2>1
<1>16. ASSUME NEW c \in Call, FinishConflicts(c) PROVE Past(c)' => decision'[On(c)'] # "none"
  <2>1. On(c)' = On(c) /\ (Past(c)' => Past(c))
    BY <1>16, <1>a DEF FinishConflicts, Goto, Ends, Over, Handler, On, TypeOK, Job, PastApproval, Awaiting
  <2> QED
    BY <1>k, <2>1
<1>17. ASSUME NEW c \in Call, AuditExecutionFinished(c) PROVE Past(c)' => decision'[On(c)'] # "none"
  <2>1. On(c)' = On(c) /\ (Past(c)' => Past(c))
    BY <1>17, <1>a DEF AuditExecutionFinished, Goto, Ends, Over, Handler, On, TypeOK, Job, PastApproval, Awaiting
  <2> QED
    BY <1>k, <2>1
<1>18. ASSUME NEW c \in Call, CorrelateRequest(c) PROVE Past(c)' => decision'[On(c)'] # "none"
  <2>1. On(c)' = On(c) /\ (Past(c)' => Past(c))
    BY <1>18, <1>a DEF CorrelateRequest, Goto, Ends, Over, Handler, On, TypeOK, Job, PastApproval, Awaiting
  <2> QED
    BY <1>k, <2>1
<1>19. ASSUME NEW c \in Call, Abort(c) PROVE Past(c)' => decision'[On(c)'] # "none"
  <2>1. On(c)' = On(c) /\ (Past(c)' => Past(c))
    BY <1>19, <1>a DEF Abort, Goto, Ends, Over, Handler, On, TypeOK, Job, PastApproval, Awaiting
  <2> QED
    BY <1>k, <2>1
<1>20. ASSUME NEW c \in Call,
             Create(c) \/ Decide(c) \/ RetryExecution(c) \/ TouchDirectory(c) \/ Step(c) \/ Abort(c)
      PROVE  Decided'
  <2>1. Past(c)' => decision'[On(c)'] # "none"
    BY <1>20, <1>1, <1>2, <1>3, <1>4, <1>5, <1>6, <1>7, <1>8, <1>9, <1>10, <1>11, <1>12, <1>13, <1>14, <1>15, <1>16, <1>17, <1>18, <1>19 DEF Step
  <2>2. ASSUME NEW d \in Call \ {c} PROVE Past(d)' => decision'[On(d)'] # "none"
    BY <1>20, <1>a, <1>k, OthersStay DEF On
  <2> QED
    BY <2>1, <2>2 DEF Decided
<1>21. ASSUME Crash PROVE Decided'
  <2>1. \A d \in Call : On(d)' = On(d) /\ (Past(d)' => Past(d))
    BY <1>21, <1>a DEF Crash, Over, Handler, On, TypeOK, Job, PastApproval
  <2> QED
    BY <1>k, <2>1 DEF Decided
<1>22. ASSUME UNCHANGED vars PROVE Decided'
  BY <1>22, <1>k DEF vars, Decided, On
<1> QED
  BY <1>20, <1>21, <1>22 DEF Next

LEMMA TablesNext == TablesInv /\ [Next]_vars => TablesInv'
  BY TrailNext, DecidedNext, RowsAgreeNext DEF TablesInv

(* The tables of a request agree under every interleaving, crash and error. *)
THEOREM TablesAlwaysAgree == Spec => []TablesAgree
<1>1. TablesInv => TablesAgree
  BY DEF TablesInv, TablesAgree, RowsAgree, TrailInv, RowTrail, ApprovalAccounted, Audited
<1> QED
  BY <1>1, TablesInit, TablesNext, PTL DEF Spec

----------------------------------------------------------------------------
(* Retries: a request that failed shows the start of an attempt, and a call *)
(* that only now arrives has written no row.                                *)

Retrying == {"loadExecution", "loadApproval", "auditRetry"}

RetryAt(c) ==
  pc[c] \in Retrying =>
    /\ job[c].actor \in Administrator
    /\ \E d \in Call \ {c} : StartAudited(d, On(c))

RowsOfArrived == \A row \in audit : pc[row.call] # "idle"

AttemptedRows ==
  \A r \in Request : status[r] \in {"executed", "failed"} => \E c \in Call : StartAudited(c, r)

RetryInv ==
  /\ TrailInv
  /\ \A c \in Call : RetryAt(c)
  /\ RowsOfArrived
  /\ AttemptedRows
  /\ RetryFollowsAnAttempt

LEMMA RetryInit == Init => RetryInv
  BY TrailInit DEF Init, RetryInv, RetryAt, RowsOfArrived, AttemptedRows, RetryFollowsAnAttempt, Retrying

\* A call that arrived never goes back to idle, and every row is of one.
LEMMA RowsOfArrivedNext ==
  ASSUME RetryInv, [Next]_vars
  PROVE  RowsOfArrived'
<1>a. TypeOK /\ RowsOfArrived /\ \A row \in audit : row.call \in Call
  BY DEF RetryInv, TrailInv, TypeInv, TypeOK, AuditRow
<1>q. ASSUME audit' = audit, \A c \in Call : pc[c] # "idle" => pc'[c] # "idle" PROVE RowsOfArrived'
  BY <1>a, <1>q DEF RowsOfArrived
<1>w. ASSUME NEW c \in Call, NEW event, NEW actor, pc[c] # "idle", Write(c, event, actor),
             \A d \in Call : pc[d] # "idle" => pc'[d] # "idle"
      PROVE  RowsOfArrived'
  BY <1>a, <1>w DEF RowsOfArrived, Write
<1>1. ASSUME NEW c \in Call, Create(c) PROVE RowsOfArrived'
  <2>1. \A d \in Call : pc[d] # "idle" => pc'[d] # "idle"
    BY <1>1, <1>a DEF Create, Goto, Ends, TypeOK
  <2> QED
    BY <1>1, <1>q, <2>1 DEF Create
<1>2. ASSUME NEW c \in Call, Decide(c) PROVE RowsOfArrived'
  <2>1. \A d \in Call : pc[d] # "idle" => pc'[d] # "idle"
    BY <1>2, <1>a DEF Decide, Goto, Ends, TypeOK
  <2> QED
    BY <1>2, <1>q, <2>1 DEF Decide
<1>3. ASSUME NEW c \in Call, RetryExecution(c) PROVE RowsOfArrived'
  <2>1. \A d \in Call : pc[d] # "idle" => pc'[d] # "idle"
    BY <1>3, <1>a DEF RetryExecution, Goto, Ends, TypeOK
  <2> QED
    BY <1>3, <1>q, <2>1 DEF RetryExecution
<1>4. ASSUME NEW c \in Call, TouchDirectory(c) PROVE RowsOfArrived'
  <2>1. \A d \in Call : pc[d] # "idle" => pc'[d] # "idle"
    BY <1>4, <1>a DEF TouchDirectory, Goto, Ends, TypeOK
  <2> QED
    BY <1>4, <1>q, <2>1 DEF TouchDirectory
<1>5. ASSUME NEW c \in Call, AuditSubmitted(c) PROVE RowsOfArrived'
  <2>1. pc[c] # "idle" /\ \A d \in Call : pc[d] # "idle" => pc'[d] # "idle"
    BY <1>5, <1>a DEF AuditSubmitted, Goto, Ends, TypeOK
  <2> QED
    BY <1>5, <1>w, <2>1 DEF AuditSubmitted
<1>6. ASSUME NEW c \in Call, PersistApprovalDecision(c) PROVE RowsOfArrived'
  <2>1. \A d \in Call : pc[d] # "idle" => pc'[d] # "idle"
    BY <1>6, <1>a DEF PersistApprovalDecision, Goto, Ends, TypeOK
  <2> QED
    BY <1>6, <1>q, <2>1 DEF PersistApprovalDecision
<1>7. ASSUME NEW c \in Call, AuditDecision(c) PROVE RowsOfArrived'
  <2>1. pc[c] # "idle" /\ \A d \in Call : pc[d] # "idle" => pc'[d] # "idle"
    BY <1>7, <1>a DEF AuditDecision, Goto, Ends, TypeOK
  <2> QED
    BY <1>7, <1>w, <2>1 DEF AuditDecision
<1>8. ASSUME NEW c \in Call, LoadExecution(c) PROVE RowsOfArrived'
  <2>1. \A d \in Call : pc[d] # "idle" => pc'[d] # "idle"
    BY <1>8, <1>a DEF LoadExecution, Goto, Ends, TypeOK
  <2> QED
    BY <1>8, <1>q, <2>1 DEF LoadExecution
<1>9. ASSUME NEW c \in Call, LoadApproval(c) PROVE RowsOfArrived'
  <2>1. \A d \in Call : pc[d] # "idle" => pc'[d] # "idle"
    BY <1>9, <1>a DEF LoadApproval, Goto, Ends, TypeOK
  <2> QED
    BY <1>9, <1>q, <2>1 DEF LoadApproval
<1>10. ASSUME NEW c \in Call, AuditRetry(c) PROVE RowsOfArrived'
  <2>1. pc[c] # "idle" /\ \A d \in Call : pc[d] # "idle" => pc'[d] # "idle"
    BY <1>10, <1>a DEF AuditRetry, Goto, Ends, TypeOK
  <2> QED
    BY <1>10, <1>w, <2>1 DEF AuditRetry
<1>11. ASSUME NEW c \in Call, LoadRequest(c) PROVE RowsOfArrived'
  <2>1. \A d \in Call : pc[d] # "idle" => pc'[d] # "idle"
    BY <1>11, <1>a DEF LoadRequest, Goto, Ends, TypeOK
  <2> QED
    BY <1>11, <1>q, <2>1 DEF LoadRequest
<1>12. ASSUME NEW c \in Call, MarkExecutionStarted(c) PROVE RowsOfArrived'
  <2>1. \A d \in Call : pc[d] # "idle" => pc'[d] # "idle"
    BY <1>12, <1>a DEF MarkExecutionStarted, Goto, Ends, TypeOK
  <2> QED
    BY <1>12, <1>q, <2>1 DEF MarkExecutionStarted
<1>13. ASSUME NEW c \in Call, AuditExecutionStarted(c) PROVE RowsOfArrived'
  <2>1. pc[c] # "idle" /\ \A d \in Call : pc[d] # "idle" => pc'[d] # "idle"
    BY <1>13, <1>a DEF AuditExecutionStarted, Goto, Ends, TypeOK
  <2> QED
    BY <1>13, <1>w, <2>1 DEF AuditExecutionStarted
<1>14. ASSUME NEW c \in Call, DirectoryReturns(c) PROVE RowsOfArrived'
  <2>1. \A d \in Call : pc[d] # "idle" => pc'[d] # "idle"
    BY <1>14, <1>a DEF DirectoryReturns, Goto, Ends, TypeOK
  <2> QED
    BY <1>14, <1>q, <2>1 DEF DirectoryReturns
<1>15. ASSUME NEW c \in Call, MarkExecutionFinished(c) PROVE RowsOfArrived'
  <2>1. \A d \in Call : pc[d] # "idle" => pc'[d] # "idle"
    BY <1>15, <1>a DEF MarkExecutionFinished, Goto, Ends, TypeOK
  <2> QED
    BY <1>15, <1>q, <2>1 DEF MarkExecutionFinished
<1>16. ASSUME NEW c \in Call, FinishConflicts(c) PROVE RowsOfArrived'
  <2>1. \A d \in Call : pc[d] # "idle" => pc'[d] # "idle"
    BY <1>16, <1>a DEF FinishConflicts, Goto, Ends, TypeOK
  <2> QED
    BY <1>16, <1>q, <2>1 DEF FinishConflicts
<1>17. ASSUME NEW c \in Call, AuditExecutionFinished(c) PROVE RowsOfArrived'
  <2>1. pc[c] # "idle" /\ \A d \in Call : pc[d] # "idle" => pc'[d] # "idle"
    BY <1>17, <1>a DEF AuditExecutionFinished, Goto, Ends, TypeOK
  <2> QED
    BY <1>17, <1>w, <2>1 DEF AuditExecutionFinished
<1>18. ASSUME NEW c \in Call, CorrelateRequest(c) PROVE RowsOfArrived'
  <2>1. \A d \in Call : pc[d] # "idle" => pc'[d] # "idle"
    BY <1>18, <1>a DEF CorrelateRequest, Goto, Ends, TypeOK
  <2> QED
    BY <1>18, <1>q, <2>1 DEF CorrelateRequest
<1>19. ASSUME NEW c \in Call, Abort(c) PROVE RowsOfArrived'
  <2>1. \A d \in Call : pc[d] # "idle" => pc'[d] # "idle"
    BY <1>19, <1>a DEF Abort, Goto, Ends, TypeOK
  <2> QED
    BY <1>19, <1>q, <2>1 DEF Abort
<1>20. ASSUME Crash PROVE RowsOfArrived'
  BY <1>20, <1>q DEF Crash
<1>21. ASSUME UNCHANGED vars PROVE RowsOfArrived'
  BY <1>21, <1>q DEF vars
<1> QED
  BY <1>1, <1>2, <1>3, <1>4, <1>5, <1>6, <1>7, <1>8, <1>9, <1>10, <1>11, <1>12, <1>13, <1>14, <1>15, <1>16, <1>17, <1>18, <1>19, <1>20, <1>21 DEF Next, Step

\* A result is stored by a handler that audited its start.
LEMMA AttemptedRowsNext ==
  ASSUME RetryInv, [Next]_vars
  PROVE  AttemptedRows'
<1>a. TypeInv /\ TypeOK /\ LocalsSet /\ HandlerTrail /\ AttemptedRows
  BY DEF RetryInv, TrailInv, TypeInv
<1>b. \A c \in Call, r \in Request : StartAudited(c, r) => StartAudited(c, r)'
  BY TrailStays DEF RetryInv
<1>q. ASSUME status' = status PROVE AttemptedRows'
  BY <1>a, <1>b, <1>q DEF AttemptedRows
<1>s. ASSUME NEW r \in Request, NEW phase, status' = [status EXCEPT ![r] = phase],
             phase \in {"executed", "failed"} => \E c \in Call : StartAudited(c, r)
      PROVE  AttemptedRows'
  BY <1>a, <1>b, <1>s DEF AttemptedRows, TypeOK
<1>1. ASSUME NEW c \in Call, Create(c) PROVE AttemptedRows'
  BY <1>1, <1>s DEF Create
<1>2. ASSUME NEW c \in Call, Decide(c) PROVE AttemptedRows'
  BY <1>2, <1>q DEF Decide, rowVars
<1>3. ASSUME NEW c \in Call, RetryExecution(c) PROVE AttemptedRows'
  BY <1>3, <1>q DEF RetryExecution, rowVars
<1>4. ASSUME NEW c \in Call, TouchDirectory(c) PROVE AttemptedRows'
  BY <1>4, <1>q DEF TouchDirectory, rowVars
<1>5. ASSUME NEW c \in Call, AuditSubmitted(c) PROVE AttemptedRows'
  BY <1>5, <1>q DEF AuditSubmitted, rowVars
<1>6. ASSUME NEW c \in Call, PersistApprovalDecision(c) PROVE AttemptedRows'
  BY <1>6, <1>a, <1>s DEF PersistApprovalDecision, LocalsSet, TypeOK, Job, On
<1>7. ASSUME NEW c \in Call, AuditDecision(c) PROVE AttemptedRows'
  BY <1>7, <1>q DEF AuditDecision, rowVars
<1>8. ASSUME NEW c \in Call, LoadExecution(c) PROVE AttemptedRows'
  BY <1>8, <1>q DEF LoadExecution, rowVars
<1>9. ASSUME NEW c \in Call, LoadApproval(c) PROVE AttemptedRows'
  BY <1>9, <1>q DEF LoadApproval, rowVars
<1>10. ASSUME NEW c \in Call, AuditRetry(c) PROVE AttemptedRows'
  BY <1>10, <1>q DEF AuditRetry, rowVars
<1>11. ASSUME NEW c \in Call, LoadRequest(c) PROVE AttemptedRows'
  BY <1>11, <1>q DEF LoadRequest, rowVars
<1>12. ASSUME NEW c \in Call, MarkExecutionStarted(c) PROVE AttemptedRows'
  BY <1>12, <1>a, <1>s DEF MarkExecutionStarted, TypeOK, Job, On
<1>13. ASSUME NEW c \in Call, AuditExecutionStarted(c) PROVE AttemptedRows'
  BY <1>13, <1>q DEF AuditExecutionStarted, rowVars
<1>14. ASSUME NEW c \in Call, DirectoryReturns(c) PROVE AttemptedRows'
  BY <1>14, <1>q DEF DirectoryReturns, rowVars
<1>15. ASSUME NEW c \in Call, MarkExecutionFinished(c) PROVE AttemptedRows'
  <2>1. PICK r \in Request : On(c) = r
    BY <1>15, <1>a DEF MarkExecutionFinished, TypeOK, Job, On
  <2>2. StartAudited(c, r)
    BY <1>15, <1>a, <2>1 DEF MarkExecutionFinished, HandlerTrail, HandlerAt, PastStart
  <2> QED
    BY <1>15, <1>s, <2>1, <2>2 DEF MarkExecutionFinished
<1>16. ASSUME NEW c \in Call, FinishConflicts(c) PROVE AttemptedRows'
  BY <1>16, <1>q DEF FinishConflicts, rowVars
<1>17. ASSUME NEW c \in Call, AuditExecutionFinished(c) PROVE AttemptedRows'
  BY <1>17, <1>q DEF AuditExecutionFinished, rowVars
<1>18. ASSUME NEW c \in Call, CorrelateRequest(c) PROVE AttemptedRows'
  BY <1>18, <1>q DEF CorrelateRequest, rowVars
<1>19. ASSUME NEW c \in Call, Abort(c) PROVE AttemptedRows'
  BY <1>19, <1>q DEF Abort, rowVars
<1>20. ASSUME Crash PROVE AttemptedRows'
  BY <1>20, <1>q DEF Crash, rowVars
<1>21. ASSUME UNCHANGED vars PROVE AttemptedRows'
  BY <1>21, <1>q DEF vars, rowVars
<1> QED
  BY <1>1, <1>2, <1>3, <1>4, <1>5, <1>6, <1>7, <1>8, <1>9, <1>10, <1>11, <1>12, <1>13, <1>14, <1>15, <1>16, <1>17, <1>18, <1>19, <1>20, <1>21 DEF Next, Step

LEMMA RetryAtNext ==
  ASSUME RetryInv, [Next]_vars
  PROVE  \A c \in Call : RetryAt(c)'
<1>a. TypeInv /\ TypeOK /\ AttemptedRows /\ RowsOfArrived /\ \A c \in Call : RetryAt(c)
  BY DEF RetryInv, TrailInv, TypeInv
<1>b. \A c \in Call, r \in Request : StartAudited(c, r) => StartAudited(c, r)'
  BY TrailStays DEF RetryInv
<1>k. ASSUME NEW c \in Call, pc'[c] \in Retrying => pc[c] \in Retrying /\ job'[c] = job[c] PROVE RetryAt(c)'
  <2>1. CASE pc'[c] \in Retrying
    <3>1. PICK r \in Request : On(c) = r /\ On(c)' = r
      BY <1>a, <1>k, <2>1 DEF TypeOK, Job, On, Retrying
    <3>2. job'[c].actor \in Administrator /\ \E d \in Call \ {c} : StartAudited(d, r)
      BY <1>a, <1>k, <2>1, <3>1 DEF RetryAt
    <3>3. \E d \in Call \ {c} : StartAudited(d, r)'
      BY <1>b, <3>2
    <3> QED
      BY <3>1, <3>2, <3>3 DEF RetryAt, StartAudited
  <2> QED
    BY <2>1 DEF RetryAt
<1>1. ASSUME NEW c \in Call, Create(c) PROVE RetryAt(c)'
  BY <1>1, <1>a, <1>k DEF Create, Goto, Ends, TypeOK, Retrying
<1>2. ASSUME NEW c \in Call, Decide(c) PROVE RetryAt(c)'
  BY <1>2, <1>a, <1>k DEF Decide, Goto, Ends, TypeOK, Retrying
<1>3. ASSUME NEW c \in Call, RetryExecution(c) PROVE RetryAt(c)'
  <2>1. PICK r \in Request : /\ On(c)' = r /\ status[r] = "failed" /\ pc[c] = "idle"
                             /\ job'[c].actor \in Administrator
    BY <1>3, <1>a DEF RetryExecution, Handler, On, Arrives, TypeOK
  <2>2. PICK d \in Call : StartAudited(d, r)
    BY <1>a, <2>1 DEF AttemptedRows
  <2>3. d # c
    BY <1>a, <2>1, <2>2 DEF RowsOfArrived, StartAudited
  <2>4. StartAudited(d, r)'
    BY <1>b, <2>2
  <2> QED
    BY <2>1, <2>3, <2>4 DEF RetryAt, StartAudited
<1>4. ASSUME NEW c \in Call, TouchDirectory(c) PROVE RetryAt(c)'
  BY <1>4, <1>a, <1>k DEF TouchDirectory, Goto, Ends, TypeOK, Retrying
<1>5. ASSUME NEW c \in Call, AuditSubmitted(c) PROVE RetryAt(c)'
  BY <1>5, <1>a, <1>k DEF AuditSubmitted, Goto, Ends, TypeOK, Retrying
<1>6. ASSUME NEW c \in Call, PersistApprovalDecision(c) PROVE RetryAt(c)'
  BY <1>6, <1>a, <1>k DEF PersistApprovalDecision, Goto, Ends, TypeOK, Retrying
<1>7. ASSUME NEW c \in Call, AuditDecision(c) PROVE RetryAt(c)'
  BY <1>7, <1>a, <1>k DEF AuditDecision, Goto, Ends, TypeOK, Retrying
<1>8. ASSUME NEW c \in Call, LoadExecution(c) PROVE RetryAt(c)'
  BY <1>8, <1>a, <1>k DEF LoadExecution, Goto, Ends, TypeOK, Retrying
<1>9. ASSUME NEW c \in Call, LoadApproval(c) PROVE RetryAt(c)'
  BY <1>9, <1>a, <1>k DEF LoadApproval, Goto, Ends, TypeOK, Retrying
<1>10. ASSUME NEW c \in Call, AuditRetry(c) PROVE RetryAt(c)'
  BY <1>10, <1>a, <1>k DEF AuditRetry, Goto, Ends, TypeOK, Retrying
<1>11. ASSUME NEW c \in Call, LoadRequest(c) PROVE RetryAt(c)'
  BY <1>11, <1>a, <1>k DEF LoadRequest, Goto, Ends, TypeOK, Retrying
<1>12. ASSUME NEW c \in Call, MarkExecutionStarted(c) PROVE RetryAt(c)'
  BY <1>12, <1>a, <1>k DEF MarkExecutionStarted, Goto, Ends, TypeOK, Retrying
<1>13. ASSUME NEW c \in Call, AuditExecutionStarted(c) PROVE RetryAt(c)'
  BY <1>13, <1>a, <1>k DEF AuditExecutionStarted, Goto, Ends, TypeOK, Retrying
<1>14. ASSUME NEW c \in Call, DirectoryReturns(c) PROVE RetryAt(c)'
  BY <1>14, <1>a, <1>k DEF DirectoryReturns, Goto, Ends, TypeOK, Retrying
<1>15. ASSUME NEW c \in Call, MarkExecutionFinished(c) PROVE RetryAt(c)'
  BY <1>15, <1>a, <1>k DEF MarkExecutionFinished, Goto, Ends, TypeOK, Retrying
<1>16. ASSUME NEW c \in Call, FinishConflicts(c) PROVE RetryAt(c)'
  BY <1>16, <1>a, <1>k DEF FinishConflicts, Goto, Ends, TypeOK, Retrying
<1>17. ASSUME NEW c \in Call, AuditExecutionFinished(c) PROVE RetryAt(c)'
  BY <1>17, <1>a, <1>k DEF AuditExecutionFinished, Goto, Ends, TypeOK, Retrying
<1>18. ASSUME NEW c \in Call, CorrelateRequest(c) PROVE RetryAt(c)'
  BY <1>18, <1>a, <1>k DEF CorrelateRequest, Goto, Ends, TypeOK, Retrying
<1>19. ASSUME NEW c \in Call, Abort(c) PROVE RetryAt(c)'
  BY <1>19, <1>a, <1>k DEF Abort, Goto, Ends, TypeOK, Retrying
<1>20. ASSUME NEW c \in Call,
             Create(c) \/ Decide(c) \/ RetryExecution(c) \/ TouchDirectory(c) \/ Step(c) \/ Abort(c)
      PROVE  \A d \in Call : RetryAt(d)'
  <2>1. RetryAt(c)'
    BY <1>20, <1>1, <1>2, <1>3, <1>4, <1>5, <1>6, <1>7, <1>8, <1>9, <1>10, <1>11, <1>12, <1>13, <1>14, <1>15, <1>16, <1>17, <1>18, <1>19 DEF Step
  <2>2. ASSUME NEW d \in Call \ {c} PROVE RetryAt(d)'
    BY <1>20, <1>a, <1>k, OthersStay
  <2> QED
    BY <2>1, <2>2
<1>21. ASSUME Crash PROVE \A d \in Call : RetryAt(d)'
  <2>1. \A d \in Call : pc'[d] \in Retrying => pc[d] \in Retrying /\ job'[d] = job[d]
    BY <1>21 DEF Crash, Retrying
  <2> QED
    BY <1>k, <2>1
<1>22. ASSUME UNCHANGED vars PROVE \A d \in Call : RetryAt(d)'
  BY <1>22, <1>k DEF vars
<1> QED
  BY <1>20, <1>21, <1>22 DEF Next

\* Only AuditRetry writes such a row.
LEMMA RetryRowsNext ==
  ASSUME RetryInv, [Next]_vars
  PROVE  RetryFollowsAnAttempt'
<1>a. TypeOK /\ RetryFollowsAnAttempt /\ audit \subseteq audit' /\ \A c \in Call : RetryAt(c)
  BY TrailGrows DEF RetryInv, TrailInv, TypeInv
<1>q. ASSUME \A row \in audit' \ audit : row.event # "execution_retry_requested"
      PROVE  RetryFollowsAnAttempt'
  BY <1>a, <1>q DEF RetryFollowsAnAttempt
<1>1. ASSUME NEW c \in Call, AuditRetry(c) PROVE RetryFollowsAnAttempt'
  <2>1. /\ job[c].actor \in Administrator
        /\ \E d \in Call \ {c} : StartAudited(d, On(c))
    BY <1>1, <1>a DEF AuditRetry, RetryAt, Retrying
  <2>2. audit' = audit \cup {[event |-> "execution_retry_requested", request |-> On(c),
                              actor |-> job[c].actor, call |-> c]}
    BY <1>1 DEF AuditRetry, Write
  <2> QED
    BY <1>a, <2>1, <2>2 DEF RetryFollowsAnAttempt, StartAudited
<1>2. (\E c \in Call : AuditRetry(c)) \/ \A row \in audit' \ audit : row.event # "execution_retry_requested"
  <2>1. ASSUME NEW c \in Call,
               Create(c) \/ Decide(c) \/ RetryExecution(c) \/ TouchDirectory(c) \/ Step(c) \/ Abort(c)
        PROVE  AuditRetry(c) \/ \A row \in audit' \ audit : row.event # "execution_retry_requested"
    BY <2>1 DEF Step, rowVars, Create, Decide, RetryExecution, TouchDirectory, AuditSubmitted,
         PersistApprovalDecision, AuditDecision, LoadExecution, LoadApproval, LoadRequest,
         MarkExecutionStarted, AuditExecutionStarted, DirectoryReturns, MarkExecutionFinished,
         FinishConflicts, AuditExecutionFinished, CorrelateRequest, Abort, Write
  <2> QED
    BY <2>1 DEF Next, Crash, vars
<1> QED
  BY <1>q, <1>1, <1>2

LEMMA RetryNext == RetryInv /\ [Next]_vars => RetryInv'
  BY TrailNext, RowsOfArrivedNext, AttemptedRowsNext, RetryAtNext, RetryRowsNext DEF RetryInv

(* A retry in the trail is an administrator's and follows an attempt that   *)
(* another call is on record to have started.                               *)
THEOREM RetriesFollow == Spec => []RetryFollowsAnAttempt
<1>1. RetryInv => RetryFollowsAnAttempt
  BY DEF RetryInv
<1> QED
  BY <1>1, RetryInit, RetryNext, PTL DEF Spec

----------------------------------------------------------------------------
(* Work: a row that shows 'executing' belongs to the call that stored it    *)
(* last, whose finished_at cannot be refused.                               *)

AtWork == {"auditStarted", "directory", "markFinished", "aborted"}

Worked(r) ==
  execution[r] = "executing" =>
    \E c \in Call : On(c) = r /\ c \notin startedAfter[r] /\ pc[c] \in AtWork

WorkInv ==
  /\ TypeInv
  /\ \A c \in Call : pc[c] = "markStarted" => c \notin job[c].earlier
  /\ \A r \in Request : Worked(r)

LEMMA WorkInit == Init => WorkInv
  BY TypeInvInit DEF Init, WorkInv, Worked

\* A call that is about to store its start is not among those that it may refuse.
LEMMA EarlierNext ==
  ASSUME WorkInv, [Next]_vars
  PROVE  \A c \in Call : pc'[c] = "markStarted" => c \notin job'[c].earlier
<1> DEFINE Apart(c) == pc[c] = "markStarted" => c \notin job[c].earlier
<1>a. TypeInv /\ TypeOK /\ \A c \in Call : Apart(c)
  BY DEF WorkInv, TypeInv
<1>1. ASSUME NEW c \in Call, Create(c) PROVE Apart(c)'
  BY <1>1, <1>a DEF Create, Goto, Ends, TypeOK, Awaiting
<1>2. ASSUME NEW c \in Call, Decide(c) PROVE Apart(c)'
  BY <1>2, <1>a DEF Decide, Goto, Ends, TypeOK, Awaiting
<1>3. ASSUME NEW c \in Call, RetryExecution(c) PROVE Apart(c)'
  BY <1>3, <1>a DEF RetryExecution, Goto, Ends, TypeOK, Awaiting
<1>4. ASSUME NEW c \in Call, TouchDirectory(c) PROVE Apart(c)'
  BY <1>4, <1>a DEF TouchDirectory, Goto, Ends, TypeOK, Awaiting
<1>5. ASSUME NEW c \in Call, AuditSubmitted(c) PROVE Apart(c)'
  BY <1>5, <1>a DEF AuditSubmitted, Goto, Ends, TypeOK, Awaiting
<1>6. ASSUME NEW c \in Call, PersistApprovalDecision(c) PROVE Apart(c)'
  BY <1>6, <1>a DEF PersistApprovalDecision, Goto, Ends, TypeOK, Awaiting
<1>7. ASSUME NEW c \in Call, AuditDecision(c) PROVE Apart(c)'
  BY <1>7, <1>a DEF AuditDecision, Goto, Ends, TypeOK, Awaiting
<1>8. ASSUME NEW c \in Call, LoadExecution(c) PROVE Apart(c)'
  BY <1>8, <1>a DEF LoadExecution, Goto, Ends, TypeOK, Awaiting
<1>9. ASSUME NEW c \in Call, LoadApproval(c) PROVE Apart(c)'
  BY <1>9, <1>a DEF LoadApproval, Goto, Ends, TypeOK, Awaiting
<1>10. ASSUME NEW c \in Call, AuditRetry(c) PROVE Apart(c)'
  BY <1>10, <1>a DEF AuditRetry, Goto, Ends, TypeOK, Awaiting
<1>11. ASSUME NEW c \in Call, LoadRequest(c) PROVE Apart(c)'
  BY <1>11, <1>a DEF LoadRequest, Goto, Ends, TypeOK, Awaiting, Job, Earlier
<1>12. ASSUME NEW c \in Call, MarkExecutionStarted(c) PROVE Apart(c)'
  BY <1>12, <1>a DEF MarkExecutionStarted, Goto, Ends, TypeOK, Awaiting
<1>13. ASSUME NEW c \in Call, AuditExecutionStarted(c) PROVE Apart(c)'
  BY <1>13, <1>a DEF AuditExecutionStarted, Goto, Ends, TypeOK, Awaiting
<1>14. ASSUME NEW c \in Call, DirectoryReturns(c) PROVE Apart(c)'
  BY <1>14, <1>a DEF DirectoryReturns, Goto, Ends, TypeOK, Awaiting
<1>15. ASSUME NEW c \in Call, MarkExecutionFinished(c) PROVE Apart(c)'
  BY <1>15, <1>a DEF MarkExecutionFinished, Goto, Ends, TypeOK, Awaiting
<1>16. ASSUME NEW c \in Call, FinishConflicts(c) PROVE Apart(c)'
  BY <1>16, <1>a DEF FinishConflicts, Goto, Ends, TypeOK, Awaiting
<1>17. ASSUME NEW c \in Call, AuditExecutionFinished(c) PROVE Apart(c)'
  BY <1>17, <1>a DEF AuditExecutionFinished, Goto, Ends, TypeOK, Awaiting
<1>18. ASSUME NEW c \in Call, CorrelateRequest(c) PROVE Apart(c)'
  BY <1>18, <1>a DEF CorrelateRequest, Goto, Ends, TypeOK, Awaiting
<1>19. ASSUME NEW c \in Call, Abort(c) PROVE Apart(c)'
  BY <1>19, <1>a DEF Abort, Goto, Ends, TypeOK, Awaiting
<1>20. ASSUME NEW c \in Call,
             Create(c) \/ Decide(c) \/ RetryExecution(c) \/ TouchDirectory(c) \/ Step(c) \/ Abort(c)
      PROVE  \A d \in Call : Apart(d)'
  <2>1. Apart(c)'
    BY <1>20, <1>1, <1>2, <1>3, <1>4, <1>5, <1>6, <1>7, <1>8, <1>9, <1>10, <1>11, <1>12, <1>13, <1>14, <1>15, <1>16, <1>17, <1>18, <1>19 DEF Step
  <2>2. ASSUME NEW d \in Call \ {c} PROVE Apart(d)'
    BY <1>20, <1>a, OthersStay
  <2> QED
    BY <2>1, <2>2
<1>21. ASSUME Crash PROVE \A d \in Call : Apart(d)'
  BY <1>21, <1>a DEF Crash
<1>22. ASSUME UNCHANGED vars PROVE \A d \in Call : Apart(d)'
  BY <1>22, <1>a DEF vars
<1> QED
  BY <1>20, <1>21, <1>22 DEF Next

\* Work goes from call to call until a result is stored or a fault ends it.
LEMMA WorkedNext ==
  ASSUME WorkInv, [Next]_vars
  PROVE  \A r \in Request : Worked(r)'
<1> DEFINE Rows == \A r \in Request : Worked(r)
<1>a. TypeInv /\ TypeOK /\ LocalsSet /\ Rows /\ \A c \in Call : pc[c] = "markStarted" => c \notin job[c].earlier
  BY DEF WorkInv, TypeInv
\* A step that leaves the execution rows alone must leave their workers alone.
<1>k. ASSUME execution' = execution, startedAfter' = startedAfter,
             \A d \in Call : pc[d] \in AtWork => pc'[d] \in AtWork /\ On(d)' = On(d)
      PROVE  Rows'
  BY <1>a, <1>k DEF Worked
<1>1. ASSUME NEW c \in Call, Create(c) PROVE Rows'
  <2>1. \A d \in Call : pc[d] \in AtWork => pc'[d] \in AtWork /\ On(d)' = On(d)
    BY <1>1, <1>a DEF Create, Arrives, Goto, Ends, Over, Handler, On, TypeOK, Job, AtWork, Awaiting
  <2> QED
    BY <1>1, <1>k, <2>1 DEF Create, rowVars
<1>2. ASSUME NEW c \in Call, Decide(c) PROVE Rows'
  <2>1. \A d \in Call : pc[d] \in AtWork => pc'[d] \in AtWork /\ On(d)' = On(d)
    BY <1>2, <1>a DEF Decide, Arrives, Goto, Ends, Over, Handler, On, TypeOK, Job, AtWork, Awaiting
  <2> QED
    BY <1>2, <1>k, <2>1 DEF Decide, rowVars
<1>3. ASSUME NEW c \in Call, RetryExecution(c) PROVE Rows'
  <2>1. \A d \in Call : pc[d] \in AtWork => pc'[d] \in AtWork /\ On(d)' = On(d)
    BY <1>3, <1>a DEF RetryExecution, Arrives, Goto, Ends, Over, Handler, On, TypeOK, Job, AtWork, Awaiting
  <2> QED
    BY <1>3, <1>k, <2>1 DEF RetryExecution, rowVars
<1>4. ASSUME NEW c \in Call, TouchDirectory(c) PROVE Rows'
  <2>1. \A d \in Call : pc[d] \in AtWork => pc'[d] \in AtWork /\ On(d)' = On(d)
    BY <1>4, <1>a DEF TouchDirectory, Arrives, Goto, Ends, Over, Handler, On, TypeOK, Job, AtWork, Awaiting
  <2> QED
    BY <1>4, <1>k, <2>1 DEF TouchDirectory, rowVars
<1>5. ASSUME NEW c \in Call, AuditSubmitted(c) PROVE Rows'
  <2>1. \A d \in Call : pc[d] \in AtWork => pc'[d] \in AtWork /\ On(d)' = On(d)
    BY <1>5, <1>a DEF AuditSubmitted, Arrives, Goto, Ends, Over, Handler, On, TypeOK, Job, AtWork, Awaiting
  <2> QED
    BY <1>5, <1>k, <2>1 DEF AuditSubmitted, rowVars
<1>6. ASSUME NEW c \in Call, PersistApprovalDecision(c) PROVE Rows'
  <2>1. \A d \in Call : pc[d] \in AtWork => pc'[d] \in AtWork /\ On(d)' = On(d)
    BY <1>6, <1>a DEF PersistApprovalDecision, Arrives, Goto, Ends, Over, Handler, On, TypeOK, Job, AtWork, Awaiting
  <2> QED
    BY <1>6, <1>k, <2>1 DEF PersistApprovalDecision, rowVars
<1>7. ASSUME NEW c \in Call, AuditDecision(c) PROVE Rows'
  <2>1. \A d \in Call : pc[d] \in AtWork => pc'[d] \in AtWork /\ On(d)' = On(d)
    BY <1>7, <1>a DEF AuditDecision, Arrives, Goto, Ends, Over, Handler, On, TypeOK, Job, AtWork, Awaiting
  <2> QED
    BY <1>7, <1>k, <2>1 DEF AuditDecision, rowVars
<1>8. ASSUME NEW c \in Call, LoadExecution(c) PROVE Rows'
  <2>1. \A d \in Call : pc[d] \in AtWork => pc'[d] \in AtWork /\ On(d)' = On(d)
    BY <1>8, <1>a DEF LoadExecution, Arrives, Goto, Ends, Over, Handler, On, TypeOK, Job, AtWork, Awaiting
  <2> QED
    BY <1>8, <1>k, <2>1 DEF LoadExecution, rowVars
<1>9. ASSUME NEW c \in Call, LoadApproval(c) PROVE Rows'
  <2>1. \A d \in Call : pc[d] \in AtWork => pc'[d] \in AtWork /\ On(d)' = On(d)
    BY <1>9, <1>a DEF LoadApproval, Arrives, Goto, Ends, Over, Handler, On, TypeOK, Job, AtWork, Awaiting
  <2> QED
    BY <1>9, <1>k, <2>1 DEF LoadApproval, rowVars
<1>10. ASSUME NEW c \in Call, AuditRetry(c) PROVE Rows'
  <2>1. \A d \in Call : pc[d] \in AtWork => pc'[d] \in AtWork /\ On(d)' = On(d)
    BY <1>10, <1>a DEF AuditRetry, Arrives, Goto, Ends, Over, Handler, On, TypeOK, Job, AtWork, Awaiting
  <2> QED
    BY <1>10, <1>k, <2>1 DEF AuditRetry, rowVars
<1>11. ASSUME NEW c \in Call, LoadRequest(c) PROVE Rows'
  <2>1. \A d \in Call : pc[d] \in AtWork => pc'[d] \in AtWork /\ On(d)' = On(d)
    BY <1>11, <1>a DEF LoadRequest, Arrives, Goto, Ends, Over, Handler, On, TypeOK, Job, AtWork, Awaiting
  <2> QED
    BY <1>11, <1>k, <2>1 DEF LoadRequest, rowVars
<1>12. ASSUME NEW c \in Call, MarkExecutionStarted(c) PROVE Rows'
  <2>1. PICK r \in Request : On(c) = r /\ On(c)' = r /\ c \notin job[c].earlier
    BY <1>12, <1>a DEF MarkExecutionStarted, TypeOK, Job, On
  <2>2. /\ startedAfter'[r] = job[c].earlier /\ pc'[c] = "auditStarted"
        /\ \A q \in Request \ {r} : execution'[q] = execution[q] /\ startedAfter'[q] = startedAfter[q]
        /\ \A d \in Call : On(d)' = On(d) /\ (pc[d] \in AtWork => pc'[d] \in AtWork)
    BY <1>12, <1>a, <2>1 DEF MarkExecutionStarted, Goto, TypeOK, On, AtWork
  <2> QED
    BY <1>a, <2>1, <2>2 DEF Worked, AtWork
<1>13. ASSUME NEW c \in Call, AuditExecutionStarted(c) PROVE Rows'
  <2>1. \A d \in Call : pc[d] \in AtWork => pc'[d] \in AtWork /\ On(d)' = On(d)
    BY <1>13, <1>a DEF AuditExecutionStarted, Arrives, Goto, Ends, Over, Handler, On, TypeOK, Job, AtWork, Awaiting
  <2> QED
    BY <1>13, <1>k, <2>1 DEF AuditExecutionStarted, rowVars
<1>14. ASSUME NEW c \in Call, DirectoryReturns(c) PROVE Rows'
  <2>1. \A d \in Call : pc[d] \in AtWork => pc'[d] \in AtWork /\ On(d)' = On(d)
    BY <1>14, <1>a DEF DirectoryReturns, Arrives, Goto, Ends, Over, Handler, On, TypeOK, Job, AtWork, Awaiting
  <2> QED
    BY <1>14, <1>k, <2>1 DEF DirectoryReturns, rowVars
<1>15. ASSUME NEW c \in Call, MarkExecutionFinished(c) PROVE Rows'
  <2>1. PICK r \in Request : On(c) = r
    BY <1>15, <1>a DEF MarkExecutionFinished, TypeOK, Job, On
  <2>2. /\ execution'[r] # "executing" /\ startedAfter' = startedAfter
        /\ \A q \in Request \ {r} : execution'[q] = execution[q]
        /\ \A d \in Call \ {c} : pc'[d] = pc[d]
        /\ \A d \in Call : On(d)' = On(d)
    BY <1>15, <1>a, <2>1 DEF MarkExecutionFinished, Goto, TypeOK, On, LocalsSet
  <2> QED
    BY <1>a, <2>1, <2>2 DEF Worked
<1>16. ASSUME NEW c \in Call, FinishConflicts(c) PROVE Rows'
  <2>1. c \in startedAfter[On(c)] /\ execution' = execution /\ startedAfter' = startedAfter
    BY <1>16 DEF FinishConflicts, rowVars
  <2>2. \A d \in Call \ {c} : pc'[d] = pc[d] /\ On(d)' = On(d)
    BY <1>16, <1>a DEF FinishConflicts, Ends, TypeOK, On
  <2> QED
    BY <1>a, <2>1, <2>2 DEF Worked
<1>17. ASSUME NEW c \in Call, AuditExecutionFinished(c) PROVE Rows'
  <2>1. \A d \in Call : pc[d] \in AtWork => pc'[d] \in AtWork /\ On(d)' = On(d)
    BY <1>17, <1>a DEF AuditExecutionFinished, Arrives, Goto, Ends, Over, Handler, On, TypeOK, Job, AtWork, Awaiting
  <2> QED
    BY <1>17, <1>k, <2>1 DEF AuditExecutionFinished, rowVars
<1>18. ASSUME NEW c \in Call, CorrelateRequest(c) PROVE Rows'
  <2>1. \A d \in Call : pc[d] \in AtWork => pc'[d] \in AtWork /\ On(d)' = On(d)
    BY <1>18, <1>a DEF CorrelateRequest, Arrives, Goto, Ends, Over, Handler, On, TypeOK, Job, AtWork, Awaiting
  <2> QED
    BY <1>18, <1>k, <2>1 DEF CorrelateRequest, rowVars
<1>19. ASSUME NEW c \in Call, Abort(c) PROVE Rows'
  <2>1. \A d \in Call : pc[d] \in AtWork => pc'[d] \in AtWork /\ On(d)' = On(d)
    BY <1>19, <1>a DEF Abort, Arrives, Goto, Ends, Over, Handler, On, TypeOK, Job, AtWork, Awaiting
  <2> QED
    BY <1>19, <1>k, <2>1 DEF Abort, rowVars
<1>20. ASSUME Crash PROVE Rows'
  <2>1. \A d \in Call : pc[d] \in AtWork => pc'[d] \in AtWork /\ On(d)' = On(d)
    BY <1>20, <1>a DEF Crash, Over, Handler, On, AtWork
  <2> QED
    BY <1>20, <1>k, <2>1 DEF Crash, rowVars
<1>21. ASSUME UNCHANGED vars PROVE Rows'
  BY <1>21, <1>k DEF vars, rowVars, On
<1> QED
  BY <1>1, <1>2, <1>3, <1>4, <1>5, <1>6, <1>7, <1>8, <1>9, <1>10, <1>11, <1>12, <1>13, <1>14, <1>15, <1>16, <1>17, <1>18, <1>19, <1>20, <1>21 DEF Next, Step

LEMMA WorkNext == WorkInv /\ [Next]_vars => WorkInv'
  BY TypeInvNext, EarlierNext, WorkedNext DEF WorkInv

(* A request is left in 'executing' with nobody at work on it only where a  *)
(* call was ended by a crash or a thrown statement, however many retries    *)
(* overlap and whichever of them request_execution_time_chk refuses.        *)
THEOREM NothingElseGetsStuck == Spec => []StuckOnlyAfterFault
<1>1. WorkInv => StuckOnlyAfterFault
  BY DEF WorkInv, Worked, AtWork, StuckOnlyAfterFault, Active, Awaiting
<1> QED
  BY <1>1, WorkInit, WorkNext, PTL DEF Spec

=============================================================================
