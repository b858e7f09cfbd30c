------------------------- MODULE SerialWorkflowProofs -------------------------
(* Proofs about RequestWorkflow where callers wait for the answer to one    *)
(* call on a request before they send the next: no two handlers are at work *)
(* on one request, so what a handler has checked stays true until it ends,  *)
(* for every set of requests, users and calls and any number of faults.     *)
(* Where calls overlap, a decision may be overwritten, as TLC shows.        *)
EXTENDS RequestWorkflowProofs

Executing == {"auditStarted", "directory", "markFinished"}

\* What a handler may rely on where it is.
SerialAt(c) ==
  /\ pc[c] = "persistDecision" => decision[On(c)] = "none"
  /\ pc[c] = "auditDecision" =>
       /\ decision[On(c)] = job[c].verdict
       /\ job[c].verdict = "approved" => status[On(c)] = "approved"
  /\ pc[c] \in PastApproval => decision[On(c)] = "approved"
  /\ pc[c] \in Retrying => status[On(c)] = "failed"
  /\ pc[c] \in {"loadRequest", "markStarted"} => status[On(c)] \in {"approved", "failed"}
  /\ pc[c] \in Executing => status[On(c)] = "executing"
  /\ pc[c] # "conflicted"
  /\ pc[c] # "idle" => job[c].earlier = {}

SerialRow(r) ==
  /\ startedAfter[r] = {}
  /\ executedAt[r] <=> status[r] = "executed"
  /\ decision[r] # "approved" => execution[r] = "none" /\ touched[r] = {}

Alone == \A c, d \in Call : pc[c] \in Active /\ pc[d] \in Active /\ On(c) = On(d) => c = d

SerialInv ==
  /\ TablesInv
  /\ Alone
  /\ \A c \in Call : SerialAt(c)
  /\ \A r \in Request : SerialRow(r)

LEMMA SerialInit == Init => SerialInv
  BY TablesInit
     DEF Init, SerialInv, Alone, SerialAt, SerialRow, Active, Awaiting, PastApproval, Retrying, Executing

\* A step of a call is about one request, on which no other handler is at work,
\* and leaves the rows of the others alone.
LEMMA Local ==
  ASSUME ~Overlapping, SerialInv, NEW c \in Call,
         Create(c) \/ Decide(c) \/ RetryExecution(c) \/ TouchDirectory(c) \/ Step(c) \/ Abort(c)
  PROVE  /\ On(c)' \in Request
         /\ \A d \in Call \ {c} : pc[d] \in Active => On(d) # On(c)'
         /\ \A q \in Request : q # On(c)' =>
              /\ status'[q] = status[q] /\ decision'[q] = decision[q]
              /\ execution'[q] = execution[q] /\ executedAt'[q] = executedAt[q]
              /\ startedAfter'[q] = startedAfter[q] /\ touched'[q] = touched[q]
<1> DEFINE RowsStay == \A q \in Request : q # On(c)' =>
              /\ status'[q] = status[q] /\ decision'[q] = decision[q]
              /\ execution'[q] = execution[q] /\ executedAt'[q] = executedAt[q]
              /\ startedAfter'[q] = startedAfter[q] /\ touched'[q] = touched[q]
           Mine == On(c)' \in Request /\ \A d \in Call \ {c} : pc[d] \in Active => On(d) # On(c)'
<1>a. TypeOK /\ Alone
  BY DEF SerialInv, TablesInv, TrailInv, TypeInv
<1>m. ASSUME pc[c] \in Active, On(c)' = On(c) PROVE Mine
  BY <1>a, <1>m DEF Alone, TypeOK, Job, On, Active, Awaiting
<1>1. ASSUME Create(c) PROVE Mine /\ RowsStay
  <2>1. PICK r \in Request : On(c)' = r /\ (\A d \in Call : pc[d] \in Active => On(d) # r)
    BY <1>1, <1>a DEF Create, Arrives, Handler, On, TypeOK
  <2>2. RowsStay
    BY <1>1, <1>a, <2>1 DEF Create, Handler, On, TypeOK, rowVars
  <2> QED
    BY <2>1, <2>2
<1>2. ASSUME Decide(c) PROVE Mine /\ RowsStay
  <2>1. PICK r \in Request : On(c)' = r /\ (\A d \in Call : pc[d] \in Active => On(d) # r)
    BY <1>2, <1>a DEF Decide, Arrives, Handler, On, TypeOK
  <2>2. RowsStay
    BY <1>2, <1>a, <2>1 DEF Decide, Handler, On, TypeOK, rowVars
  <2> QED
    BY <2>1, <2>2
<1>3. ASSUME RetryExecution(c) PROVE Mine /\ RowsStay
  <2>1. PICK r \in Request : On(c)' = r /\ (\A d \in Call : pc[d] \in Active => On(d) # r)
    BY <1>3, <1>a DEF RetryExecution, Arrives, Handler, On, TypeOK
  <2>2. RowsStay
    BY <1>3, <1>a, <2>1 DEF RetryExecution, Handler, On, TypeOK, rowVars
  <2> QED
    BY <2>1, <2>2
<1>4. ASSUME TouchDirectory(c) PROVE Mine /\ RowsStay
  <2>1. pc[c] \in Active /\ On(c)' = On(c)
    BY <1>4, <1>a DEF TouchDirectory, Goto, Ends, Over, Handler, On, TypeOK, Job, Active, Awaiting
  <2>2. RowsStay
    BY <1>4, <1>a, <2>1 DEF TouchDirectory, TypeOK, rowVars
  <2> QED
    BY <1>m, <2>1, <2>2
<1>5. ASSUME AuditSubmitted(c) PROVE Mine /\ RowsStay
  <2>1. pc[c] \in Active /\ On(c)' = On(c)
    BY <1>5, <1>a DEF AuditSubmitted, Goto, Ends, Over, Handler, On, TypeOK, Job, Active, Awaiting
  <2>2. RowsStay
    BY <1>5, <1>a, <2>1 DEF AuditSubmitted, TypeOK, rowVars
  <2> QED
    BY <1>m, <2>1, <2>2
<1>6. ASSUME PersistApprovalDecision(c) PROVE Mine /\ RowsStay
  <2>1. pc[c] \in Active /\ On(c)' = On(c)
    BY <1>6, <1>a DEF PersistApprovalDecision, Goto, Ends, Over, Handler, On, TypeOK, Job, Active, Awaiting
  <2>2. RowsStay
    BY <1>6, <1>a, <2>1 DEF PersistApprovalDecision, TypeOK, rowVars
  <2> QED
    BY <1>m, <2>1, <2>2
<1>7. ASSUME AuditDecision(c) PROVE Mine /\ RowsStay
  <2>1. pc[c] \in Active /\ On(c)' = On(c)
    BY <1>7, <1>a DEF AuditDecision, Goto, Ends, Over, Handler, On, TypeOK, Job, Active, Awaiting
  <2>2. RowsStay
    BY <1>7, <1>a, <2>1 DEF AuditDecision, TypeOK, rowVars
  <2> QED
    BY <1>m, <2>1, <2>2
<1>8. ASSUME LoadExecution(c) PROVE Mine /\ RowsStay
  <2>1. pc[c] \in Active /\ On(c)' = On(c)
    BY <1>8, <1>a DEF LoadExecution, Goto, Ends, Over, Handler, On, TypeOK, Job, Active, Awaiting
  <2>2. RowsStay
    BY <1>8, <1>a, <2>1 DEF LoadExecution, TypeOK, rowVars
  <2> QED
    BY <1>m, <2>1, <2>2
<1>9. ASSUME LoadApproval(c) PROVE Mine /\ RowsStay
  <2>1. pc[c] \in Active /\ On(c)' = On(c)
    BY <1>9, <1>a DEF LoadApproval, Goto, Ends, Over, Handler, On, TypeOK, Job, Active, Awaiting
  <2>2. RowsStay
    BY <1>9, <1>a, <2>1 DEF LoadApproval, TypeOK, rowVars
  <2> QED
    BY <1>m, <2>1, <2>2
<1>10. ASSUME AuditRetry(c) PROVE Mine /\ RowsStay
  <2>1. pc[c] \in Active /\ On(c)' = On(c)
    BY <1>10, <1>a DEF AuditRetry, Goto, Ends, Over, Handler, On, TypeOK, Job, Active, Awaiting
  <2>2. RowsStay
    BY <1>10, <1>a, <2>1 DEF AuditRetry, TypeOK, rowVars
  <2> QED
    BY <1>m, <2>1, <2>2
<1>11. ASSUME LoadRequest(c) PROVE Mine /\ RowsStay
  <2>1. pc[c] \in Active /\ On(c)' = On(c)
    BY <1>11, <1>a DEF LoadRequest, Goto, Ends, Over, Handler, On, TypeOK, Job, Active, Awaiting
  <2>2. RowsStay
    BY <1>11, <1>a, <2>1 DEF LoadRequest, TypeOK, rowVars
  <2> QED
    BY <1>m, <2>1, <2>2
<1>12. ASSUME MarkExecutionStarted(c) PROVE Mine /\ RowsStay
  <2>1. pc[c] \in Active /\ On(c)' = On(c)
    BY <1>12, <1>a DEF MarkExecutionStarted, Goto, Ends, Over, Handler, On, TypeOK, Job, Active, Awaiting
  <2>2. RowsStay
    BY <1>12, <1>a, <2>1 DEF MarkExecutionStarted, TypeOK, rowVars
  <2> QED
    BY <1>m, <2>1, <2>2
<1>13. ASSUME AuditExecutionStarted(c) PROVE Mine /\ RowsStay
  <2>1. pc[c] \in Active /\ On(c)' = On(c)
    BY <1>13, <1>a DEF AuditExecutionStarted, Goto, Ends, Over, Handler, On, TypeOK, Job, Active, Awaiting
  <2>2. RowsStay
    BY <1>13, <1>a, <2>1 DEF AuditExecutionStarted, TypeOK, rowVars
  <2> QED
    BY <1>m, <2>1, <2>2
<1>14. ASSUME DirectoryReturns(c) PROVE Mine /\ RowsStay
  <2>1. pc[c] \in Active /\ On(c)' = On(c)
    BY <1>14, <1>a DEF DirectoryReturns, Goto, Ends, Over, Handler, On, TypeOK, Job, Active, Awaiting
  <2>2. RowsStay
    BY <1>14, <1>a, <2>1 DEF DirectoryReturns, TypeOK, rowVars
  <2> QED
    BY <1>m, <2>1, <2>2
<1>15. ASSUME MarkExecutionFinished(c) PROVE Mine /\ RowsStay
  <2>1. pc[c] \in Active /\ On(c)' = On(c)
    BY <1>15, <1>a DEF MarkExecutionFinished, Goto, Ends, Over, Handler, On, TypeOK, Job, Active, Awaiting
  <2>2. RowsStay
    BY <1>15, <1>a, <2>1 DEF MarkExecutionFinished, TypeOK, rowVars
  <2> QED
    BY <1>m, <2>1, <2>2
<1>16. ASSUME FinishConflicts(c) PROVE Mine /\ RowsStay
  <2>1. pc[c] \in Active /\ On(c)' = On(c)
    BY <1>16, <1>a DEF FinishConflicts, Goto, Ends, Over, Handler, On, TypeOK, Job, Active, Awaiting
  <2>2. RowsStay
    BY <1>16, <1>a, <2>1 DEF FinishConflicts, TypeOK, rowVars
  <2> QED
    BY <1>m, <2>1, <2>2
<1>17. ASSUME AuditExecutionFinished(c) PROVE Mine /\ RowsStay
  <2>1. pc[c] \in Active /\ On(c)' = On(c)
    BY <1>17, <1>a DEF AuditExecutionFinished, Goto, Ends, Over, Handler, On, TypeOK, Job, Active, Awaiting
  <2>2. RowsStay
    BY <1>17, <1>a, <2>1 DEF AuditExecutionFinished, TypeOK, rowVars
  <2> QED
    BY <1>m, <2>1, <2>2
<1>18. ASSUME CorrelateRequest(c) PROVE Mine /\ RowsStay
  <2>1. pc[c] \in Active /\ On(c)' = On(c)
    BY <1>18, <1>a DEF CorrelateRequest, Goto, Ends, Over, Handler, On, TypeOK, Job, Active, Awaiting
  <2>2. RowsStay
    BY <1>18, <1>a, <2>1 DEF CorrelateRequest, TypeOK, rowVars
  <2> QED
    BY <1>m, <2>1, <2>2
<1>19. ASSUME Abort(c) PROVE Mine /\ RowsStay
  <2>1. pc[c] \in Active /\ On(c)' = On(c)
    BY <1>19, <1>a DEF Abort, Goto, Ends, Over, Handler, On, TypeOK, Job, Active, Awaiting
  <2>2. RowsStay
    BY <1>19, <1>a, <2>1 DEF Abort, TypeOK, rowVars
  <2> QED
    BY <1>m, <2>1, <2>2
<1> QED
  BY <1>1, <1>2, <1>3, <1>4, <1>5, <1>6, <1>7, <1>8, <1>9, <1>10, <1>11, <1>12, <1>13, <1>14, <1>15, <1>16, <1>17, <1>18, <1>19 DEF Step

\* The other handlers keep what they rely on.
LEMMA OthersKeepPlace ==
  ASSUME ~Overlapping, SerialInv, NEW c \in Call,
         Create(c) \/ Decide(c) \/ RetryExecution(c) \/ TouchDirectory(c) \/ Step(c) \/ Abort(c),
         NEW d \in Call \ {c}
  PROVE  SerialAt(d)'
<1>1. TypeInv /\ TypeOK /\ SerialAt(d)
  BY DEF SerialInv, TablesInv, TrailInv, TypeInv
<1>2. pc'[d] = pc[d] /\ job'[d] = job[d] /\ On(d)' = On(d)
  BY <1>1, OthersStay DEF On
<1>3. CASE pc[d] \in Active
  <2>1. On(d) \in Request
    BY <1>1, <1>3 DEF TypeOK, Job, On, Active, Awaiting
  <2>2. status'[On(d)] = status[On(d)] /\ decision'[On(d)] = decision[On(d)]
    BY <1>3, <2>1, Local
  <2> QED
    BY <1>1, <1>2, <2>2 DEF SerialAt
<1>4. CASE pc[d] \notin Active
  BY <1>1, <1>2, <1>4 DEF SerialAt, Active, Awaiting, PastApproval, Retrying, Executing
<1> QED
  BY <1>3, <1>4

\* The handler that takes the step may rely on what it has just done.
LEMMA OwnPlace ==
  ASSUME ~Overlapping, SerialInv, NEW c \in Call,
         Create(c) \/ Decide(c) \/ RetryExecution(c) \/ TouchDirectory(c) \/ Step(c) \/ Abort(c)
  PROVE  SerialAt(c)'
<1>a. TypeInv /\ TypeOK /\ LocalsSet /\ Alone /\ SerialAt(c) /\ RowTrail /\ Decided
  BY DEF SerialInv, TablesInv, TrailInv, TypeInv
<1>b. \A r \in Request : RowsAgree(r) /\ SerialRow(r)
  BY DEF SerialInv, TablesInv
<1>c. pc[c] # "idle" => job[c] \in Job /\ On(c) \in Request
  BY <1>a DEF TypeOK, Job, On
<1> USE DEF SerialAt, PastApproval, Retrying, Executing
<1>1. ASSUME Create(c) PROVE SerialAt(c)'
  BY <1>1, <1>a, <1>b, <1>c DEF Create, Arrives, Goto, Ends, Over, Handler, On, TypeOK, Job, rowVars
<1>2. ASSUME Decide(c) PROVE SerialAt(c)'
  BY <1>2, <1>a, <1>b, <1>c DEF Decide, Arrives, Goto, Ends, Over, Handler, On, TypeOK, Job, rowVars
<1>3. ASSUME RetryExecution(c) PROVE SerialAt(c)'
  <2>1. PICK r \in Request : status[r] = "failed" /\ On(c)' = r
    BY <1>3, <1>a DEF RetryExecution, Handler, On, TypeOK
  <2>2. decision[r] = "approved"
    BY <1>a, <1>b, <2>1 DEF RowsAgree, SerialRow, TypeOK, Decision
  <2>3. status'[r] = "failed" /\ decision'[r] = "approved" /\ pc'[c] = "loadExecution" /\ job'[c].earlier = {}
    BY <1>3, <1>a, <2>1, <2>2 DEF RetryExecution, Goto, Handler, TypeOK, rowVars
  <2> QED
    BY <2>1, <2>3
<1>4. ASSUME TouchDirectory(c) PROVE SerialAt(c)'
  BY <1>4, <1>a, <1>b, <1>c DEF TouchDirectory, Arrives, Goto, Ends, Over, Handler, On, TypeOK, Job, rowVars
<1>5. ASSUME AuditSubmitted(c) PROVE SerialAt(c)'
  BY <1>5, <1>a, <1>b, <1>c DEF AuditSubmitted, Arrives, Goto, Ends, Over, Handler, On, TypeOK, Job, rowVars
<1>6. ASSUME PersistApprovalDecision(c) PROVE SerialAt(c)'
  BY <1>6, <1>a, <1>b, <1>c DEF PersistApprovalDecision, Arrives, Goto, Ends, Over, Handler, On, TypeOK, Job, rowVars, LocalsSet
<1>7. ASSUME AuditDecision(c) PROVE SerialAt(c)'
  BY <1>7, <1>a, <1>b, <1>c DEF AuditDecision, Arrives, Goto, Ends, Over, Handler, On, TypeOK, Job, rowVars, LocalsSet
<1>8. ASSUME LoadExecution(c) PROVE SerialAt(c)'
  BY <1>8, <1>a, <1>b, <1>c DEF LoadExecution, Arrives, Goto, Ends, Over, Handler, On, TypeOK, Job, rowVars
<1>9. ASSUME LoadApproval(c) PROVE SerialAt(c)'
  BY <1>9, <1>a, <1>b, <1>c DEF LoadApproval, Arrives, Goto, Ends, Over, Handler, On, TypeOK, Job, rowVars
<1>10. ASSUME AuditRetry(c) PROVE SerialAt(c)'
  BY <1>10, <1>a, <1>b, <1>c DEF AuditRetry, Arrives, Goto, Ends, Over, Handler, On, TypeOK, Job, rowVars
<1>11. ASSUME LoadRequest(c) PROVE SerialAt(c)'
  <2>1. Earlier(On(c)) = {}
    BY <1>11, <1>a DEF LoadRequest, Earlier, Alone, Active, Awaiting
  <2>2. On(c)' = On(c) /\ job'[c].earlier = {} /\ pc'[c] = "markStarted" /\ UNCHANGED <<status, decision>>
    BY <1>11, <1>a, <1>c, <2>1 DEF LoadRequest, Goto, On, TypeOK, Job, rowVars
  <2> QED
    BY <1>11, <1>a, <2>2 DEF LoadRequest
<1>12. ASSUME MarkExecutionStarted(c) PROVE SerialAt(c)'
  BY <1>12, <1>a, <1>b, <1>c DEF MarkExecutionStarted, Arrives, Goto, Ends, Over, Handler, On, TypeOK, Job, rowVars
<1>13. ASSUME AuditExecutionStarted(c) PROVE SerialAt(c)'
  BY <1>13, <1>a, <1>b, <1>c DEF AuditExecutionStarted, Arrives, Goto, Ends, Over, Handler, On, TypeOK, Job, rowVars
<1>14. ASSUME DirectoryReturns(c) PROVE SerialAt(c)'
  BY <1>14, <1>a, <1>b, <1>c DEF DirectoryReturns, Arrives, Goto, Ends, Over, Handler, On, TypeOK, Job, rowVars
<1>15. ASSUME MarkExecutionFinished(c) PROVE SerialAt(c)'
  BY <1>15, <1>a, <1>b, <1>c DEF MarkExecutionFinished, Arrives, Goto, Ends, Over, Handler, On, TypeOK, Job, rowVars
<1>16. ASSUME FinishConflicts(c) PROVE SerialAt(c)'
  BY <1>16, <1>b, <1>c DEF FinishConflicts, SerialRow
<1>17. ASSUME AuditExecutionFinished(c) PROVE SerialAt(c)'
  BY <1>17, <1>a, <1>b, <1>c DEF AuditExecutionFinished, Arrives, Goto, Ends, Over, Handler, On, TypeOK, Job, rowVars
<1>18. ASSUME CorrelateRequest(c) PROVE SerialAt(c)'
  BY <1>18, <1>a, <1>b, <1>c DEF CorrelateRequest, Arrives, Goto, Ends, Over, Handler, On, TypeOK, Job, rowVars
<1>19. ASSUME Abort(c) PROVE SerialAt(c)'
  BY <1>19, <1>a, <1>b, <1>c DEF Abort, Arrives, Goto, Ends, Over, Handler, On, TypeOK, Job, rowVars, Awaiting
<1> QED
  BY <1>1, <1>2, <1>3, <1>4, <1>5, <1>6, <1>7, <1>8, <1>9, <1>10, <1>11, <1>12, <1>13, <1>14, <1>15, <1>16, <1>17, <1>18, <1>19 DEF Step

\* The rows of the request that a step is about.
LEMMA OwnRow ==
  ASSUME ~Overlapping, SerialInv, NEW c \in Call,
         Create(c) \/ Decide(c) \/ RetryExecution(c) \/ TouchDirectory(c) \/ Step(c) \/ Abort(c),
         NEW r \in Request, r = On(c)'
  PROVE  SerialRow(r)'
<1>a. TypeInv /\ TypeOK /\ LocalsSet /\ SerialAt(c) /\ \A q \in Request : RowsAgree(q) /\ SerialRow(q)
  BY DEF SerialInv, TablesInv, TrailInv, TypeInv
<1>q. ASSUME UNCHANGED rowVars, touched' = touched PROVE SerialRow(r)'
  BY <1>a, <1>q DEF SerialRow, rowVars
<1>1. ASSUME Create(c) PROVE SerialRow(r)'
  BY <1>1, <1>a DEF Create, On, TypeOK, SerialRow, Arrives, Handler, RowsAgree
<1>2. ASSUME Decide(c) PROVE SerialRow(r)'
  BY <1>2, <1>q DEF Decide
<1>3. ASSUME RetryExecution(c) PROVE SerialRow(r)'
  BY <1>3, <1>q DEF RetryExecution
<1>4. ASSUME TouchDirectory(c) PROVE SerialRow(r)'
  BY <1>4, <1>a DEF TouchDirectory, On, TypeOK, SerialRow, LocalsSet, RowsAgree, SerialAt, PastApproval, Executing, Job, rowVars
<1>5. ASSUME AuditSubmitted(c) PROVE SerialRow(r)'
  BY <1>5, <1>q DEF AuditSubmitted
<1>6. ASSUME PersistApprovalDecision(c) PROVE SerialRow(r)'
  BY <1>6, <1>a DEF PersistApprovalDecision, On, TypeOK, SerialRow, LocalsSet, RowsAgree, SerialAt, PastApproval, Executing, Job, rowVars
<1>7. ASSUME AuditDecision(c) PROVE SerialRow(r)'
  BY <1>7, <1>q DEF AuditDecision
<1>8. ASSUME LoadExecution(c) PROVE SerialRow(r)'
  BY <1>8, <1>q DEF LoadExecution
<1>9. ASSUME LoadApproval(c) PROVE SerialRow(r)'
  BY <1>9, <1>q DEF LoadApproval
<1>10. ASSUME AuditRetry(c) PROVE SerialRow(r)'
  BY <1>10, <1>q DEF AuditRetry
<1>11. ASSUME LoadRequest(c) PROVE SerialRow(r)'
  BY <1>11, <1>q DEF LoadRequest
<1>12. ASSUME MarkExecutionStarted(c) PROVE SerialRow(r)'
  BY <1>12, <1>a DEF MarkExecutionStarted, On, TypeOK, SerialRow, LocalsSet, RowsAgree, SerialAt, PastApproval, Executing, Job, rowVars
<1>13. ASSUME AuditExecutionStarted(c) PROVE SerialRow(r)'
  BY <1>13, <1>q DEF AuditExecutionStarted
<1>14. ASSUME DirectoryReturns(c) PROVE SerialRow(r)'
  BY <1>14, <1>q DEF DirectoryReturns
<1>15. ASSUME MarkExecutionFinished(c) PROVE SerialRow(r)'
  BY <1>15, <1>a DEF MarkExecutionFinished, On, TypeOK, SerialRow, LocalsSet, RowsAgree, SerialAt, PastApproval, Executing, Job, rowVars
<1>16. ASSUME FinishConflicts(c) PROVE SerialRow(r)'
  BY <1>16, <1>q DEF FinishConflicts
<1>17. ASSUME AuditExecutionFinished(c) PROVE SerialRow(r)'
  BY <1>17, <1>q DEF AuditExecutionFinished
<1>18. ASSUME CorrelateRequest(c) PROVE SerialRow(r)'
  BY <1>18, <1>q DEF CorrelateRequest
<1>19. ASSUME Abort(c) PROVE SerialRow(r)'
  BY <1>19, <1>q DEF Abort
<1> QED
  BY <1>1, <1>2, <1>3, <1>4, <1>5, <1>6, <1>7, <1>8, <1>9, <1>10, <1>11, <1>12, <1>13, <1>14, <1>15, <1>16, <1>17, <1>18, <1>19 DEF Step

LEMMA SerialNext ==
  ASSUME ~Overlapping, SerialInv, [Next]_vars
  PROVE  SerialInv'
<1>a. TypeInv /\ TypeOK /\ Alone /\ (\A c \in Call : SerialAt(c)) /\ (\A r \in Request : SerialRow(r))
  BY DEF SerialInv, TablesInv, TrailInv, TypeInv
<1>t. TablesInv'
  BY TablesNext DEF SerialInv
<1>1. ASSUME NEW c \in Call,
             Create(c) \/ Decide(c) \/ RetryExecution(c) \/ TouchDirectory(c) \/ Step(c) \/ Abort(c)
      PROVE  SerialInv'
  <2>1. \A d \in Call : SerialAt(d)'
    BY <1>1, OwnPlace, OthersKeepPlace
  <2>2. \A r \in Request : SerialRow(r)'
    <3>1. ASSUME NEW r \in Request, r # On(c)' PROVE SerialRow(r)'
      BY <1>1, <1>a, <3>1, Local DEF SerialRow
    <3>2. ASSUME NEW r \in Request, r = On(c)' PROVE SerialRow(r)'
      BY <1>1, <3>2, OwnRow
    <3> QED
      BY <3>1, <3>2
  <2>3. Alone'
    <3>1. \A d \in Call \ {c} : pc'[d] = pc[d] /\ On(d)' = On(d) /\ (pc[d] \in Active => On(d) # On(c)')
      BY <1>1, <1>a, OthersStay, Local DEF On
    <3> QED
      BY <1>a, <3>1 DEF Alone
  <2> QED
    BY <1>t, <2>1, <2>2, <2>3 DEF SerialInv
<1>2. ASSUME Crash PROVE SerialInv'
  <2>1. ASSUME NEW c \in Call
        PROVE  pc'[c] \notin Active /\ pc'[c] # "conflicted" /\ (pc'[c] # "idle" => job'[c].earlier = {})
    BY <1>2, <1>a, <2>1 DEF Crash, SerialAt, Over, Handler, TypeOK, PC, Active, Awaiting
  <2>2. (\A c \in Call : SerialAt(c)') /\ Alone'
    BY <2>1 DEF SerialAt, Alone, Active, Awaiting, PastApproval, Retrying, Executing
  <2>3. \A r \in Request : SerialRow(r)'
    BY <1>2, <1>a DEF Crash, SerialRow, rowVars
  <2> QED
    BY <1>t, <2>2, <2>3 DEF SerialInv
<1>3. ASSUME UNCHANGED vars PROVE SerialInv'
  <2>1. (\A c \in Call : SerialAt(c)') /\ Alone'
    BY <1>3, <1>a DEF vars, rowVars, SerialAt, Alone, On
  <2>2. \A r \in Request : SerialRow(r)'
    BY <1>3, <1>a DEF vars, rowVars, SerialRow
  <2> QED
    BY <1>t, <2>1, <2>2 DEF SerialInv
<1> QED
  BY <1>1, <1>2, <1>3 DEF Next

----------------------------------------------------------------------------
(* The theorems.                                                            *)

(* The dates of a request tell its story: executed_at is set exactly on the *)
(* executed requests, a rejected one was never begun nor touched, and no    *)
(* handler is refused its finished_at.                                      *)
THEOREM DatesAlwaysTellTheStory ==
  ASSUME ~Overlapping
  PROVE  Spec => []DatesTellTheStory
<1>1. SerialInv => DatesTellTheStory
  BY DEF SerialInv, SerialAt, SerialRow, DatesTellTheStory
<1>2. SerialInv /\ [Next]_vars => SerialInv'
  BY SerialNext
<1> QED
  BY <1>1, <1>2, SerialInit, PTL DEF Spec

\* Only a handler that found no decision stores one, and there is none yet.
LEMMA DecisionStays ==
  ASSUME ~Overlapping, SerialInv, [Next]_vars
  PROVE  \A r \in Request : decision[r] # "none" => decision'[r] = decision[r]
<1>a. TypeOK /\ \A c \in Call : SerialAt(c)
  BY DEF SerialInv, TablesInv, TrailInv, TypeInv
<1>1. ASSUME NEW c \in Call, PersistApprovalDecision(c)
      PROVE  \A r \in Request : decision[r] # "none" => decision'[r] = decision[r]
  BY <1>1, <1>a DEF PersistApprovalDecision, SerialAt, TypeOK
<1>2. (\E c \in Call : PersistApprovalDecision(c)) \/ decision' = decision
  <2>1. ASSUME NEW c \in Call,
               Create(c) \/ Decide(c) \/ RetryExecution(c) \/ TouchDirectory(c) \/ Step(c) \/ Abort(c)
        PROVE  PersistApprovalDecision(c) \/ decision' = decision
    BY <2>1 DEF Step, rowVars, Create, Decide, RetryExecution, TouchDirectory, AuditSubmitted, AuditDecision,
         LoadExecution, LoadApproval, AuditRetry, LoadRequest, MarkExecutionStarted, AuditExecutionStarted,
         DirectoryReturns, MarkExecutionFinished, FinishConflicts, AuditExecutionFinished, CorrelateRequest, Abort
  <2> QED
    BY <2>1 DEF Next, Crash, vars, rowVars
<1> QED
  BY <1>1, <1>2

(* 'This request has already been decided.': a decision stands.             *)
THEOREM DecisionStands ==
  ASSUME ~Overlapping
  PROVE  Spec => DecisionIsFinal
<1>1. SerialInv /\ [Next]_vars =>
        [\A r \in Request : decision[r] # "none" => decision'[r] = decision[r]]_vars
  BY DecisionStays
<1>2. SerialInv /\ [Next]_vars => SerialInv'
  BY SerialNext
<1> QED
  BY <1>1, <1>2, SerialInit, PTL DEF Spec, DecisionIsFinal

----------------------------------------------------------------------------
(* The refinement: each step of a handler is a step of the request's life   *)
(* or none.                                                                 *)

LEMMA LifecycleInit == Init => Lifecycle!Init
  BY DEF Init, Lifecycle!Init

LEMMA LifecycleStep ==
  ASSUME ~Overlapping, SerialInv, NEW c \in Call,
         Create(c) \/ Decide(c) \/ RetryExecution(c) \/ TouchDirectory(c) \/ Step(c) \/ Abort(c)
  PROVE  [Lifecycle!Next]_(Lifecycle!vars)
<1>a. TypeOK /\ LocalsSet /\ SerialAt(c) /\ \A r \in Request : RowsAgree(r) /\ SerialRow(r)
  BY DEF SerialInv, TablesInv, TrailInv, TypeInv
<1>c. pc[c] # "idle" => job[c] \in Job /\ On(c) \in Request
  BY <1>a DEF TypeOK, Job, On
<1>q. ASSUME status' = status, touched' = touched PROVE [Lifecycle!Next]_(Lifecycle!vars)
  BY <1>q DEF Lifecycle!vars
<1>1. ASSUME Create(c) PROVE [Lifecycle!Next]_(Lifecycle!vars)
  <2>1. PICK r \in Request : Lifecycle!Submit(r)
    BY <1>1 DEF Create, Lifecycle!Submit, Lifecycle!Moves
  <2> QED
    BY <2>1 DEF Lifecycle!Next
<1>2. ASSUME Decide(c) PROVE [Lifecycle!Next]_(Lifecycle!vars)
  BY <1>2, <1>q DEF Decide, rowVars
<1>3. ASSUME RetryExecution(c) PROVE [Lifecycle!Next]_(Lifecycle!vars)
  BY <1>3, <1>q DEF RetryExecution, rowVars
<1>4. ASSUME TouchDirectory(c) PROVE [Lifecycle!Next]_(Lifecycle!vars)
  <2>1. PICK r \in Request : r = On(c) /\ status[r] = "executing" /\ UNCHANGED status
    BY <1>4, <1>a, <1>c DEF TouchDirectory, SerialAt, Executing, rowVars
  <2>2. touched'[r] # {} /\ \A q \in Request \ {r} : touched'[q] = touched[q]
    BY <1>4, <1>a, <2>1 DEF TouchDirectory, TypeOK
  <2>3. {q \in Request : touched'[q] # {}} = {q \in Request : touched[q] # {}} \cup {r}
    BY <2>2
  <2>4. Lifecycle!Change(r)
    BY <2>1, <2>3 DEF Lifecycle!Change
  <2> QED
    BY <2>4 DEF Lifecycle!Next
<1>5. ASSUME AuditSubmitted(c) PROVE [Lifecycle!Next]_(Lifecycle!vars)
  BY <1>5, <1>q DEF AuditSubmitted, rowVars
<1>6. ASSUME PersistApprovalDecision(c) PROVE [Lifecycle!Next]_(Lifecycle!vars)
  <2>1. On(c) \in Request /\ status[On(c)] = "submitted"
    <3>1. On(c) \in Request /\ decision[On(c)] = "none" /\ HandlerAt(c)
      BY <1>6, <1>a, <1>c DEF PersistApprovalDecision, SerialAt, SerialInv, TablesInv, TrailInv, HandlerTrail
    <3> QED
      BY <1>6, <1>a, <3>1 DEF PersistApprovalDecision, RowsAgree, HandlerAt
  <2>2. Lifecycle!Approve(On(c)) \/ Lifecycle!Reject(On(c))
    BY <1>6, <1>a, <2>1 DEF PersistApprovalDecision, LocalsSet, Lifecycle!Approve, Lifecycle!Reject, Lifecycle!Moves
  <2> QED
    BY <2>1, <2>2 DEF Lifecycle!Next
<1>7. ASSUME AuditDecision(c) PROVE [Lifecycle!Next]_(Lifecycle!vars)
  BY <1>7, <1>q DEF AuditDecision, rowVars
<1>8. ASSUME LoadExecution(c) PROVE [Lifecycle!Next]_(Lifecycle!vars)
  BY <1>8, <1>q DEF LoadExecution, rowVars
<1>9. ASSUME LoadApproval(c) PROVE [Lifecycle!Next]_(Lifecycle!vars)
  BY <1>9, <1>q DEF LoadApproval, rowVars
<1>10. ASSUME AuditRetry(c) PROVE [Lifecycle!Next]_(Lifecycle!vars)
  BY <1>10, <1>q DEF AuditRetry, rowVars
<1>11. ASSUME LoadRequest(c) PROVE [Lifecycle!Next]_(Lifecycle!vars)
  BY <1>11, <1>q DEF LoadRequest, rowVars
<1>12. ASSUME MarkExecutionStarted(c) PROVE [Lifecycle!Next]_(Lifecycle!vars)
  <2>1. On(c) \in Request /\ Lifecycle!Begin(On(c))
    BY <1>12, <1>a, <1>c DEF MarkExecutionStarted, SerialAt, Lifecycle!Begin, Lifecycle!Moves
  <2> QED
    BY <2>1 DEF Lifecycle!Next
<1>13. ASSUME AuditExecutionStarted(c) PROVE [Lifecycle!Next]_(Lifecycle!vars)
  BY <1>13, <1>q DEF AuditExecutionStarted, rowVars
<1>14. ASSUME DirectoryReturns(c) PROVE [Lifecycle!Next]_(Lifecycle!vars)
  BY <1>14, <1>q DEF DirectoryReturns, rowVars
<1>15. ASSUME MarkExecutionFinished(c) PROVE [Lifecycle!Next]_(Lifecycle!vars)
  <2>1. On(c) \in Request /\ (Lifecycle!Succeed(On(c)) \/ Lifecycle!Fail(On(c)))
    BY <1>15, <1>a, <1>c DEF MarkExecutionFinished, SerialAt, Executing, LocalsSet, Lifecycle!Succeed, Lifecycle!Fail, Lifecycle!Moves
  <2> QED
    BY <2>1 DEF Lifecycle!Next
<1>16. ASSUME FinishConflicts(c) PROVE [Lifecycle!Next]_(Lifecycle!vars)
  BY <1>16, <1>q DEF FinishConflicts, rowVars
<1>17. ASSUME AuditExecutionFinished(c) PROVE [Lifecycle!Next]_(Lifecycle!vars)
  BY <1>17, <1>q DEF AuditExecutionFinished, rowVars
<1>18. ASSUME CorrelateRequest(c) PROVE [Lifecycle!Next]_(Lifecycle!vars)
  BY <1>18, <1>q DEF CorrelateRequest, rowVars
<1>19. ASSUME Abort(c) PROVE [Lifecycle!Next]_(Lifecycle!vars)
  BY <1>19, <1>q DEF Abort, rowVars
<1> QED
  BY <1>1, <1>2, <1>3, <1>4, <1>5, <1>6, <1>7, <1>8, <1>9, <1>10, <1>11, <1>12, <1>13, <1>14, <1>15, <1>16, <1>17, <1>18, <1>19 DEF Step

(* The handlers implement the life of a request (RequestLifecycle), whatever*)
(* crashes and errors end them in the middle.                               *)
THEOREM LifecycleImplemented ==
  ASSUME ~Overlapping
  PROVE  Spec => ImplementsLifecycle
<1>1. SerialInv /\ [Next]_vars => [Lifecycle!Next]_(Lifecycle!vars)
  <2> SUFFICES ASSUME SerialInv, [Next]_vars PROVE [Lifecycle!Next]_(Lifecycle!vars)
    OBVIOUS
  <2>1. CASE \E c \in Call : Create(c) \/ Decide(c) \/ RetryExecution(c) \/ TouchDirectory(c) \/ Step(c) \/ Abort(c)
    BY <2>1, LifecycleStep
  <2>2. CASE Crash \/ UNCHANGED vars
    BY <2>2 DEF Crash, vars, rowVars, Lifecycle!vars
  <2> QED
    BY <2>1, <2>2 DEF Next
<1>2. SerialInv /\ [Next]_vars => SerialInv'
  BY SerialNext
<1> QED
  BY <1>1, <1>2, SerialInit, LifecycleInit, PTL DEF Spec, ImplementsLifecycle, Lifecycle!Spec
=============================================================================
