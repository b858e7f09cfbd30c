-------------------------- MODULE RequestWorkflow --------------------------
(***************************************************************************)
(* The change-request workflow of the API (modules/requests): a request is *)
(* submitted, decided by its approver, executed against the directory and, *)
(* after a failure, retried by an administrator.                           *)
(*                                                                         *)
(* A Call is one HTTP call in flight.  RequestsService takes no lock and   *)
(* holds no state: a call is a chain of awaited database statements and    *)
(* one awaited directory operation, and between two awaits any other call  *)
(* may run.  Each action below is one such awaited statement (or           *)
(* transaction) with the synchronous code around it.                       *)
(*                                                                         *)
(* A call is used once, so the set Call bounds how many calls a behaviour  *)
(* has, and calls are numbered in the order they arrive.  A call that the  *)
(* code turns down (400, 403, 404) at its first check leaves no trace: the *)
(* turning-down is a disabled action.                                      *)
(***************************************************************************)
EXTENDS Naturals

CONSTANTS
  Request,        \* rows of change_request
  User,           \* rows of system_user
  Approver,       \* users holding the role 'approver'
  Administrator,  \* users holding the role 'administrator'
  Call,           \* HTTP calls, each with its own handler, by number
  None,           \* no approver, no handler; as an actor, the system itself
  Overlapping,    \* TRUE: two calls on one request may overlap in time
  MaxFaults       \* bound: crashes and throwing statements in a behaviour

ASSUME RolesAssumption == Approver \subseteq User /\ Administrator \subseteq User
ASSUME NoneAssumption == None \notin User
ASSUME CallAssumption == Call \subseteq Nat
ASSUME OverlappingAssumption == Overlapping \in BOOLEAN
ASSUME MaxFaultsAssumption == MaxFaults \in Nat

VARIABLES
  status,        \* change_request.status; "absent" before the insert
  approvedAt,    \* change_request.approved_at is set
  executedAt,    \* change_request.executed_at is set
  approver,      \* request_approval.approver_user_id
  decision,      \* request_approval.decision
  execution,     \* request_execution.execution_status; "none" without a row
  startedAfter,  \* request_execution.started_at, see Earlier
  audit,         \* audit_log: the rows that this workflow writes
  touched,       \* the calls whose directory operation changed a request's target
  pc,            \* where each call is
  job,           \* the parameters and local variables of each call
  faults         \* how many faults there were

rowVars == <<status, approvedAt, executedAt, approver, decision, execution, startedAfter>>
vars == <<rowVars, audit, touched, pc, job, faults>>

Status == {"absent", "submitted", "approved", "rejected",
           "executing", "executed", "failed"}
Decision == {"none", "approved", "rejected"}
Execution == {"none", "executing", "executed", "failed"}
Outcome == {"none", "executed", "failed"}

\* Program points before a statement that can throw out of the call.
Awaiting == {"auditSubmitted", "persistDecision", "auditDecision", "loadExecution",
             "loadApproval", "auditRetry", "loadRequest", "markStarted",
             "auditStarted", "markFinished", "auditFinished", "correlate"}
Active == Awaiting \cup {"directory"}
\* done: answered.  aborted: ended by an exception or a crash.  conflicted:
\* ended by request_execution_time_chk refusing finished_at < started_at.
PC == Active \cup {"idle", "done", "aborted", "conflicted"}

AuditEvent == {"request_submitted", "request_approved", "request_rejected",
               "execution_retry_requested", "execution_started",
               "execution_finished", "execution_failed"}

\* A row of audit_log; the call that wrote it is noted for the properties.
AuditRow == [event : AuditEvent, request : Request, actor : User \cup {None}, call : Call]

\* What a handler keeps across its awaits.  verdict is dto.decision; outcome is
\* the result of the directory operation; earlier is what startedAt tells, see
\* Earlier.
Job == [request : Request, actor : User, verdict : Decision,
        outcome : Outcome, earlier : SUBSET Call]

TypeOK ==
  /\ status \in [Request -> Status]
  /\ approvedAt \in [Request -> BOOLEAN]
  /\ executedAt \in [Request -> BOOLEAN]
  /\ approver \in [Request -> User \cup {None}]
  /\ decision \in [Request -> Decision]
  /\ execution \in [Request -> Execution]
  /\ startedAfter \in [Request -> SUBSET Call]
  /\ audit \subseteq AuditRow
  /\ touched \in [Request -> SUBSET Call]
  /\ pc \in [Call -> PC]
  /\ job \in [Call -> Job \cup {None}]
  /\ \A c \in Call : pc[c] # "idle" => job[c] \in Job
  /\ faults \in 0..MaxFaults

Init ==
  /\ status = [r \in Request |-> "absent"]
  /\ approvedAt = [r \in Request |-> FALSE]
  /\ executedAt = [r \in Request |-> FALSE]
  /\ approver = [r \in Request |-> None]
  /\ decision = [r \in Request |-> "none"]
  /\ execution = [r \in Request |-> "none"]
  /\ startedAfter = [r \in Request |-> {}]
  /\ audit = {}
  /\ touched = [r \in Request |-> {}]
  /\ pc = [c \in Call |-> "idle"]
  /\ job = [c \in Call |-> None]
  /\ faults = 0

----------------------------------------------------------------------------
On(c) == job[c].request

Goto(c, label) == pc' = [pc EXCEPT ![c] = label]

\* AuditService.write: one insert into audit_log, outside any transaction.
Write(c, event, actor) ==
  audit' = audit \cup {[event |-> event, request |-> On(c), actor |-> actor, call |-> c]}

\* A fresh call on r.  Without Overlapping, callers wait for the answer to one
\* call on a request before they send the next.
Arrives(c, r) ==
  /\ pc[c] = "idle"
  /\ \A d \in Call : d < c => pc[d] # "idle"
  /\ Overlapping \/ \A d \in Call : pc[d] \in Active => On(d) # r

Handler(r, u, verdict) ==
  [request |-> r, actor |-> u, verdict |-> verdict, outcome |-> "none", earlier |-> {}]

\* A handler without its local variables, which end with it.
Over(c) == Handler(On(c), job[c].actor, "none")

Ends(c, label) ==
  /\ pc' = [pc EXCEPT ![c] = label]
  /\ job' = [job EXCEPT ![c] = Over(c)]

\* The calls on r whose finishedAt is taken and not yet stored.  A startedAt
\* taken now is not smaller than theirs, so should this call store it before they
\* store their finishedAt, the row's time check may refuse them.
Earlier(r) == {d \in Call : pc[d] = "markFinished" /\ On(d) = r}

MayDecide(u, r) == u \in Administrator \/ (u \in Approver /\ u = approver[r])

----------------------------------------------------------------------------
(* create: one transaction inserts the request and its approval entry, then *)
(* the submission is audited.  resolveApproverByUsername lets through users *)
(* with the role 'approver' and the local administrator.                    *)

Create(c) ==
  \E r \in Request, u \in User, a \in Approver \cup Administrator :
    /\ Arrives(c, r)
    /\ status[r] = "absent"
    /\ status' = [status EXCEPT ![r] = "submitted"]
    /\ approver' = [approver EXCEPT ![r] = a]
    /\ job' = [job EXCEPT ![c] = Handler(r, u, "none")]
    /\ Goto(c, "auditSubmitted")
    /\ UNCHANGED <<approvedAt, executedAt, decision, execution, startedAfter, audit, touched, faults>>

AuditSubmitted(c) ==
  /\ pc[c] = "auditSubmitted"
  /\ Write(c, "request_submitted", job[c].actor)
  /\ Ends(c, "done")
  /\ UNCHANGED <<rowVars, touched, faults>>

----------------------------------------------------------------------------
(* decide: the approval is loaded and checked, then stored without a look   *)
(* at what the rows hold by then.                                           *)

\* Mutant: a decided request may be decided again.
DecideAgain(c) ==
  \E r \in Request, u \in User, verdict \in {"approved", "rejected"} :
    /\ Arrives(c, r)
    /\ status[r] # "absent"
    /\ MayDecide(u, r)
    /\ job' = [job EXCEPT ![c] = Handler(r, u, verdict)]
    /\ Goto(c, "persistDecision")
    /\ UNCHANGED <<rowVars, audit, touched, faults>>

Decide(c) ==
  \E r \in Request, u \in User, verdict \in {"approved", "rejected"} :
    /\ Arrives(c, r)
    /\ status[r] # "absent"
    /\ MayDecide(u, r)
    /\ decision[r] = "none"
    /\ job' = [job EXCEPT ![c] = Handler(r, u, verdict)]
    /\ Goto(c, "persistDecision")
    /\ UNCHANGED <<rowVars, audit, touched, faults>>

PersistApprovalDecision(c) ==
  LET r == On(c) IN
  /\ pc[c] = "persistDecision"
  /\ decision' = [decision EXCEPT ![r] = job[c].verdict]
  /\ status' = [status EXCEPT ![r] = job[c].verdict]
  /\ approvedAt' = [approvedAt EXCEPT ![r] = job[c].verdict = "approved"]
  /\ Goto(c, "auditDecision")
  /\ UNCHANGED <<executedAt, approver, execution, startedAfter, audit, touched, job, faults>>

\* Mutant: the approval is audited and its execution never begun.
AuditDecisionOnly(c) ==
  /\ pc[c] = "auditDecision"
  /\ Write(c, IF job[c].verdict = "approved" THEN "request_approved" ELSE "request_rejected", job[c].actor)
  /\ Ends(c, "done")
  /\ UNCHANGED <<rowVars, touched, faults>>

AuditDecision(c) ==
  /\ pc[c] = "auditDecision"
  /\ \/ /\ job[c].verdict = "approved"
        /\ Write(c, "request_approved", job[c].actor)
        /\ Goto(c, "loadRequest")
        /\ UNCHANGED job
     \/ /\ job[c].verdict = "rejected"
        /\ Write(c, "request_rejected", job[c].actor)
        /\ Ends(c, "done")
  /\ UNCHANGED <<rowVars, touched, faults>>

----------------------------------------------------------------------------
(* retryExecution: three reads, each with its check, then an audit row.     *)

RetryExecution(c) ==
  \E r \in Request, u \in Administrator :
    /\ Arrives(c, r)
    /\ status[r] = "failed"
    /\ job' = [job EXCEPT ![c] = Handler(r, u, "none")]
    /\ Goto(c, "loadExecution")
    /\ UNCHANGED <<rowVars, audit, touched, faults>>

LoadExecution(c) ==
  /\ pc[c] = "loadExecution"
  /\ \/ execution[On(c)] = "failed" /\ Goto(c, "loadApproval") /\ UNCHANGED job
     \/ execution[On(c)] # "failed" /\ Ends(c, "done")
  /\ UNCHANGED <<rowVars, audit, touched, faults>>

LoadApproval(c) ==
  /\ pc[c] = "loadApproval"
  /\ \/ decision[On(c)] = "approved" /\ Goto(c, "auditRetry") /\ UNCHANGED job
     \/ decision[On(c)] # "approved" /\ Ends(c, "done")
  /\ UNCHANGED <<rowVars, audit, touched, faults>>

AuditRetry(c) ==
  /\ pc[c] = "auditRetry"
  /\ Write(c, "execution_retry_requested", job[c].actor)
  /\ Goto(c, "loadRequest")
  /\ UNCHANGED <<rowVars, touched, job, faults>>

----------------------------------------------------------------------------
(* executeApprovedRequest, which decide and retryExecution await.           *)

\* Mutant: the directory operation is begun before its start is stored.
LoadRequestAndGo(c) ==
  /\ pc[c] = "loadRequest"
  /\ job' = [job EXCEPT ![c].earlier = Earlier(On(c))]
  /\ Goto(c, "directory")
  /\ UNCHANGED <<rowVars, audit, touched, faults>>

\* The request row is loaded for its payload alone; startedAt is taken here.
LoadRequest(c) ==
  /\ pc[c] = "loadRequest"
  /\ job' = [job EXCEPT ![c].earlier = Earlier(On(c))]
  /\ Goto(c, "markStarted")
  /\ UNCHANGED <<rowVars, audit, touched, faults>>

\* Mutant: the start is stored and not audited.
StartUnaudited(c) ==
  LET r == On(c) IN
  /\ pc[c] = "markStarted"
  /\ execution' = [execution EXCEPT ![r] = "executing"]
  /\ startedAfter' = [startedAfter EXCEPT ![r] = job[c].earlier]
  /\ status' = [status EXCEPT ![r] = "executing"]
  /\ Goto(c, "directory")
  /\ UNCHANGED <<approvedAt, executedAt, approver, decision, audit, touched, job, faults>>

\* Mutant: the start is stored in request_execution alone.
StartInOneTable(c) ==
  LET r == On(c) IN
  /\ pc[c] = "markStarted"
  /\ execution' = [execution EXCEPT ![r] = "executing"]
  /\ startedAfter' = [startedAfter EXCEPT ![r] = job[c].earlier]
  /\ Goto(c, "auditStarted")
  /\ UNCHANGED <<status, approvedAt, executedAt, approver, decision, audit, touched, job, faults>>

MarkExecutionStarted(c) ==
  LET r == On(c) IN
  /\ pc[c] = "markStarted"
  /\ execution' = [execution EXCEPT ![r] = "executing"]
  /\ startedAfter' = [startedAfter EXCEPT ![r] = job[c].earlier]
  /\ status' = [status EXCEPT ![r] = "executing"]
  /\ Goto(c, "auditStarted")
  /\ UNCHANGED <<approvedAt, executedAt, approver, decision, audit, touched, job, faults>>

AuditExecutionStarted(c) ==
  /\ pc[c] = "auditStarted"
  /\ Write(c, "execution_started", None)
  /\ Goto(c, "directory")
  /\ UNCHANGED <<rowVars, touched, job, faults>>

\* The directory operation changes its target, possibly in part ...
TouchDirectory(c) ==
  /\ pc[c] = "directory"
  /\ c \notin touched[On(c)]
  /\ touched' = [touched EXCEPT ![On(c)] = @ \cup {c}]
  /\ UNCHANGED <<rowVars, audit, pc, job, faults>>

\* ... and returns a result, never an exception.  finishedAt is taken here.
DirectoryReturns(c) ==
  /\ pc[c] = "directory"
  /\ \E outcome \in {"executed", "failed"} :
       job' = [job EXCEPT ![c].outcome = outcome]
  /\ Goto(c, "markFinished")
  /\ UNCHANGED <<rowVars, audit, touched, faults>>

\* Mutant: the wrong local variable is stored as the result.
FinishWithVerdict(c) ==
  LET r == On(c) IN
  /\ pc[c] = "markFinished"
  /\ execution' = [execution EXCEPT ![r] = job[c].verdict]
  /\ status' = [status EXCEPT ![r] = job[c].verdict]
  /\ executedAt' = [executedAt EXCEPT ![r] = job[c].outcome = "executed"]
  /\ Goto(c, "auditFinished")
  /\ UNCHANGED <<approvedAt, approver, decision, startedAfter, audit, touched, job, faults>>

\* Mutant: executed_at is set whatever the outcome.
FinishAlwaysDated(c) ==
  LET r == On(c) IN
  /\ pc[c] = "markFinished"
  /\ execution' = [execution EXCEPT ![r] = job[c].outcome]
  /\ status' = [status EXCEPT ![r] = job[c].outcome]
  /\ executedAt' = [executedAt EXCEPT ![r] = TRUE]
  /\ Goto(c, "auditFinished")
  /\ UNCHANGED <<approvedAt, approver, decision, startedAfter, audit, touched, job, faults>>

\* Mutant: a failure is audited and not stored.
FinishOnSuccess(c) ==
  LET r == On(c) IN
  /\ pc[c] = "markFinished"
  /\ \/ /\ job[c].outcome = "executed"
        /\ execution' = [execution EXCEPT ![r] = "executed"]
        /\ status' = [status EXCEPT ![r] = "executed"]
        /\ executedAt' = [executedAt EXCEPT ![r] = TRUE]
     \/ job[c].outcome = "failed" /\ UNCHANGED <<execution, status, executedAt>>
  /\ Goto(c, "auditFinished")
  /\ UNCHANGED <<approvedAt, approver, decision, startedAfter, audit, touched, job, faults>>

MarkExecutionFinished(c) ==
  LET r == On(c) IN
  /\ pc[c] = "markFinished"
  /\ execution' = [execution EXCEPT ![r] = job[c].outcome]
  /\ status' = [status EXCEPT ![r] = job[c].outcome]
  /\ executedAt' = [executedAt EXCEPT ![r] = job[c].outcome = "executed"]
  /\ Goto(c, "auditFinished")
  /\ UNCHANGED <<approvedAt, approver, decision, startedAfter, audit, touched, job, faults>>

\* request_execution_time_chk: the row's started_at was taken after finishedAt.
\* (Equal milliseconds pass the check, so this may happen and need not.)
FinishConflicts(c) ==
  /\ pc[c] = "markFinished"
  /\ c \in startedAfter[On(c)]
  /\ Ends(c, "conflicted")
  /\ UNCHANGED <<rowVars, audit, touched, faults>>

AuditExecutionFinished(c) ==
  /\ pc[c] = "auditFinished"
  /\ \/ job[c].outcome = "executed" /\ Write(c, "execution_finished", None)
     \/ job[c].outcome = "failed" /\ Write(c, "execution_failed", None)
  /\ Goto(c, "correlate")
  /\ UNCHANGED <<rowVars, touched, job, faults>>

\* CorrelationService.correlateRequest reads and writes event_correlation alone.
CorrelateRequest(c) ==
  /\ pc[c] = "correlate"
  /\ Ends(c, "done")
  /\ UNCHANGED <<rowVars, audit, touched, faults>>

----------------------------------------------------------------------------
(* Faults.                                                                  *)

Fault == faults < MaxFaults /\ faults' = faults + 1

\* A statement throws and the call ends with a 500.  The directory operation
\* is not among them: executeDirectoryRequestSafely catches what it throws.
Abort(c) ==
  /\ pc[c] \in Awaiting
  /\ Fault
  /\ Ends(c, "aborted")
  /\ UNCHANGED <<rowVars, audit, touched>>

\* The API process dies and comes back: the rows stay, every handler is gone
\* and nothing looks for what it left behind.
Crash ==
  /\ \E c \in Call : pc[c] \in Active
  /\ Fault
  /\ pc' = [c \in Call |-> IF pc[c] \in Active THEN "aborted" ELSE pc[c]]
  /\ job' = [c \in Call |-> IF pc[c] \in Active THEN Over(c) ELSE job[c]]
  /\ UNCHANGED <<rowVars, audit, touched>>

----------------------------------------------------------------------------
\* What a handler does by itself once its call arrived.
Step(c) ==
  \/ AuditSubmitted(c)
  \/ PersistApprovalDecision(c)
  \/ AuditDecision(c)
  \/ LoadExecution(c)
  \/ LoadApproval(c)
  \/ AuditRetry(c)
  \/ LoadRequest(c)
  \/ MarkExecutionStarted(c)
  \/ AuditExecutionStarted(c)
  \/ DirectoryReturns(c)
  \/ MarkExecutionFinished(c)
  \/ FinishConflicts(c)
  \/ AuditExecutionFinished(c)
  \/ CorrelateRequest(c)

Next ==
  \/ \E c \in Call : \/ Create(c)
                     \/ Decide(c)
                     \/ RetryExecution(c)
                     \/ TouchDirectory(c)
                     \/ Step(c)
                     \/ Abort(c)
  \/ Crash

\* Promises settle: the event loop runs every handler whose await is over, and
\* PostgreSQL and the directory answer or drop the connection (neither client is
\* given a timeout, so this is asked of them).  Nothing obliges users to call,
\* nor the directory to change.
Fairness == \A c \in Call : WF_vars(Step(c))

Spec == Init /\ [][Next]_vars /\ Fairness

----------------------------------------------------------------------------
(* Safety under every interleaving, crash and database error.               *)

Audited(r, event) == \E row \in audit : row.request = r /\ row.event = event

AuditedBy(c, event) == \E row \in audit : row.call = c /\ row.event = event

\* The directory is never touched ahead of the trail that accounts for it: the
\* approval is audited in the name of somebody entitled to give it, and the very
\* call that touches the directory has audited its start.  A retry inherits the
\* approval from rows that other calls stored, maybe before a crash.
DirectoryTouchIsAccountedFor ==
  \A r \in Request : \A c \in touched[r] :
    /\ \E row \in audit : /\ row.request = r
                          /\ row.event = "request_approved"
                          /\ MayDecide(row.actor, r)
    /\ \E row \in audit : /\ row.request = r
                          /\ row.event = "execution_started"
                          /\ row.call = c

\* The three tables of a request are written by different transactions and keep
\* agreeing: a request that shows a phase of its execution shows the one of its
\* execution row, an undecided request was never executed, and approved_at goes
\* with the decision that stands.
TablesAgree ==
  \A r \in Request :
    /\ status[r] \in {"executing", "executed", "failed"} => status[r] = execution[r]
    /\ status[r] = "rejected" => decision[r] = "rejected"
    /\ decision[r] = "none" <=> status[r] \in {"absent", "submitted"}
    /\ decision[r] = "none" => execution[r] = "none"
    /\ approvedAt[r] <=> decision[r] = "approved"
    /\ execution[r] = "executed" => executedAt[r]
    /\ execution[r] # "none" => Audited(r, "request_approved")

\* An administrator's retry always follows an attempt of another call that the
\* trail shows as started.
RetryFollowsAnAttempt ==
  \A row \in audit :
    row.event = "execution_retry_requested" =>
      /\ row.actor \in Administrator
      /\ \E other \in audit : /\ other.request = row.request
                              /\ other.event = "execution_started"
                              /\ other.call # row.call

\* A request is left in 'executing', with nobody at work on it, by a crash or a
\* thrown statement only.  In particular overlapping retries, of which one may be
\* refused its finished_at, end with some call storing a result.
StuckOnlyAfterFault ==
  \A r \in Request :
    (execution[r] = "executing" /\ \A c \in Call : pc[c] \in Active => On(c) # r)
      => \E c \in Call : pc[c] = "aborted" /\ On(c) = r

(* Liveness, where no fault ends a call.                                    *)

\* An approved request is executed automatically, whatever other decisions and
\* retries run beside it.  Audit rows stay, so once the approval is audited the
\* execution row comes to hold a result again and again: no attempt leaves it at
\* 'executing', not even one that is refused its finished_at.
ApprovedIsExecuted ==
  \A r \in Request :
    Audited(r, "request_approved") ~> execution[r] \in {"executed", "failed"}

----------------------------------------------------------------------------
(* What holds while the calls on one request do not overlap.                *)

\* 'This request has already been decided.': a decision stands.
DecisionIsFinal ==
  [][\A r \in Request : decision[r] # "none" => decision'[r] = decision[r]]_vars

\* 'Only failed request executions can be retried.': when a retry begins its
\* execution, the execution before it has failed.
RetryBeginsFromFailed ==
  [][\A c \in Call :
       /\ pc[c] = "markStarted" /\ pc'[c] = "auditStarted"
       /\ AuditedBy(c, "execution_retry_requested")
       => execution[On(c)] = "failed"]_vars

\* The dates of a request tell its story: executed_at is set exactly on the
\* executed requests, and a rejected one was never begun nor touched.
DatesTellTheStory ==
  \A r \in Request :
    /\ executedAt[r] <=> status[r] = "executed"
    /\ decision[r] = "rejected" => execution[r] = "none" /\ touched[r] = {}
    /\ \A c \in Call : pc[c] # "conflicted"

\* The handlers implement the life of a request, whatever crashes and errors end
\* them in the middle.
Lifecycle == INSTANCE RequestLifecycle WITH
  stage <- status, changed <- {r \in Request : touched[r] # {}}

ImplementsLifecycle == Lifecycle!Spec

=============================================================================
