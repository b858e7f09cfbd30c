-------------------------- MODULE EventCorrelation --------------------------
(***************************************************************************)
(* How observed directory events find the request that caused them         *)
(* (modules/correlation, modules/observed-events).                         *)
(*                                                                         *)
(* Two callers correlate, without a lock: an execution, for its request,   *)
(* when it is over, and an ingest, for its event, when the event arrives.  *)
(* Both look at every request in turn, with a database read for each, and  *)
(* then insert a correlation unless they see one.  Executions go on        *)
(* meanwhile, and events arrive in any order and at any time after they    *)
(* happened, more than once.                                               *)
(*                                                                         *)
(* An execution is one run of executeApprovedRequest: RequestWorkflow has  *)
(* the whole call, DirectoryExecution the whole directory operation.  Time *)
(* is one clock for the API, its database and the domain controller.       *)
(***************************************************************************)
EXTENDS CorrelationSignals, ExecutionAttempts, FiniteSets

CONSTANTS
  Request,     \* rows of change_request
  Execution,   \* runs of executeApprovedRequest
  Ingest,      \* callers of ingestWithResult: the poller, a sender
  Object,      \* the directory's objects: references with every field, and cn
  Scenarios,   \* what to explore: records, as follows
  None         \* the cause of an outside event

\* The fields of a scenario, which also bounds a behaviour:
\*   payload      what the requests ask for
\*   of           the request of each execution; it has no others
\*   ingests      the callers of ingestWithResult
\*   outside      events that others may cause, each once
\*   actor        the name under which the API writes to the directory, as its
\*                events have it in user.name; Absent if they do not
\*   window       CORRELATION_WINDOW_SECONDS
\*   horizon      the clock's last reading
\*   overlapping  whether two retries of a request may overlap
\*   faults       how many workers may end with an exception or a crash
ASSUME WorkerAssumption == Execution \cap Ingest = {} /\ None \notin Request
ASSUME ScenariosAssumption == \A s \in Scenarios :
  /\ DOMAIN s.payload = Request
  /\ \A r \in Request :
       IsFiniteSet(s.payload[r].changes) /\ s.payload[r].members \in Seq(Range(s.payload[r].members))
  /\ DOMAIN s.of \subseteq Execution /\ \A x \in DOMAIN s.of : s.of[x] \in Request
  /\ s.ingests \subseteq Ingest
  /\ s.window \in Nat /\ s.horizon \in Nat /\ s.overlapping \in BOOLEAN /\ s.faults \in Nat

VARIABLES
  scenario,     \* what this behaviour explores; it never changes
  now,          \* the clock
  status,       \* change_request.status
  approvedAt,   \* change_request.approved_at; Open before the approval
  row,          \* request_execution, as an attempt; <<>> without a row
  trail,        \* the execution rows of audit_log, per request
  happened,     \* the domain controller's security log, with when and on whose account
  observed,     \* observed_event: the entries of happened that were ingested
  correlation,  \* event_correlation
  pc,           \* where each worker is
  run,          \* startedAt and finishedAt of an execution
  done,         \* how many steps its directory operation completed
  queue,        \* the candidate events it has not come to yet
  on,           \* the event a worker is evaluating; 0 if none
  todo,         \* the requests it has not looked at yet
  found,        \* the requests it found to match
  contested,    \* history: events for which someone found several requests
  raced,        \* history: events that two workers were about to correlate
  faults        \* how many faults there were

requestVars == <<status, approvedAt, row, trail>>
eventVars == <<happened, observed>>
evaluation == <<on, todo, found>>
history == <<contested, raced>>
vars == <<scenario, now, requestVars, eventVars, correlation, pc, run, done, queue,
          evaluation, history, faults>>

payload == scenario.payload
of == scenario.of
window == scenario.window
actor == scenario.actor
Run == DOMAIN of
Worker == Run \cup scenario.ingests

----------------------------------------------------------------------------
(* What the directory writer does for a payload and what the domain         *)
(* controller logs about it.                                                *)

Full(ref) == CHOOSE o \in Object : Matches(o, ref)

Step(name, op, label, account, group) ==
  [name |-> name, op |-> op, label |-> label, account |-> account, group |-> group,
   attrs |-> {}, enabled |-> FALSE]

\* The membership steps carry the DNs of both ends, looked up if need be.
MemberStep(p, m) ==
  IF p.kind \in {"user_create", "account_change"}
  THEN Step("group", m.op, m.ref.sam, Full(p.target).dn, Full(m.ref).dn)
  ELSE Step("member", m.op, m.ref.sam, Full(m.ref).dn, Full(p.target).dn)

MemberSteps(p, members) == [i \in DOMAIN members |-> MemberStep(p, members[i])]

\* The k-th of a set of positions.
Nth(S, k) == CHOOSE i \in S : Cardinality({j \in S : j <= i}) = k

\* The steps of the writer's methods, in their order.
Steps(p) ==
  LET dn == Full(p.target).dn
      Plain(name) == Step(name, "none", Absent, dn, Absent)
      \* A group without a DN is skipped on creation.
      named == {i \in DOMAIN p.members : p.members[i].ref.dn # Absent}
      given == [k \in 1..Cardinality(named) |-> p.members[Nth(named, k)]]
  IN  CASE p.kind = "user_create" ->
             <<Plain("create-user")>> \o (IF p.password THEN <<Plain("set-password")>> ELSE <<>>)
               \o <<[Plain("set-enabled-state") EXCEPT !.enabled = p.enabled]>>
               \o MemberSteps(p, given)
        [] p.kind \in AccountKinds ->
             (IF p.changes = {} THEN <<>>
              ELSE <<[Plain("update-attributes") EXCEPT !.attrs = {c.attr : c \in p.changes}]>>)
               \o MemberSteps(p, p.members)
        [] OTHER -> MemberSteps(p, p.members)

NoData ==
  [guid |-> Absent, sid |-> Absent, dn |-> Absent, name |-> Absent, oldName |-> Absent,
   newName |-> Absent, memberDn |-> Absent, memberSid |-> Absent, memberSam |-> Absent,
   memberCn |-> Absent, facts |-> {}]

\* normalizeElasticWinlogbeatHit, from the event's number and data to its row.
\* lookup: the directory's answer on the member's name; user: user.name, which is
\* whoever made the change and stands in for the account's name where the event
\* has none.  Each is Absent if there is none.
Normalised(id, data, lookup, user) ==
  [id |-> id, type |-> EventType(id), guid |-> data.guid, dn |-> data.dn,
   sam |-> IF id \in GroupEvents THEN data.name ELSE Coalesce(data.name, user),
   subject |-> IF id \in GroupEvents THEN Coalesce(data.memberSam, Coalesce(lookup, data.memberCn))
               ELSE Absent,
   data |-> data]

\* Account management events name the account, directory service events its object.
AccountEvent(id, o, facts) ==
  Normalised(id, [NoData EXCEPT !.sid = o.sid, !.name = o.sam, !.facts = facts], Absent, Absent)
ObjectEvent(id, o, facts, user) ==
  Normalised(id, [NoData EXCEPT !.guid = o.guid, !.dn = o.dn, !.facts = facts], Absent, user)
RenameEvent(o, name, user) ==
  Normalised(4781, [NoData EXCEPT !.sid = o.sid, !.oldName = o.sam, !.newName = name], Absent, user)
MembershipEvent(op, group, member, lookup) ==
  Normalised(IF op = "add" THEN 4728 ELSE 4729,
             [NoData EXCEPT !.sid = group.sid, !.name = group.sam, !.memberDn = member.dn,
                            !.memberSid = member.sid, !.memberCn = member.cn], lookup, Absent)

\* An attribute change as an account management event, where there is one.
ChangeEvent(o, c) ==
  CASE c.attr = "sAMAccountName" -> RenameEvent(o, <<"sam", c.value>>, actor)
    [] c.attr = "enabled" -> AccountEvent(IF c.value = "true" THEN 4722 ELSE 4725, o, {})
    [] OTHER -> AccountEvent(4738, o, SignalsOfChange(c))

\* The sets of events that a step may leave, by what is audited.
Logged(p, s) ==
  LET o == Full(p.target) IN
  CASE s.name = "create-user" -> {{AccountEvent(4720, o, {})}, {ObjectEvent(5137, o, {}, actor)}}
    [] s.name = "set-password" -> {{AccountEvent(4724, o, {})}, {AccountEvent(4738, o, {Password})}}
    [] s.name = "set-enabled-state" ->
         IF s.enabled THEN {{AccountEvent(4722, o, {})}, {ObjectEvent(5136, o, {Enable}, actor)}} ELSE {{}}
    [] s.name = "update-attributes" ->
         {{ObjectEvent(5136, o, SignalsOfChange(c), actor) : c \in p.changes}}
           \cup (IF UNION {SignalsOfChange(c) : c \in p.changes} \subseteq ShownBy4738 \cup {Rename}
                 THEN {{ChangeEvent(o, c) : c \in p.changes}} ELSE {})
    [] OTHER ->
         LET member == CHOOSE q \in Object : q.dn = s.account
             group == CHOOSE q \in Object : q.dn = s.group
         IN  {{MembershipEvent(s.op, group, member, lookup)} : lookup \in {Absent, member.sam}}

----------------------------------------------------------------------------
(* What can be told from a name.  GUIDs, SIDs, DNs and account names are    *)
(* unique in a directory; common names are not, and an account may be given  *)
(* the name that a request asks for another one.                            *)

ASSUME ObjectAssumption ==
  \A o, q \in Object : (\A f \in Field : o[f] # Absent) /\ ((\E f \in Field : o[f] = q[f]) => o = q)

Names(o, ref) == \A f \in Field : ref[f] \in {Absent, o[f]}

\* A payload of scenario s asks for something about one object, and only requests
\* with a member list have members.
ASSUME PayloadAssumption ==
  \A s \in Scenarios, r \in Request :
    LET p == s.payload[r] IN
    /\ p.kind \in {"user_create", "group_change"} \cup AccountKinds \cup MembershipKinds
    /\ p.kind = "account_update" => p.members = <<>>
    /\ \E o \in Object : Matches(o, p.target) /\ Names(o, p.target)
    /\ \A i \in DOMAIN p.members : \E o \in Object : Matches(o, p.members[i].ref)

\* The identifiers and names that the domain controller writes into an event are
\* those of one object o, and of one member m if any.  What the API adds, the
\* name of whoever made the change and the member's common name, may be
\* anybody's.
Tells(e, o, m) ==
  /\ e.data.sid = o.sid \/ e.data.guid = o.guid
  /\ \A f \in Field \ {"sam"} : EventTarget(e)[f] \in {Absent, o[f]}
  /\ {e.data.name, e.data.oldName} \subseteq {Absent, o.sam}
  /\ e.data.newName # Absent => e.data.oldName # Absent
  /\ e.id \in GroupEvents \/ e.data.name # Absent => e.sam \in {Absent, o.sam}
  /\ \A f \in Field :
       EventMember(e)[f] # Absent =>
         /\ e.data.memberSid = m.sid
         /\ EventMember(e)[f] \in IF f = "sam" THEN {m.sam, e.data.memberCn} ELSE {m[f]}

Told(e) == \E o, m \in Object : Tells(e, o, m)

ASSUME OutsideAssumption == \A s \in Scenarios : \A e \in s.outside : Told(e)

----------------------------------------------------------------------------
PC == {"idle", "begun", "auditStarted", "directory", "auditFinished", "candidates", "next",
       "list", "look", "insert", "done", "aborted"}
Status == {"submitted", "approved", "executing", "executed", "failed"}
Correlatable == {"approved", "executing", "executed", "failed"}
Entry == DOMAIN happened

Plan(x) == Steps(payload[of[x]])
Result(x) == SubSeq(Plan(x), 1, done[x])

Times == 0..scenario.horizon \cup {Open}
IsAttempt(r, a) ==
  a.start \in Times /\ a.finish \in Times /\ \E k \in 0..Len(Steps(payload[r])) : a.steps = SubSeq(Steps(payload[r]), 1, k)

TypeOK ==
  /\ scenario \in Scenarios
  /\ now \in 0..scenario.horizon
  /\ status \in [Request -> Status]
  /\ approvedAt \in [Request -> Times]
  /\ \A r \in Request : row[r] = <<>> \/ (Len(row[r]) = 1 /\ IsAttempt(r, row[r][1]))
  /\ \A r \in Request : \A i \in DOMAIN trail[r] : IsAttempt(r, trail[r][i])
  /\ observed \subseteq Entry
  /\ correlation \subseteq [request : Request, event : observed, by : Worker]
  /\ pc \in [Worker -> PC]
  /\ \A x \in Run : run[x].start \in Times /\ run[x].finish \in Times
  /\ \A x \in Run : done[x] \in 0..Len(Plan(x))
  /\ on \in [Worker -> Entry \cup {0}]
  /\ todo \in [Worker -> SUBSET Request] /\ found \in [Worker -> SUBSET Request]
  /\ \A w \in Worker : pc[w] \in {"list", "look", "insert"} => on[w] \in observed
  /\ faults \in 0..scenario.faults

Init ==
  /\ scenario \in Scenarios
  /\ now = 0
  /\ status = [r \in Request |-> "submitted"]
  /\ approvedAt = [r \in Request |-> Open]
  /\ row = [r \in Request |-> <<>>]
  /\ trail = [r \in Request |-> <<>>]
  /\ happened = <<>>
  /\ observed = {}
  /\ correlation = {}
  /\ pc = [w \in Worker |-> "idle"]
  /\ run = [x \in Run |-> [start |-> Open, finish |-> Open]]
  /\ done = [x \in Run |-> 0]
  /\ queue = [x \in Run |-> {}]
  /\ on = [w \in Worker |-> 0]
  /\ todo = [w \in Worker |-> {}]
  /\ found = [w \in Worker |-> {}]
  /\ contested = {}
  /\ raced = {}
  /\ faults = 0

Goto(w, label) == pc' = [pc EXCEPT ![w] = label]

Tick ==
  /\ now < scenario.horizon
  /\ now' = now + 1
  /\ UNCHANGED <<scenario, requestVars, eventVars, correlation, pc, run, done, queue, evaluation, history, faults>>

\* An administrator, or another tool, changes the directory by hand.
HappensOutside ==
  /\ \E e \in scenario.outside :
       /\ \A i \in Entry : happened[i].by = None => happened[i].shown # e
       /\ happened' = Append(happened, [shown |-> e, time |-> now, by |-> None, run |-> None, step |-> 0])
  /\ UNCHANGED <<scenario, now, requestVars, observed, correlation, pc, run, done, queue, evaluation, history, faults>>

----------------------------------------------------------------------------
(* An execution, up to its correlation.                                     *)

Active(x) == pc[x] \notin {"idle", "done", "aborted"}

\* The approval, whose call executes the request.
Approve(x) ==
  LET r == of[x] IN
  /\ pc[x] = "idle" /\ status[r] = "submitted"
  /\ status' = [status EXCEPT ![r] = "approved"]
  /\ approvedAt' = [approvedAt EXCEPT ![r] = now]
  /\ Goto(x, "begun")
  /\ UNCHANGED <<scenario, now, row, trail, eventVars, correlation, run, done, queue, evaluation, history, faults>>

\* A retry, past its check.
Retry(x) ==
  LET r == of[x] IN
  /\ pc[x] = "idle" /\ status[r] = "failed"
  /\ scenario.overlapping \/ \A y \in Run : of[y] = r => ~Active(y)
  /\ Goto(x, "begun")
  /\ UNCHANGED <<scenario, now, requestVars, eventVars, correlation, run, done, queue, evaluation, history, faults>>

MarkExecutionStarted(x) ==
  LET r == of[x] IN
  /\ pc[x] = "begun"
  /\ run' = [run EXCEPT ![x].start = now]
  /\ row' = [row EXCEPT ![r] = <<Attempt(now, Open, <<>>)>>]
  /\ status' = [status EXCEPT ![r] = "executing"]
  /\ Goto(x, "auditStarted")
  /\ UNCHANGED <<scenario, now, approvedAt, trail, eventVars, correlation, done, queue, evaluation, history, faults>>

AuditStarted(x) ==
  LET r == of[x] IN
  /\ pc[x] = "auditStarted"
  /\ trail' = [trail EXCEPT ![r] = Append(@, [event |-> "execution_started", start |-> run[x].start,
                                              finish |-> Open, steps |-> <<>>, at |-> now])]
  /\ Goto(x, "directory")
  /\ UNCHANGED <<scenario, now, status, approvedAt, row, eventVars, correlation, run, done, queue, evaluation, history, faults>>

\* The step has left its events before, whether or not an execution knows of it.
LeftBefore(x, s) == \E i \in Entry : happened[i].by = of[x] /\ \E alt \in Logged(payload[of[x]], s) : happened[i].shown \in alt

\* The directory does the next step, and the domain controller logs it.  A step
\* whose effect is already there leaves no event.
Applied(x) ==
  LET p == payload[of[x]]
      s == Plan(x)[done[x] + 1]
  IN
  /\ pc[x] = "directory" /\ done[x] < Len(Plan(x))
  /\ \E alt \in IF LeftBefore(x, s) THEN {{}} ELSE Logged(p, s) :
       happened' = happened \o SetToSeq({[shown |-> e, time |-> now, by |-> of[x], run |-> x, step |-> done[x] + 1] : e \in alt})
  /\ UNCHANGED <<scenario, now, requestVars, observed, correlation, pc, run, queue, evaluation, history, faults>>

\* The operation completes its next step...
DirectoryStep(x) == Applied(x) /\ done' = [done EXCEPT ![x] = @ + 1]

\* ...or does not learn that it is done: the connection is lost over the answer.
\* A second attempt may complete the step, or the operation ends with it failed.
UnreportedStep(x) == Applied(x) /\ UNCHANGED done

\* It is over, complete or with a failed step.
MarkExecutionFinished(x) ==
  LET r == of[x]
      success == done[x] = Len(Plan(x))
  IN
  /\ pc[x] = "directory"
  /\ run' = [run EXCEPT ![x].finish = now]
  /\ row' = [row EXCEPT ![r] = <<Attempt(row[r][1].start, now, Result(x))>>]
  /\ status' = [status EXCEPT ![r] = IF success THEN "executed" ELSE "failed"]
  /\ Goto(x, "auditFinished")
  /\ UNCHANGED <<scenario, now, approvedAt, trail, eventVars, correlation, done, queue, evaluation, history, faults>>

AuditFinished(x) ==
  LET r == of[x] IN
  /\ pc[x] = "auditFinished"
  /\ trail' = [trail EXCEPT ![r] = Append(@,
       [event |-> IF done[x] = Len(Plan(x)) THEN "execution_finished" ELSE "execution_failed",
        start |-> run[x].start, finish |-> run[x].finish, steps |-> Result(x), at |-> now])]
  /\ Goto(x, "candidates")
  /\ UNCHANGED <<scenario, now, status, approvedAt, row, eventVars, correlation, run, done, queue, evaluation, history, faults>>

----------------------------------------------------------------------------
(* Correlation.                                                             *)

AttemptsOf(r) == Attempts(trail[r], row[r])

\* findMatchingAttemptForEvent: some window that the event is in expects it.
MatchesNow(r, i) ==
  \E a \in Range(Windows(AttemptsOf(r), approvedAt[r])) :
    /\ InWindow(a, happened[i].time, now, window)
    /\ MatchesRequest(payload[r], happened[i].shown, a.steps)

RowsOf(i) == {c \in correlation : c.event = i}

\* Mutant: only an execution that succeeded is correlated.
CandidatesOfSuccess(x) ==
  /\ pc[x] = "candidates"
  /\ queue' = [queue EXCEPT ![x] = IF done[x] = Len(Plan(x))
                                  THEN {i \in observed : RowsOf(i) = {} /\ MatchesNow(of[x], i)} ELSE {}]
  /\ Goto(x, "next")
  /\ UNCHANGED <<scenario, now, requestVars, eventVars, correlation, run, done, evaluation, history, faults>>

\* findCandidateObservedEventsForRequest.
Candidates(x) ==
  /\ pc[x] = "candidates"
  /\ queue' = [queue EXCEPT ![x] = {i \in observed : RowsOf(i) = {} /\ MatchesNow(of[x], i)}]
  /\ Goto(x, "next")
  /\ UNCHANGED <<scenario, now, requestVars, eventVars, correlation, run, done, evaluation, history, faults>>

\* correlateRequest comes to its next candidate.
NextCandidate(x) ==
  /\ pc[x] = "next"
  /\ \/ /\ queue[x] = {}
        /\ Goto(x, "done")
        /\ UNCHANGED <<queue, on>>
     \/ \E i \in queue[x] :
          /\ queue' = [queue EXCEPT ![x] = @ \ {i}]
          /\ on' = [on EXCEPT ![x] = i]
          /\ Goto(x, "list")
  /\ UNCHANGED <<scenario, now, requestVars, eventVars, correlation, run, done, todo, found, history, faults>>

\* Mutant: the event is correlated without having been inserted.
IngestUnsaved(n) ==
  /\ pc[n] = "idle"
  /\ \E i \in Entry :
       /\ i \in observed => RowsOf(i) = {}
       /\ on' = [on EXCEPT ![n] = i]
  /\ Goto(n, "list")
  /\ UNCHANGED <<scenario, now, requestVars, eventVars, correlation, run, done, queue, todo, found, history, faults>>

\* ingestWithResult: a new event is inserted and correlated; one that was there
\* is correlated again unless it has a correlation.
IngestWithResult(n) ==
  /\ pc[n] = "idle"
  /\ \E i \in Entry :
       /\ i \in observed => RowsOf(i) = {}
       /\ on' = [on EXCEPT ![n] = i]
       /\ observed' = observed \cup {i}
  /\ Goto(n, "list")
  /\ UNCHANGED <<scenario, now, requestVars, happened, correlation, run, done, queue, todo, found, history, faults>>

\* findMatchingRequestIdsForEvent reads the requests...
ListRequests(w) ==
  /\ pc[w] = "list"
  /\ todo' = [todo EXCEPT ![w] = {r \in Request : status[r] \in Correlatable}]
  /\ found' = [found EXCEPT ![w] = {}]
  /\ Goto(w, "look")
  /\ UNCHANGED <<scenario, now, requestVars, eventVars, correlation, run, done, queue, on, history, faults>>

\* ...and then the execution and the audit trail of one after the other.
LookAt(w) ==
  /\ pc[w] = "look"
  /\ \E r \in todo[w] :
       /\ todo' = [todo EXCEPT ![w] = @ \ {r}]
       /\ found' = [found EXCEPT ![w] = IF MatchesNow(r, on[w]) THEN @ \cup {r} ELSE @]
  /\ UNCHANGED <<scenario, now, requestVars, eventVars, correlation, pc, run, done, queue, on, history, faults>>

\* The evaluation is over: on to the next candidate, or to the caller's answer.
Leave(w) ==
  /\ Goto(w, IF w \in Run THEN "next" ELSE "idle")
  /\ on' = [on EXCEPT ![w] = 0]
  /\ found' = [found EXCEPT ![w] = {}]

\* The request that the worker may correlate its event with.
Sole(w) ==
  {r \in Request : found[w] = {r} /\ (w \in Run => r = of[w])}

\* Mutant: no look at what is there already.
CheckBlind(w) ==
  /\ pc[w] = "look" /\ todo[w] = {}
  /\ IF Sole(w) # {} THEN Goto(w, "insert") /\ UNCHANGED <<on, found>> ELSE Leave(w)
  /\ contested' = IF Cardinality(found[w]) > 1 THEN contested \cup {on[w]} ELSE contested
  /\ UNCHANGED <<scenario, now, requestVars, eventVars, correlation, run, done, queue, todo, raced, faults>>

\* createEventCorrelation looks for a correlation of the event...
Check(w) ==
  LET free == Sole(w) # {} /\ RowsOf(on[w]) = {}
      rivals == {v \in Worker \ {w} : pc[v] = "insert" /\ on[v] = on[w]}
  IN
  /\ pc[w] = "look" /\ todo[w] = {}
  /\ IF free THEN Goto(w, "insert") /\ UNCHANGED <<on, found>> ELSE Leave(w)
  /\ contested' = IF Cardinality(found[w]) > 1 THEN contested \cup {on[w]} ELSE contested
  /\ raced' = IF free /\ rivals # {} THEN raced \cup {on[w]} ELSE raced
  /\ UNCHANGED <<scenario, now, requestVars, eventVars, correlation, run, done, queue, todo, faults>>

\* ...and inserts one, as nothing in the database forbids a second.
Insert(w) ==
  /\ pc[w] = "insert"
  /\ \E r \in found[w] : correlation' = correlation \cup {[request |-> r, event |-> on[w], by |-> w]}
  /\ Leave(w)
  /\ UNCHANGED <<scenario, now, requestVars, eventVars, run, done, queue, todo, history, faults>>

\* A statement throws, or the API stops.
Fault(w) ==
  /\ faults < scenario.faults /\ pc[w] \notin {"idle", "done", "aborted"}
  /\ faults' = faults + 1
  /\ Goto(w, "aborted")
  /\ UNCHANGED <<scenario, now, requestVars, eventVars, correlation, run, done, queue, evaluation, history>>

Execute(x) ==
  \/ Approve(x) \/ Retry(x) \/ MarkExecutionStarted(x) \/ AuditStarted(x)
  \/ DirectoryStep(x) \/ UnreportedStep(x) \/ MarkExecutionFinished(x) \/ AuditFinished(x)
  \/ Candidates(x) \/ NextCandidate(x)

Evaluate(w) == ListRequests(w) \/ LookAt(w) \/ Check(w) \/ Insert(w)

Next ==
  \/ Tick
  \/ HappensOutside
  \/ \E x \in Run : Execute(x)
  \/ \E n \in scenario.ingests : IngestWithResult(n)
  \/ \E w \in Worker : Evaluate(w) \/ Fault(w)

Spec == Init /\ [][Next]_vars

----------------------------------------------------------------------------
(* What the views show.                                                     *)

EventsOf(r) == {happened[c.event].shown : c \in {d \in correlation : d.request = r}}

\* The attempt's result if it has one, as it has once it is finished, or else
\* another's.
StepsOr(a, others) == IF a.finish # Open THEN a.steps ELSE others

\* getRequestCorrelationState.
CorrelationState(r) ==
  LET p == payload[r]
      attempts == Windows(AttemptsOf(r), approvedAt[r])
      latest == LatestOf(attempts)
      expected == ExpectedSignals(p, StepsOr(latest, IF row[r] = <<>> THEN <<>> ELSE row[r][1].steps))
      matched == UNION {CollectedSignals(p, EventsOf(r), a.steps) : a \in Range(attempts)}
      complete == IF p.kind \in MembershipKinds THEN EventsOf(r) # {}
                  ELSE expected # {} /\ expected \subseteq matched
  IN  IF complete THEN "matched"
      ELSE IF status[r] \in {"executed", "failed"} THEN "missing" ELSE "pending"

\* The requests that match now.
MatchingNow(i) == {r \in Request : status[r] \in Correlatable /\ MatchesNow(r, i)}

\* The attempt that the diagnostics judge an event by: the first whose window it
\* is in, whatever that expects.
JudgedBy(r, i) ==
  LET attempts == Windows(AttemptsOf(r), approvedAt[r])
      inWindow == {k \in DOMAIN attempts : InWindow(attempts[k], happened[i].time, now, window)}
  IN  IF inWindow = {} THEN <<>> ELSE <<EarliestOf(attempts, inWindow)>>

\* mapDiagnosticObservedEvent: by that attempt's result, or the last one's if it
\* has none.
Diagnosis(r, i) ==
  LET judge == JudgedBy(r, i)
      last == LatestOf(Windows(AttemptsOf(r), approvedAt[r]))
  IN  (IF judge = <<>> THEN {"outside_time_window"}
       ELSE ReasonCodes(payload[r], happened[i].shown, StepsOr(judge[1], last.steps)))
      \cup (IF \E q, s \in MatchingNow(i) : q # s THEN {"ambiguous_request_match"} ELSE {})
      \cup (IF RowsOf(i) # {} /\ \A c \in RowsOf(i) : c.request # r THEN {"already_correlated"} ELSE {})

----------------------------------------------------------------------------
(* Properties.                                                              *)

Quiet == \A w \in Worker : pc[w] \in {"idle", "done"}
Undisturbed == Quiet /\ faults = 0

\* No event falls between the two callers: at rest, an event that one request
\* matches is correlated, whichever of the event and the end of the execution
\* came first, unless someone found several requests for it on the way.
NothingFallsBetween ==
  Undisturbed =>
    \A i \in observed \ contested :
      Cardinality(MatchingNow(i)) = 1 => RowsOf(i) # {}

\* The audit trail has the start of an execution.
Recorded(x) == \E k \in DOMAIN trail[of[x]] : IsStart(trail[of[x]][k]) /\ trail[of[x]][k].start = run[x].start

\* When an event can be on account of a request: within the window of an attempt;
WithinAttempt(r, time) == \E a \in Range(AttemptsOf(r)) : InWindow(a, time, now, window)

\* or up to a window after an end was recorded, as the attempt counts as going
\* on until then;
BeforeEndIsKnown(r, time) ==
  \E end \in Range(trail[r]) : end.finish # Open /\ time \in (end.start - window)..(end.at + window)

\* or while the request waited for its first attempt;
BeforeAttempts(r, time) ==
  /\ time >= approvedAt[r] - window
  /\ \A a \in Range(AttemptsOf(r)) : time <= a.start + window

\* or from a window before an execution whose start the audit trail does not
\* have, yet or because of a fault: the row in request_execution that told of it
\* is now another execution's.
WhileUnrecorded(r, time) ==
  \E x \in Run : of[x] = r /\ run[x].start # Open /\ time >= run[x].start - window /\ ~Recorded(x)

InTime(r, time) ==
  WithinAttempt(r, time) \/ BeforeEndIsKnown(r, time) \/ BeforeAttempts(r, time) \/ WhileUnrecorded(r, time)

CorrelationIsInTime == \A c \in correlation : InTime(c.request, happened[c.event].time)

\* The names that a match goes by although they need not be the object's: the
\* actor's, which stands in for the account's in an event that has none; the
\* member's common name, which getEventMemberReference falls back on; the new
\* name of a rename, whoever gets it.
GoesByOthersName(p, e) ==
  \/ /\ p.target.sam # Absent
     /\ \/ e.id \notin GroupEvents /\ e.data.name = Absent /\ e.sam = p.target.sam
        \/ EventMember(e).sam = e.data.memberCn /\ e.data.memberCn = p.target.sam
  \/ \E c \in Renames(p) : e.data.newName = <<"sam", c.value>>

About(p, e) ==
  LET target == Full(p.target)
  IN  e.data.sid = target.sid \/ e.data.guid = target.guid \/ e.data.memberSid = target.sid

\* A correlated event is about the account or the group of its request, unless
\* the match went by one of those three names, and its time can be on account of
\* the request.
CorrelationIsJustified ==
  /\ CorrelationIsInTime
  /\ \A c \in correlation :
       LET p == payload[c.request]
           e == happened[c.event].shown
       IN  About(p, e) \/ GoesByOthersName(p, e)

\* What the events of a request's own steps must show to be recognised.  A
\* membership event names its group by SID and account name, its member by SID
\* and DN and, when the lookup answered, by account name: what the request knows
\* of the two must be among that.  The creation of an account that stays
\* disabled does not expect the 4738 event of its password.
Recognisable(p, e) ==
  /\ p.kind = "user_create" /\ ~p.enabled => e.id # 4738
  /\ e.id \in GroupEvents =>
       \E i \in DOMAIN p.members :
         LET ofAccount == p.kind \in {"user_create", "account_change"}
             account == IF ofAccount THEN p.target ELSE p.members[i].ref
             group == IF ofAccount THEN p.members[i].ref ELSE p.target
         IN  /\ Full(group).sid = e.data.sid /\ Full(account).dn = e.data.memberDn
             /\ group.sid # Absent \/ group.sam # Absent
             /\ account.sid # Absent \/ account.dn # Absent \/ account.sam = e.subject

\* What an execution did to the directory, and knows that it did, stays
\* recognisable as its own once its end is in the audit trail: through retries,
\* also overlapping ones, and whatever events the domain controller logs for it.
\* The exceptions: the events of a step that the execution reports as failed
\* although the directory did it, which nothing expects once another step is
\* reported as completed; and an event that names the target only by the DN that
\* an execution resolved, as a directory event of a created account does, which
\* is lost when retries overlap and the audit rows of the execution that resolved
\* it are paired with another's.
OwnEventsMatch ==
  \A i \in Entry :
    LET r == happened[i].by
        e == happened[i].shown
    IN
    (/\ r # None /\ happened[i].step <= done[happened[i].run]
     /\ Recognisable(payload[r], e)
     /\ scenario.overlapping => e.id \in GroupEvents \/ AboutTarget(payload[r], e, <<>>)
     /\ \A x \in Run : of[x] = r => pc[x] \in {"idle", "candidates", "next", "done"})
    => MatchesNow(r, i)

\* When every event that the last execution left was correlated, the request
\* counts as matched: partly failed, or with steps that an earlier attempt had
\* completed.
MatchedWhenAllIsObserved ==
  Undisturbed =>
    \A r \in Request :
      (/\ status[r] \in {"executed", "failed"}
       /\ LatestOf(AttemptsOf(r)).steps # <<>>
       /\ \E i \in Entry : happened[i].by = r
       /\ \A i \in Entry : happened[i].by = r => \E c \in RowsOf(i) : c.request = r)
      => CorrelationState(r) = "matched"

\* A second correlation of an event needs two workers between the look for the
\* first and its insert.
OneRowUnlessRaced ==
  \A i \in observed : Cardinality(RowsOf(i)) <= 1 \/ i \in raced

\* What the diagnostics say of an event holds up against what the correlation did:
\* when everybody is done, an event that they call matched is correlated with the
\* request, or they say with what it is in conflict, or someone found several
\* requests for it on the way.  The exception: an event judged by the result of
\* another attempt than the one it was in.
DiagnosisExplains ==
  Undisturbed =>
    \A r \in Request : \A i \in observed \ contested :
      (/\ status[r] \in Correlatable
       /\ "matched" \in Diagnosis(r, i)
       /\ \/ JudgedBy(r, i)[1].finish # Open
          \/ JudgedBy(r, i) = <<LatestOf(Windows(AttemptsOf(r), approvedAt[r]))>>)
      => \/ \E c \in RowsOf(i) : c.request = r
         \/ Diagnosis(r, i) \cap {"ambiguous_request_match", "already_correlated"} # {}
=============================================================================
