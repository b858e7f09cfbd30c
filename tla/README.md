# Verification of the Access Control Audit Manager (ACAM)

ACAM lets people request changes of directory accounts and groups, has an
approver decide, carries the approved change out against Active Directory over
LDAP, writes an audit trail, and polls a SIEM (Elasticsearch with winlogbeat
documents) for the domain controllers' own record of changes, so that an auditor
can tell changes that were requested from changes that were not.

This directory holds TLA+ modules that model the program, configurations with
which TLC checks them on small instances, and proofs that TLAPS checks for every
value of the constants. Paths below are relative to `src/`; `api/` stands for
`src/apps/api/src/`. `PROJECT.json` maps every definition to the lines it models.

Contents: [1 Inventory](#1-inventory) - [2 Modules](#2-modules) -
[3 Runs](#3-runs) - [4 Proofs](#4-proofs) - [5 Findings](#5-findings) -
[6 Not modelled](#6-what-is-not-modelled) - [7 Plan](#7-plan)

## 1 Inventory

The system is one Node process for the API (NestJS), one for the web
application (Nuxt), a PostgreSQL database, an LDAP directory and, optionally, an
Elasticsearch index. The API takes **no lock** anywhere, opens transactions only
around small groups of writes, and never repeats a statement. Whatever two
handlers do, they can interleave at every `await`; whatever the process had in
memory is gone after a crash, and at start-up nothing looks for unfinished work.

| Component | State | Operations | Talks to | Hard behaviour | Correct when |
|---|---|---|---|---|---|
| Request workflow (`api/modules/requests`) | rows of `change_request`, `request_approval`, `request_execution` | create, decide, retryExecution, executeApprovedRequest | directory writer, audit log, correlation (all awaited) | check-then-act across awaits; three tables written by separate transactions; audit rows outside them; a crash leaves 'executing' | the three tables agree; no directory change without an audited, entitled approval; decisions are final; only failed executions are retried; an approved request comes to a result |
| Directory writer (`api/modules/directory`) | the directory itself | execute: user_create, account_change, group_change, account_update, group_membership | LDAP, one connection per write | several writes without rollback; a broken socket does not tell whether a write was applied, and it is sent again | the stored result accounts for what was changed; no account is enabled without its password; every call returns |
| Directory reader (`api/modules/directory`) | none | search, resolve, validate | LDAP | answers age | (reads; their outcomes are part of what uses them) |
| SIEM polling (`api/modules/siem`) | `siem_source_checkpoint`; in memory: the timer, the poll in flight, the cache of account lookups | timer, triggerPollNow, pollSource, health | Elasticsearch, observed events, directory reader, audit log | late and out-of-order events; a checkpoint that must not run ahead; pages of a point in time; a poll that throws; a downtime | an event that reaches the index within the overlap is stored and correlated; the checkpoint never runs ahead or back; a poll gives up its point in time, and only a failed call leaves one open; the schedule goes on |
| Observed events (`api/modules/observed-events`) | rows of `observed_event` (unique by source and event id) | ingest, ingestWithResult | correlation | a push and a poll of the same event; a crash between insert and correlation | an event is stored once and correlated once |
| Correlation (`api/modules/correlation`) | rows of `event_correlation` | correlateRequest, correlateObservedEvent | requests, audit rows, events | check-then-insert without a constraint; windows rebuilt from audit rows of overlapping attempts | an event is matched to at most one request, and to one whose window and signals contain it |
| Audit log (`api/modules/audit`) | rows of `audit_log`, only ever inserted | write, list, getObjectAudit | - | a crash between a change and its row; counted and read in two statements | no step without its row, see the workflow; a page of the list is one that there is |
| Authentication and roles (`api/modules/auth`, `api/common/auth`) | rows of `system_user` and `user_role`; tokens | login, naming an approver, replaceUserRoles, middleware and guards | LDAP | roles are asked one by one and written later; they are rows, not part of the token | what a call is served with was held since the session's login |
| User creation templates (`api/modules/user-creation-templates`, `pages/settings/user-templates.vue`) | template rows with `template_version`, their groups | list, create, update; the page's drawer | requests name a version | the version is read, then written back plus one; a view takes two statements | one version names one content |
| Schema and migrations (`api/common/database`) | `schema_migrations`; CHECK constraints | migrate | PostgreSQL | files that commit by themselves before they are recorded | repeating a file changes nothing |
| Settings, health (`api/modules/settings`) | none that others depend on | reads | all | - | (reads) |
| Read model (`api/common/read-model`) | none | timelines, views of rows | - | made of parts of different moments | a timeline does not fall behind the request |
| Logging (`api/common/logging`) | a file of entries | writeEntry, paginate | - | - | see the lists |
| Web session (`useAuth.ts`, `useApi.ts`, `middleware`, `login.vue`) | per tab a token, a profile, the page; the browser's storage | login, logout, ensureSession, every call | authentication | answers that come after a logout or another sign-in; a storage that tabs share | a tab shows the user its token is of |
| Request forms (`pages/requests/new.vue`, the editors and the typeahead) | what is typed, searched, selected and loaded | search, select, blur, load, edit, submit | directory, templates, requests | answers in any order, watchers that run after each event | what is sent is what is shown and was meant |
| Console pages (lists, request page, object audit) | rows, pages, filters, selections | load, turn, filter, poll, decide, retry, select | audit, events, logs, requests | several loads in flight; parts read in separate statements | what is shown belongs together |
| Container start (`infra/docker/start-container.mjs`) | two child processes | start, stop | - | one ends, both end | (a crash of the API, in the models) |

How they interact: `decide` and `retryExecution` await `executeApprovedRequest`,
which awaits the directory writer and then `correlateRequest`. The poller awaits
`ingestWithResult` for every event, which awaits `correlateObservedEvent`. The
audit log is written by all of them with one insert of its own. `create` has the
directory asked for the approver's roles and replaces them, as a login does, and
stamps a request for a new user with its template's version. The pages of the web
application call all of these over HTTP and keep no order among their calls.

`PROJECT.json` lists under `hazards` what can go wrong at which line, and the
properties that look at it.

## 2 Modules

| Module | Models | About |
|---|---|---|
| `RequestWorkflow` | `api/modules/requests/requests.service.ts`, the constraints of `001_acma_schema.sql` | calls in flight, one action per awaited statement |
| `RequestLifecycle` | what the workflow promises of a request | abstract specification |
| `RequestWorkflowProofs` | | theorems about `RequestWorkflow`, whatever overlaps |
| `SerialWorkflowProofs` | | theorems about `RequestWorkflow` where calls on one request do not overlap |
| `DirectoryExecution` | `api/modules/directory/directory-writer.service.ts`, `directory-session.service.ts` | one action per LDAP call, attempts, results |
| `DirectoryOperation` | what the workflow relies on when it awaits the writer | abstract specification |
| `DirectoryExecutionProofs` | | theorems about `DirectoryExecution` |
| `SiemPolling` | `api/modules/siem/*`, `api/modules/observed-events/observed-events.service.ts` | poller, poll, driver, checkpoint |
| `SiemPollingProofs` | | theorems about `SiemPolling` |
| `CorrelationSignals` | `api/modules/correlation/correlation-signals.utils.ts`, `directory-ref.utils.ts` | pure: which signals a request expects, which an event shows, whether they agree and why not |
| `ExecutionAttempts` | `api/modules/correlation/correlation.service.ts` (attempts) | pure: attempts and windows out of audit rows |
| `EventCorrelation` | `api/modules/correlation/correlation.service.ts`, `ingestWithResult` | executions, the two correlating callers, the views |
| `EventCorrelationProofs` | | theorems about `EventCorrelation` |
| `UserSessions` | `api/modules/auth`, `api/common/auth` | logins, role rows, tokens, guards |
| `WebSession` | `useAuth.ts`, `useApi.ts`, `middleware/*`, `login.vue` | tabs and their storage against `UserSessions` |
| `WebSessionProofs` | | theorems about `UserSessions` and `WebSession`: what calls are served with, and what tabs make of the answers |
| `UserTemplates` | `user-creation-templates.service.ts`, `user-templates.vue`, `useUserCreateForm.ts` | versions of templates, from the drawer to the stamped request |
| `RequestForms` | `new.vue`, `useAccountChangeEditor.ts`, `useGroupChangeEditor.ts`, `useDirectoryTypeahead.ts`, `DirectoryTypeahead.vue` | the page for a new request |
| `RequestFormsProofs` | | theorems about `UserTemplates` and `RequestForms` |
| `ConsolePages` | `pages/audit`, `pages/observed-events`, `pages/settings/logs.vue`, `pages/requests`, and the reads behind them | the pages that show what was recorded |
| `ConsolePagesProofs` | | theorems about `ConsolePages` |
| `MCRequestWorkflow`, `MCDirectoryExecution`, `MCSiemPolling`, `MCEventCorrelation`, `MCWebSession`, `MCRequestForms` | | definitions for the constants of TLC's instances; `MCWebSession` composes `WebSession` with `ConsolePages` |

Composition. `RequestWorkflow` takes the directory operation as: it may touch
the target at any time between its start and its result (`TouchDirectory`,
`DirectoryReturns`). `DirectoryOperation` states just that, and
`DirectoryExecution` is checked, and proved, to implement it. In the same way
`RequestLifecycle` is what the rest of the system sees of a request, and
`RequestWorkflow` implements it as long as callers do not overlap.

`EventCorrelation` extends `CorrelationSignals` and `ExecutionAttempts` with the
state they are about. It keeps of an execution what the correlation sees of it
(rows, audit trail, completed steps, and the events that the domain controller
logs about each step); `RequestWorkflow` and `DirectoryExecution` have the rest.
`WebSession` extends `UserSessions`, so that a tab's calls are those the API
serves. `RequestForms` extends `UserTemplates`: the page for a new request holds
the form that a template fills in. `MCWebSession` sets `ConsolePages` beside the
session in one next-state relation; they share no variable, and a behaviour
explores one of the two. (`null` is called `Null` in `ConsolePages`, so that both can
be extended by one module.)

Some modules hold *mutants*: a copy of an operator with one plausible bug,
defined just before the operator and marked `\* Mutant:`. No action uses them.
Each records a bug that the named property of a run finds when the mutant takes
the operator's place (`mutants` in `PROJECT.json`).

### RequestWorkflow

A `Call` is one HTTP call in flight; `pc[c]` is the `await` it is at and `job[c]`
its parameters and local variables.

| Code | Action |
|---|---|
| `create`: transaction of two inserts / its audit row | `Create`, `AuditSubmitted` |
| `decide`: load and check / `persistApprovalDecision` / audit row | `Decide`, `PersistApprovalDecision`, `AuditDecision` |
| `retryExecution`: request, execution, approval read and checked / audit row | `RetryExecution`, `LoadExecution`, `LoadApproval`, `AuditRetry` |
| `executeApprovedRequest`: read, `startedAt` / mark started / audit / directory / mark finished / audit / correlate | `LoadRequest`, `MarkExecutionStarted`, `AuditExecutionStarted`, `TouchDirectory` and `DirectoryReturns`, `MarkExecutionFinished`, `AuditExecutionFinished`, `CorrelateRequest` |
| `request_execution_time_chk` refuses `finished_at < started_at` | `FinishConflicts` |
| an awaited statement throws: the call ends with a 500 | `Abort` |
| the process ends and starts again | `Crash` |

Times are not numbers here. What matters of them is whether an attempt can find,
when it stores its `finished_at`, a `started_at` that another attempt took later:
`Earlier` and `startedAfter` keep just that order, and since equal milliseconds
pass the CHECK, `FinishConflicts` may happen and need not. What the model keeps
of a user is the roles; they come from the token and are constant here.

A call turned down at its first check (400, 403, 404) leaves no trace, so it is a
disabled action. The read ahead of the first check and the check itself are one
action with the arrival of the call; from there every await is a step of its own.

### DirectoryExecution

An `Operation` is one call of `execute()`. `Writes(p)` is the sequence of LDAP
writes that a payload comes to, in the order of the code; `at[o]` is the step it
is at, so the steps before it are `raw.steps` completed, and `attempt[o]` the
attempt of that step. The directory is what it holds of one account (`facts`).

| Code | Action |
|---|---|
| `execute` up to its first await: configuration, the check of the connection ahead of a password | `Execute` |
| a lookup outside the `try` (its error becomes a result that says nothing changed) | `FindTarget` |
| a lookup inside it (its error becomes a failed step) | `FindMember` |
| `runLdapWriteStep`: answered / refused / lost with an error the retry does not know / socket broken, first or second attempt | `Completes`, `Refused`, `ConnectionLost`, `SocketBreaks` |
| `buildLdapFailureResult` | `Fails` |

`SocketBreaks` and `ConnectionLost` choose whether the directory applied the write:
the first stands for the four messages that `isRetryableLdapSocketError` recognises,
the second for any other loss of the connection (a timeout, a broken pipe), which
the code treats as it treats the server's refusals. `unanswered` remembers that an
attempt of the current step ended in one of the two. `Refused` is the server's own
answer, or a connection that was never made. The changes of an account (`Change`)
include those of `enabled` and `userAccountControl`, so other requests may enable or
disable the account between the writes of a creation. That a modify of other
attributes sets or clears no password is what Active Directory sees to.
`FindMember` keeps the attempt number at 1: `findDn` is not repeated.

### SiemPolling

| Code | Action |
|---|---|
| `SiemPollerService`: the timer, `triggerPollNow`, `runScheduledPoll` with its `finally`, `onApplicationBootstrap` | `Interval`, `Manual`, `Settles`, `Restart` |
| `getOrCreate`, `toCursor` | `Load` |
| `fetchBatch`: bounds, `openPointInTime` | `Query` (`LowerBound` is `getEffectiveQueryLowerBound`) |
| the search, normalization, account lookups, `closePointInTime` after the last page | `Search` |
| `ingestWithResult` / `correlateObservedEvent` / `updateSuccess`, per event | `Store`, `Correlate`, `Save` |
| the last `updateSuccess`, the audit row of a manual poll | `Finish`, `Audit` |
| the `catch` of `pollSource` | `Dispose`, `UpdateError`, `Audit` |
| a call in the `try` throws / a call outside of it throws / the process ends | `Throw`, `Reject`, `Crash` |

`Reject` deserves a word: `runScheduledPoll` is called with `void` and has no
`catch`, so when `getOrCreate`, `updateError` or the audit row of a failure
throws, the rejection of a poll that the timer began or joined is unhandled and
Node ends the process, with every request that is executing.

Times are integers, and events of one time are told apart only by being
different documents: the order of a page among equal times is arbitrary, which
is what `_shard_doc` gives across points in time. `prompt`, `examined` and
`rejected` are history variables that no action reads, but for `Store`, which
reads `examined` to know that a row found matched was correlated.

An event is *prompt* when it reaches the index with `now + Skew - t <= overlap`
and the overlap is above 0. The `Skew` is needed: the query's lower bound is the
checkpoint, that is a domain controller's clock, minus the overlap, so a
controller whose clock is ahead by *s* moves the checkpoint ahead by *s* and
leaves `overlap - s` for late events of the others. Without `Skew` in that
definition TLC finds an event passed over for good; with `Skew = 0` the plain
definition holds.

### CorrelationSignals, ExecutionAttempts and EventCorrelation

`CorrelationSignals` has the code's matching rules as functions of sets: event
numbers, payloads and completed steps to signals, and events to signals. A value
is `Absent` or names something, since the code compares trimmed, lower-cased
strings and skips empty ones. `buildAttemptsFromAuditRows` goes through the audit rows
with one current attempt. `ExecutionAttempts` says what comes of that row by row: an
end finishes the start right before it, or stands for an attempt of its own
(`OpenedBy`), and a start stays unfinished if another start or nothing comes after
it (`Completes`). So an attempt has the number of the row that completes it, and the
trail is read without recursion.

| Code | Action of `EventCorrelation` |
|---|---|
| approval, retry; mark started / audit / directory steps / mark finished / audit | `Approve`, `Retry`, `MarkExecutionStarted`, `AuditStarted`, `DirectoryStep`, `UnreportedStep`, `MarkExecutionFinished`, `AuditFinished` |
| `findCandidateObservedEventsForRequest`, the loop of `correlateRequest` | `Candidates`, `NextCandidate` |
| `ingestWithResult` | `IngestWithResult` |
| `findMatchingRequestIdsForEvent`: the requests, then each in turn | `ListRequests`, `LookAt`, `Sole` |
| `createEventCorrelation`: select / insert | `Check`, `Insert` |
| a throwing statement or the end of the process | `Fault` |
| others change the directory / the clock | `HappensOutside`, `Tick` |

`Logged` is the domain controller: which events it writes for a step. It is an
assumption about Windows auditing, taken from the event numbers and fields that
the code and its fixtures expect. `happened` is its log; an event is ingested at
any time after it happened, and again as long as it has no correlation. A step that
the directory did although the connection broke over its answer (`UnreportedStep`)
leaves its events too: a second attempt may complete it, or the execution reports it as
failed. An entry of `happened` has the execution and the number of the step that
left it, so that a property can ask whether the execution knows of it. `Normalised`
is the normaliser: for lack of an account name it takes `user.name`, which is whoever
made the change, for ACAM's own writes the scenario's `actor`.
`CorrelationState` and `Diagnosis` are what the views show, the latter with the
conflicts it names (`ambiguous_request_match`, `already_correlated`); both fall back on
another result when the attempt they look at has none. They are read at one moment,
where the code reads part by part.

### UserSessions and WebSession

A `Call` is a slot for one call to the API; `stage` is how far the API is with it.
`FindAccount`, `AskRole`, `HaveRoles`, `UpsertUser` and `IssueToken` are a login;
the first four are also `NameApprover`, which resolves and replaces the roles of
whoever is named in a new request. `Serve` is any other call: middleware, guard,
answer. `FailCall` is a call that fails, with the 401 that the middleware makes of
a database error.

A `Tab` holds page, token and profile; `storage` is shared by the tabs and read
once, by `Open`. `Navigate` runs the route middleware, which waits for `/auth/me` if
the session was not checked. Answers are taken when they come (`LoginAnswered`,
`MeAnswered`, `ApiAnswered`): the code does not tell which session a call was
for. `stale` and `superseded` record that this mattered.

### UserTemplates, RequestForms and ConsolePages

Promises and timers are counters of calls in flight; watchers run at the end of
the event that changed what they watch, and are part of that event's action
(`Watched`, `Followed`).

| Code | Action |
|---|---|
| the service: name check / read / write / view in two statements | `CheckName`, `ReadExisting`, `Write`, `ReadRows`, `ReadGroups` |
| the page of the templates | `Refresh`, `OpenCreate`, `OpenEdit`, `Edit`, `Save`, `SaveAnswered`, `ListAnswered` |
| the form for a new user and its submission | `OpenForm`, `TypeName`, `TypeSam`, `TypeUpn`, `ToggleGroup`, `SelectTemplate`, `Submit`, `ResolveReference`, `StoreRequest` |
| the boxes: typing, timer, answer, selection | `Type`, `StartSearch`, `SearchAnswered`, `SelectApprover`, `SelectGroup`, `SelectMember` |
| the editors: target chosen or left, loaded, edited, sent | `SelectTargetUser`, `BlurTargetUser`, `AccountAnswered`, `EditField`, `ToggleCurrentGroup`, `SendAccountChange`, and the same for a group |
| lists: count, rows, or one read | `CountRows`, `ReadRows`, `ReadLog`, `ReadRequests` |
| lists: turn, filter, refresh, poll | `TurnPage`, `EditFilter`, `ApplyFilters`, `ClearFilters`, `Refresh`, `PollNow`, `PollAnswered`, `ListAnswered` |
| a request: its four reads, twice; the buttons | `ReadPart`, `DetailAnswered`, `TimelineAnswered`, `Decide`, `RetryExecution`, `Accept`, `PostAnswered` |
| an object's audit | `TypeText`, `StartSearch`, `SearchAnswered`, `SelectObject`, `BlurObject`, `ChangeType`, `ClearObjectSelection`, `ObjectAnswered`, `TurnTimeline` |

Of a form one field stands for those that are copied without a rule of their own;
`enabled` and the expiry have theirs. The form takes an account for enabled when the
directory does not tell (`FormOf`), and shows the expiry to the minute by the
browser's clock, which is put back once (`Back`, `Hour`) and cannot be read back from
a year of five digits on (`Far`): `ToLocal`, `FromLocal`. Of the console, `Advance` stands for the API's work on a request
and writes a status and its audit row together, which the API writes one after the
other; the properties of the pages use no more of the two than that neither goes back.
`Slice` orders the rows of a list as they were written, which for the audit list is by
`created_at`, of rows that no two writers stamped alike.
Texts are members of a small set: too short, part of every name, a label, an
account name.

## 3 Runs

`expect: pass` unless noted. Symmetry is used in `siem` and `forms`, which check no
liveness: of events that are not looked up, and of the slots for calls, which
nothing in the modules tells apart.

| Run | Module, configuration | Question and bounds |
|---|---|---|
| `overlapping` | `MCRequestWorkflow`, `workflow_overlapping.cfg` | What holds in every interleaving? One request, four calls in flight, one user who may do everything, one fault anywhere. |
| `liveness` | `MCRequestWorkflow`, `workflow_liveness.cfg` | Does an approved request come to a result? Four overlapping calls, no faults. |
| `serial` | `MCRequestWorkflow`, `workflow_serial.cfg` | What more holds while calls on one request do not overlap? Two requests, three users with different roles, four calls, one fault. Calls on different requests do overlap. |
| `two_decisions` | `MCRequestWorkflow`, `workflow_two_decisions.cfg`, violation | Is a decision final? Three calls, no fault. |
| `two_retries` | `MCRequestWorkflow`, `workflow_two_retries.cfg`, violation | Does a retry begin from a failed execution? Four calls, no fault. |
| `directory` | `MCDirectoryExecution`, `directory.cfg` | What does a result say of the directory? Two concurrent operations, payloads of all five kinds, two groups, with and without DNs; every write may be refused, lose its socket or lose its connection unrecognised. |
| `directory_partial` | `MCDirectoryExecution`, `directory_partial.cfg`, violation | Is `partialChangesPossible: false` true? One operation. |
| `siem` | `MCSiemPolling`, `siem.cfg` | Is every prompt event in reach? Three events, pages of two, overlap 2, skew 1, lookback 3, events up to 2 late, clock to 3, two faults, as in a poll whose `catch` throws too. |
| `siem_liveness` | `MCSiemPolling`, `siem_liveness.cfg` | Is every prompt event examined at last? Two events, one of them looked up, overlaps 0 and 2, pages of one, clock to 2, one fault. |
| `correlation` | `MCEventCorrelation`, `correlation.cfg` | Does an event find its request, and no other? Requests of all kinds with a retry; two requests, of which one takes the other's event for its own too; two ingests of one event; overlapping executions, two of a creation and three of an edit; steps done and reported as failed; time; somebody else's events, some under the name of the request's account; one fault: a scenario each. |
| `session` | `MCWebSession`, `session.cfg` | Whose session is it, and with which roles? One or two tabs, two calls, a directory user and the local administrator, tokens of one tick, changing groups, failing calls: a scenario each. And is what a page shows what was recorded? Four lists with three loads; a request with three loads; objects of both kinds: a plan each. |
| `forms` | `MCRequestForms`, `forms.cfg` | Is what a form shows and sends what was meant? Two administrators' saves; a requester beside a save; two targets with two loads; approvers; members: a scenario each. |

What the properties say:

- `overlapping`: `DirectoryTouchIsAccountedFor` (the trail is always ahead of the
  directory), `TablesAgree` (of three tables that no common transaction writes),
  `RetryFollowsAnAttempt`, `StuckOnlyAfterFault` (a request is abandoned in
  'executing' only by a crash or a throwing statement, never by overlap alone,
  although overlap can have an attempt's `finished_at` refused).
- `liveness`: `ApprovedIsExecuted`.
- `serial`: `DecisionIsFinal`, `DatesTellTheStory` and `ImplementsLifecycle`
  (refinement of `RequestLifecycle!Spec`), with several roles.
- `directory`: `ResultAccountsForChanges`, `NoPartialChangesIsTrueWhenAnswered`,
  `CreatedUserIsNotCompletedByRetry`, `EnabledWithoutPasswordWasAsked`,
  `UnprotectedCreatesNothing`, `EveryOperationReturns`, and `ImplementsOperation`
  (refinement of `DirectoryOperation!Spec`).
- `siem`: `PromptEventStaysInReach`, `CheckpointIsEarned`, `CheckpointMovesForward`,
  `PointInTimeIsGivenUp`, `SchedulerStaysArmed`.
- `siem_liveness`: `PromptEventIsExamined`.
- `correlation`: `NothingFallsBetween` (an event that one request matches, when
  everything is at rest, has a correlation, whichever of execution and ingest came
  first), `CorrelationIsJustified` (by object, unless the event went by a name that
  is not its object's, `GoesByOthersName`, and by time: the event lies in the
  window of an attempt, or before a recorded end, or before the first attempt, or
  around an execution whose start is not in the trail), `OwnEventsMatch` (what
  an execution did and knows that it did stays recognisable; not so for the events
  of a step it reports as failed, nor for an event that names a created
  account only by DN when the creation's retries overlap, see below), `MatchedWhenAllIsObserved` (a request
  whose events all came counts as matched, also one that partly failed),
  `OneRowUnlessRaced`, `DiagnosisExplains` (an event that the diagnostics call
  matched is correlated with the request, or they name the conflict).
- `session`: `RolesEndWithTheToken` (a call is served with roles that the account
  held since the rows' resolution began, from rows not older than the token's
  login), `SessionIsOneUsers`, `PageSuitsUser`, and `ConsoleAgrees` (lists, a request
  and the audit of an object show what was there when they were asked for, under
  the filters and labels that they say).
- `forms`: `TypeOK`, which bounds the versions by the saves and keeps names apart,
  `VersionNamesOneContent`, `SelectionAgrees`, `NothingUnasked`.

Why the bounds are enough. *Workflow*: a request needs one call to be created, one
to be decided and one to be retried, and the fourth is the one that overlaps any
of them; four calls reach two decisions at once, two retries at once, a decision
beside a retry, and an attempt whose result is refused. The properties of one
request do not mention others, and handlers share nothing but the rows of their
request, so a second request matters only for the refinement. *Directory*: two
operations are a request and its retry, or two requests on one account; a
payload has at most a creation, a password, an enabling and one membership, or
two of one kind, so that every step has a step before and after it. *SIEM*:
three events with pages of two give a full and a partial page, an event indexed
while an older point in time is walked, and two events with one timestamp on
either side of a page; a lateness of 2 with overlap 2 and skew 1 lies on both
sides of promptness; events come to lie beyond the lookback. *Correlation*: an
execution and an ingest are the two callers there are, a second ingest is the one
that can race, a second request the one that contests; an attempt ends, overlaps
or follows another, so three are enough for a trail. *Session*: an answer for
another session needs two sessions, a check and a sign-in in flight at once, and a
second tab only shares the storage. *Pages and forms*: a late answer needs two loads, and a
third to come after it; a lost version needs two saves; the five accounts of the
run have an expiry on the minute, between two, in the repeated hour, after it and in a
year of five digits, and are enabled, disabled or neither as far as the directory tells. The scenarios of these
three runs keep hazards apart that do not touch each other; each lists its bounds
as fields. Every bound is named: `MaxFaults`, `MaxLate`, `MaxTime`, the sets
`Call`, `Operation`, `Event`, and the fields of a scenario or plan (`horizon`,
`faults`, `changes`, `saves`, `lists`, `fills`, `texts`, `loads`, `writes`, `edits`).
`MaxAttempts` is the code's own.

Fairness, and why the code justifies it (`EventCorrelation`, `WebSession` and the
pages and forms have none: nothing in them is bound to be called again, and their properties
are about what may be shown or stored at any time):

- `RequestWorkflow`: weak fairness of each handler's own steps. Promises settle,
  and the event loop runs every handler whose await is over. PostgreSQL must
  answer or drop the connection. Arrival of calls, `TouchDirectory`, `Abort` and
  `Crash` are not fair.
- `DirectoryExecution`: weak fairness of each operation's steps, which says that
  an LDAP call is answered or its socket breaks. The client is built without a
  timeout (`directory-session.service.ts:57`), so the code itself does not
  ensure this: against a server that accepts a connection and stays silent an
  operation, and its request, waits for ever.
- `SiemPolling`: weak fairness of the poll's awaited call, of the timer and of
  `Restart`. The last is an assumption about operations: `docker-compose.yml`
  sets no restart policy. The clock is not fair.

`CHECK_DEADLOCK FALSE` stands where the system really may stop: when no call and
no operation is left, and when the bounds of a scenario are used up. `SiemPolling`
never stops, and deadlock is checked there.

## 4 Proofs

TLAPS proves, for **every** value of the constants (requests, users, calls, tabs,
operations, payloads, events, pages, templates, directories) and every number of
faults:

| Module | Theorem | Statement |
|---|---|---|
| `RequestWorkflowProofs` | `TypeCorrect` | `Spec => []TypeOK` |
| | `TouchAccounted` | `Spec => []DirectoryTouchIsAccountedFor` |
| | `TablesAlwaysAgree` | `Spec => []TablesAgree` |
| | `RetriesFollow` | `Spec => []RetryFollowsAnAttempt` |
| | `NothingElseGetsStuck` | `Spec => []StuckOnlyAfterFault` |
| `SerialWorkflowProofs` | `DatesAlwaysTellTheStory` | `~Overlapping => (Spec => []DatesTellTheStory)` |
| | `DecisionStands` | `~Overlapping => (Spec => DecisionIsFinal)` |
| | `LifecycleImplemented` | `~Overlapping => (Spec => ImplementsLifecycle)` |
| `DirectoryExecutionProofs` | `TypeCorrect` | `Spec => []TypeOK` |
| | `ResultAccounts` | `Spec => []ResultAccountsForChanges` |
| | `NoPartialChanges` | `Spec => []NoPartialChangesIsTrueWhenAnswered` |
| | `OperationImplemented` | `Spec => ImplementsOperation` |
| | `EnabledWithoutPassword` | `Spec => []EnabledWithoutPasswordWasAsked` |
| | `UnprotectedTouchesNothing` | `Spec => []UnprotectedCreatesNothing` |
| | `RetryDoesNotComplete` | `Spec => []CreatedUserIsNotCompletedByRetry` |
| `SiemPollingProofs` | `TypeCorrect` | `Spec => []TypeOK` |
| | `NoPromptEventIsMissed` | `Spec => []PromptEventStaysInReach` |
| | `CheckpointIsAlwaysEarned` | `Spec => []CheckpointIsEarned` |
| | `CheckpointOnlyMovesForward` | `Spec => CheckpointMovesForward` |
| | `PointInTimeIsAlwaysGivenUp` | `Spec => []PointInTimeIsGivenUp` |
| | `SchedulerIsAlwaysArmed` | `Spec => []SchedulerStaysArmed` |
| `EventCorrelationProofs` | `OneRow` | `Spec => []OneRowUnlessRaced` |
| | `NothingFalls` | `Spec => []NothingFallsBetween` |
| | `InTimeOnly` | `Spec => []CorrelationIsInTime` (the half of `CorrelationIsJustified` that needs no assumption on names) |
| | `Justified` | `Spec => []CorrelationIsJustified` |
| | `CorrelationTypeCorrect` | `Spec => []TypeOK` |
| | `Diagnosed` | `Spec => []DiagnosisExplains` |
| `WebSessionProofs` | `TypeCorrect` | `Spec => []TypeOK` |
| | `RolesAreTheAccounts` | `Spec => []RolesEndWithTheToken` |
| | `NoMixedSessions` | `Spec => []SessionIsOneUsers` |
| | `NoPageWithoutSession` | `Spec => []PageSuitsUser` |
| `RequestFormsProofs` | `Selection` | `Spec => []SelectionAgrees` |
| | `Versions` | `Spec => []VersionNamesOneContent` |
| | `Unasked` | `Spec => []NothingUnasked` |
| | `FormsTypeCorrect` | `Spec => []TypeOK` |
| `ConsolePagesProofs` | `ConsoleShowsWhatIs` | `ConsoleSpec => []ConsoleAgrees` |

Assumptions: those the modules declare, each of which TLC evaluates in the runs.

- `None` is none of the values beside which it stands (no user, request, event, set of
  events, page, token, profile, row of a template, view of a target), and `Null` none
  of the console's (filter, post, decision, status, time): `null` is nothing else in
  the code either. Payload groups are not named like the account's own facts, and the
  local administrator is no account of the directory.
- Payloads are of their type and come to at least one write, a membership payload
  has one entry, a new user's groups are a list of members
  (`parseChangeRequestPayload`), and a payload has finitely many changes.
- Groups give no other roles than those of `AUTH_ROLE_MAP_*_GROUP_DNS`; a token
  lives for at least one tick; a page of the index holds at least one event;
  overlap, lookback and skew are no negative numbers; events are finitely many.
- Scenarios name calls, tabs, users, requests and templates that there are.
- For `Justified` alone, about the directory (`ObjectAssumption`, `PayloadAssumption`,
  `OutsideAssumption`): GUIDs, SIDs, DNs and account names are unique; a request's
  target and members are objects; what the domain controller writes into an event
  are the identifiers and names of one object and one member. Nothing is assumed of
  the name of whoever made the change, of common names, or of the new names that
  accounts get: a match by one of these may be about somebody else, and
  `GoesByOthersName` says so.

`SerialWorkflowProofs` has one hypothesis more, `~Overlapping`: callers wait for
the answer to a call on a request before they send another on the same one. The
code does not enforce it, and without it `two_decisions` and `two_retries` refute
what is proved there.

The arguments:

- *Workflow types* (`TypeInv`). `TypeOK` alone is not inductive: a handler that
  stores `verdict` or `outcome` must be known to have set it, which `LocalsSet`
  says of the program points where it matters.
- *The trail* (`TrailInv`). That a touch is accounted for cannot be shown from
  the touch itself, as a retry relies on an approval audited by another call,
  maybe before a crash. `HandlerAt` says what must have been audited for a
  handler to be where it is; `RowTrail` says what must have been audited for the
  rows to be what they are, which is what a retry reads. Audit rows are only
  added and `approver` is set once, before any decision; so what was accounted
  for stays so (`TrailGrows`, `TrailStays`), and the handlers that take no part
  in a step keep theirs (`OthersKeepTrail`).
- *The tables* (`TablesInv`). Adds that a handler past the approval's check finds
  the decision made, whoever overwrites it meanwhile (`Decided`).
- *Retries* (`RetryInv`). Rows of `executed` and `failed` are preceded by an
  audited start (`AttemptedRows`), and a call that only now arrives has written
  no row (`RowsOfArrived`), so the start a retry follows is of another call.
- *Nothing stuck* (`WorkInv`). A row that shows 'executing' belongs to the call that
  stored its start last (`Worked`): that call is at work or was ended by a fault, and
  its `finished_at` is not one that the CHECK can refuse, since no start was stored
  after its own. For this a call that is about to store its start must not be
  among those whose `finished_at` that start puts at risk.
- *Where calls wait* (`SerialInv`). What a handler checked stays true until it
  ends: `SerialAt` says so of each program point, `Alone` that no other handler is
  at work on the request, `SerialRow` what the rows of a request at rest say. One
  lemma (`Local`) shows that a step is about one request and leaves the others
  alone. The refinement maps each handler's step to a step of `RequestLifecycle`
  or to a stutter.
- *Directory* (`Inv`). `Account(o)` relates the program point, step, attempt and
  result of an operation to the set of writes applied; the open case is a write
  that an unanswered attempt may have applied. `OthersKeepAccount`
  disposes of interleaving: an operation's account mentions only its own
  variables. Refinement
  (`OperationImplemented`) follows from the same invariant.
- *The created user* (`CreationInv`). An applied creation leaves the account in the
  directory and an applied password the password (`CreationAt`), a creation of an
  account that is there is refused, and so no two operations have created it
  (`CreatedOnce`). The enabling comes after the password in `Writes`
  (`CreatePlan`), so that where an account is enabled without one, another operation
  enabled it; and a retry, which begins with the creation, ends there.
- *Polling* (`IInv` of `SiemPollingProofs`). `PitInv` follows the point in time,
  `PositionInv` the checkpoint and the two positions a poll holds, `PageInv` what was
  fetched and is in hand, `IndexInv` the clocks. `ReachInv` follows a prompt event that
  still waits: whatever position a later poll may start from does not lie further
  ahead of it than the overlap, no page was fetched that should have held it, and
  what was fetched before it does not push the checkpoint past it. That every poll gives its point in time up needs `disposePit` to swallow its
  errors (`Closes`); where that call may throw, the invariant is refuted by two
  faults in one poll, which is why the run has two. A close that fails and an
  open whose answer is lost leave the point in time to its keep-alive: `strays`
  counts them, and the property bounds them by the failed calls.
- *Correlation* (`CorrelationInv`). `OneEach`: unless raced, an event has one row or
  one worker about to insert it; `Inserters` says that such a worker found exactly
  one request. `NothingForgotten` is the reason why nothing falls between the
  callers: for an event that matches a request and has no row, somebody still
  *owes* an answer (`Owed`), an execution that has yet to look for its candidates or
  a worker that considers it and has the request before it. At rest nobody owes
  anything, so every such event has its row. How an attempt is read out of the
  trail stays unexpanded: all that matters is which steps change it
  (`MatchesKept`), and that the clock only ends matches (`MatchesLater`).
- *Correlation in time* (`TimeInv`). A match is found in one step and inserted in a
  later one, and in between the attempt that it was found in can change: it can
  get its end, or vanish because another execution took the row in
  request_execution. So what must be kept is `InTime`, whose four cases hand over
  to each other: an attempt that is going on becomes one with a recorded end
  (`BeforeEndIsKnown`), or is nowhere until its start is audited
  (`WhileUnrecorded`). For this the invariant relates the three places that tell
  of an execution: what it knows itself (`RunsOk`), its audit rows (`TrailsOk`) and
  the row (`RowsOk`). The lemmas on `FromTrail` (`AttemptsAre`, `StartsOfPast`) say
  which attempts a trail of any length and mixture gives.
- *Whose steps* (`TypeInv`). `TypeOK` is inductive together with `CorrelationInv`
  and `TimeInv`: an execution that ends finds a row to take the start from because of
  `RunsOk`. That a plan is a sequence at all (`StepsAre`) rests on the k-th group with a
  DN being one (`NthIn`): the least position that has k of them up to it.
- *About the target* (`AboutInv`). Three things are related: every event in the log
  names one object and, perhaps, one member (`Told`, shown for each event that
  `Logged` allows by `LoggedTold`); every step of a plan names the target where
  `ResolvedDn` looks for it (`StepTarget`), and `WindowSteps` says that no window
  tells of other steps, whichever audit rows were paired; and a payload's target is
  one object. Whatever made an event match, it is a name that the event shares with the
  target (`MatchIsAbout`): an identifier or a name of the object's own, and then the
  two objects are one, or one of the three that may be another's (`AboutIs`,
  `MemberIs`).
- *Diagnosis* (`Diagnosed`). There is an earliest among the windows the event is in,
  whatever rows were paired (`EarliestIsOne`), and what `ReasonCodes` calls matched by
  its result matches for the correlation too (`JudgedMatches`). So the request is
  among those that match; unless the diagnostics call the event ambiguous it is the
  only one, and then `NothingForgotten` has a row for the event, which is the
  request's unless they say already correlated.
- *Sessions* (`IInv` of `WebSessionProofs`). That a served call's roles were held
  cannot be seen from the call: they are rows that some resolution wrote, perhaps
  one that began before the session's own login and ended after it. So `RowsOk`
  says of every user's rows that each role was held since their resolution began
  (`Backed`); `Resolves` says the same of what a call under way has found so far;
  and `TokenIn` says of every token, in a call, an answer, a tab or the storage,
  that its user's rows are no older than the login that it is from, and not empty.
  Each part takes rows, memberships and time as parameters, and is kept by
  whatever lets rows only get newer, remembers memberships and lets time go on
  (`Later`, `CallsLater`): this disposes of the interleaving of resolutions, and
  what a tab does to its calls concerns none of it (`RelabelledOk`).
- *Tabs* (`TabInv`). On top of that invariant, an answer that is good is about the
  user of the token it was asked with or brings (`Consistent`), and a call that
  will end in a page is a check of a tab that waits for it; the two properties
  are part of the invariant themselves.
- *The request page* (`PageInv`). Every event is followed by the watchers, so the
  proof goes through them (`ThroughWatchers`): what a box says before and what the
  event made of it determine whether the selection is kept or cleared
  (`WatchedAgrees`), and each handler is shown to hand the watchers a page on
  which that is true. `Tracks` says that the form differs from the target only in
  what was touched, shown by the clock or taken for enabled, and `SentAsMeant` remembers
  it when it is sent. The lemma `RoundTrip` shows that the expiries which the form
  gives back as they were are exactly those that `GivenBack` describes.
- *Templates* (`TemplateInv`). `VersionsOk` says of each template that was not
  overwritten that its row is the last of its versions; `Seen`, `ReadOk` and `RefOk`
  say that a view, a row in hand and a reference are not of a future version, and
  were written. Saves let templates only grow (`Grown`), which keeps all three,
  wherever the views are: in calls, on pages, in the form. `UpnOk` is the UPN's
  half of `NothingUnasked`.

- *Counting saves* (`ShapeInv`, `CountInv`). That a version never exceeds 1 plus the
  number of saves is not inductive: an update that has read its base is about to
  write a higher version than any there is. `Bound` is what a version can be by now:
  1, plus the saves that were spent, less the calls that were sent for one and may
  still write (`Writing`); a call that writes raises it by one, a call that fails too.
  `VersionsWithin` says of every row, view and call that it keeps the bound, so that
  `base + 1` is within the next one. `SavingOk` says that a page's resting button and
  the one call that began with it belong to each other; `NamesDiffer` needs to know
  that a creation has no identifier yet, so that `Taken` compares with every row.
  `ShapeInv` adds to `PageInv` what a box may offer and wait for.
- *The console* (`ListInv`, `DetailInv`, `ObjectInv`). Rows are only ever added, so
  what a call has read stays a part of what there is: a page of entries is a page of
  the rows as they were, and a total no more than they are. Of a request at most
  one load is under way, and none while a decision is; what a load has read is no
  later than the request, and the timeline is read after what the page shows above
  it. For the object the watchers are what
  counts: the view goes with its label, the results with text and kind, and a new
  view begins on its first page. The three pages have no state in common, and
  each is shown to be left alone by the steps of the others.

Only model-checked, and why:

- liveness (`ApprovedIsExecuted`, `EveryOperationReturns`, `PromptEventIsExamined`) is
  out of the prover's reach;
- `OwnEventsMatch` and `MatchedWhenAllIsObserved` depend on more than uniqueness:
  on how much of an execution an attempt tells when retries overlap, on which of a
  step's alternative events were logged, and on the events of earlier attempts.
  Trying to prove the first showed its limit. Two overlapping retries of a user
  creation write start 1, start 2, end 1: the code closes the attempt of start 2
  with the end and the steps of execution 1, and leaves the attempt of start 1
  without steps. A 5136 or 5137 event of the new account from before the window of start 2 is
  then in the window of an attempt that does not know the account's DN, and
  matches nothing. `OwnEventsMatch` therefore asks of overlapping retries only for
  the events that the request recognises without its steps, and one scenario of
  the run holds exactly this case (TLC finds the violation in it when the
  condition is dropped).

## 5 Findings

Each is a run that is expected to end in a violation.

1. **Two decisions** (`two_decisions`, `requests.service.ts:219`). `decide` checks
   `approval.decision` and stores the new one later, in a statement that names
   the approval's id alone. Of two overlapping decisions the second overwrites
   the first, although "This request has already been decided.": a request can
   end up rejected and executed.
2. **Two retries** (`two_retries`, `requests.service.ts:279`). The status is read,
   then audited, then overwritten. Of two overlapping retries the second begins
   an execution that is executing or even executed, although "Only failed
   request executions can be retried.": the directory operation runs twice.
3. **Partial changes forgotten** (`directory_partial`,
   `directory-writer.service.ts:635`). A first write that is applied while its
   connection is lost with an error that is not one of four messages, or while its
   socket breaks and the second attempt is refused, gives a result that says
   `partialChangesPossible: false`, and the page does not warn before a retry.
   `NoPartialChangesIsTrueWhenAnswered` is what does hold.

What the models show and no document contradicts: a request abandoned in
'executing' by a crash stays there, since a retry refuses it and nothing else
looks for it; an approval whose audit row throws leaves a request approved that
is never executed and can be neither decided nor retried; a new user whose
creation stopped halfway cannot be completed by a retry
(`CreatedUserIsNotCompletedByRetry`); events older than the lookback after a
downtime are skipped; with an overlap of 0, events that share the checkpoint's
timestamp may be skipped; a failed account lookup is remembered until the
process ends.

Correlation: with three overlapping executions of a request, two may begin before
either has written its audit row; the second takes the row in request_execution,
and the first is then no attempt at all until its own audit row is there
(`correlation.service.ts:735`). An event that was found on its account in the
meantime is inserted for a window that no attempt has; `WhileUnrecorded` names this
case, without which the proof fails and TLC, with a larger scenario than that of the
run, finds the counterexample. Two callers can insert a correlation of one event each, there being
no unique constraint on `observed_event_id`; an event that several requests match
when it is looked at stays without one, also when only one of them matches later;
the 4738 event of a password is not expected for an account that is created
disabled (`correlation-signals.utils.ts:82`), so it stays unmatched. An event
without an account name of its own, such as 5136, 5137 and 4781, is taken to be about
whoever made the change (`elastic-winlogbeat-normalizer.ts:116`): what a user does to
others, or the API to others under that user's name, can be correlated with a
request about the user. The events of a step that the directory did and the execution
reports as failed match nothing once another step of the attempt is reported as
completed, and the request counts as matched or missing without them.

Sessions: an answer to `/auth/me` that comes after a logout or another sign-in is
taken (`useAuth.ts:63`), and a late 401 ends the session that has begun since
(`useApi.ts:28`); the branch for a 401 in `ensureSession` (`useAuth.ts:74`) is never
reached, because the error was rewrapped without its status; a database error in
the middleware answers 401 and logs the tab out.

Templates: of two overlapping updates a version number is lost, so that two
contents carry the same one; a view taken between the two statements of an update
pairs one version's groups with another's number; a request is stamped with the
template's version at the time it is stored, which may be later than that of the
form.

Pages: three kinds of expiry are sent as a change nobody made (`request-create.ts:296`):
one that is not on the minute, one in the hour that the clock shows twice at the end
of summer time, which becomes an hour earlier, and one in a year of five digits, which is
taken away; and so is `enabled: true` for an account of which the directory does not
tell whether it is (`request-create.ts:283`, `useAccountChangeEditor.ts:229`). `GivenBack`
and `SentUntouched` name these cases, and nothing else is sent unasked; a load that was overtaken replaces the target chosen
later, and if it fails clears it; a filter of the audit list or of the logs that
matches nothing takes the toolbar away with the rows (`AsyncState.vue`), and only
opening the page again brings it back; the refresh button of the events hands the
click to `loadEvents`, which goes to the first page whatever page is shown; the
audit of an object can stand under the other kind of object. The properties name
each of these as an exception and say what holds besides.

Two smaller ones have no property: `initialGroups` without a distinguished name
are skipped without a step (`directory-writer.service.ts:183`), and `approved_at`
comes from the API's clock while `submitted_at` is the database's
(`requests.service.ts:223`), so that the CHECK can refuse a prompt approval.

## 6 What is not modelled

- Settings and health: reads of the configuration and of other services. The
  health check is a second caller of `getOrCreate`; the throwing load that its
  race produces is `Reject`.
- The migrator: it runs once, before the API starts. Its files hold their own
  COMMIT, so a crash can leave one applied and unrecorded; they hold nothing but
  `CREATE IF NOT EXISTS`, `CREATE OR REPLACE` and `ON CONFLICT DO NOTHING`, and
  running one again changes nothing. A model would restate SQL.
- `start-container.mjs`: starts and ends the two processes; the models have its
  effect as a crash and a restart.
- Which requests and events the audit of an object finds (`matchesRequestToObject`
  and its kin), the correlation state beside each event of a list, the fields of
  views: derived from rows at the time of the read, by rules that nothing else
  uses.
- How an LDAP or Elasticsearch filter is written, which attributes are read, which
  certificates are trusted; passwords and signatures are right or wrong.
- Data without consequence for control: names, attribute values, messages,
  payload texts, most fields of a normalized event. A document that the driver
  rejects by its own fields is one that the query does not return.
- Transactions other than as atomic steps. They are short groups of writes to
  rows by key at PostgreSQL's default isolation; each handler reads ahead of
  its transaction and not in it.
- Clocks of different machines, except the domain controllers' in `SiemPolling`.
  That the CHECK refuses `approved_at` is a statement that may throw (`Abort`).
- A reused connection that the server closed, certificates, DNS: all are
  "refused", "socket broken" or "connection lost".
- Layout, wording, drawers and columns of the web pages; contracts.

## 7 Plan

Modelling is complete but for the parts above, and every safety property of the
runs is proved but for the two that section 4 lists: `OwnEventsMatch` and
`MatchedWhenAllIsObserved`. What is left is to prove these two for any number of
executions, first for retries that do not overlap.

No module declares a `RECURSIVE` operator, so that all of them can be proved
about.
