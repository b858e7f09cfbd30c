---------------------------- MODULE ConsolePages ----------------------------
(***************************************************************************)
(* The pages that show what was recorded: the lists (pages/audit,          *)
(* pages/observed-events, pages/settings/logs.vue, pages/requests), the    *)
(* page of one request (pages/requests/[id].vue) and the audit of one      *)
(* object of the directory (pages/audit), with the reads of the API behind *)
(* them.                                                                   *)
(*                                                                         *)
(* The API reads while rows are written, most often in several statements, *)
(* and a page may have several calls in flight, whose answers come in any  *)
(* order and are taken whenever they come.                                 *)
(***************************************************************************)
EXTENDS Naturals, Sequences, FiniteSets

CONSTANTS
  Tag,       \* what rows can be filtered by: a request, a level, a source
  Object,    \* accounts and groups
  PageSize,  \* of the lists and of the timeline
  Plans,     \* what to explore, as follows
  Null       \* what the code calls null: none of these

\* The fields of a plan, the last four of them bounds:
\*   kind      the page: "audit", "events", "logs" or "requests" for a list,
\*             "request", "object", or "closed"
\*   rows      the rows of the list to begin with, oldest first
\*   admin     whether the user is an administrator, or else the approver
\*   users, groups, nameless
\*             what the directory holds, and the groups without an account name
\*   items     how long the timeline of each is
\*   loads     how often something is loaded
\*   writes    how many rows are written, or how far the request goes by itself
\*   faults    how many calls fail
\*   edits     how often a filter, a text or the kind of object is changed

\* What has become of a decision or a retry that its user sent, what can be decided,
\* and the states of a request: nothing makes one a draft or closed.
Posts == {"sent", "accepted", "finished", "refused"}
Decisions == {"approved", "rejected"}
Statuses == {"submitted", "executing", "executed", "failed"} \cup Decisions

\* What the constants must be.
ConsoleAssumption ==
  /\ PageSize \in Nat \ {0}
  /\ Null \notin Tag \cup Object \cup Posts \cup Statuses
  /\ \A p \in Plans :
       /\ p.kind \in {"audit", "events", "logs", "requests", "request", "object", "closed"}
       /\ p.rows \in Seq(Tag) /\ p.admin \in BOOLEAN
       /\ p.users \subseteq Object /\ p.groups \subseteq Object \ p.users /\ p.nameless \subseteq p.groups
       /\ p.items \in [Object -> Nat]
       /\ {p.loads, p.writes, p.faults, p.edits} \subseteq Nat

ASSUME PlansAssumption == ConsoleAssumption

VARIABLES
  plan,    \* what this behaviour explores; it never changes
  store,   \* what the API reads: the rows, and the request
  list,    \* a page with a list
  detail,  \* the page of a request
  object,  \* the audit of an object
  rest     \* what is left of the bounds

consoleVars == <<plan, store, list, detail, object, rest>>

ListKind == {"audit", "events", "logs", "requests"}
IsList == plan.kind \in ListKind
IsRequest == plan.kind = "request"
IsObject == plan.kind = "object"

Use(what) == rest[what] > 0 /\ rest' = [rest EXCEPT ![what] = @ - 1]
Keep == UNCHANGED rest
Outcome(good) == IF good THEN Keep ELSE Use("faults")

\* The texts of the search box: too short, part of every name, the label of an
\* object as its kind has it or as the other kind would have it, or its name.
Short == <<"short", Null>>
Part == <<"part", Null>>
Label(o) == <<"label", o>>
Twice(o) == <<"twice", o>>
AccountName(o) == <<"name", o>>
Text == {Short, Part} \cup {Label(o) : o \in Object} \cup {AccountName(o) : o \in Object}
ObjectType == {"user", "group"}

\* A call of a list, and loadRequest, which asks for the request and then for its
\* timeline.
Asked(page, filter) == [step |-> "sent", page |-> page, filter |-> filter, total |-> 0, ids |-> {}]
Unread == [status |-> Null, decision |-> Null, execution |-> Null, log |-> 0]
Load == [at |-> "detail", part |-> 0, read |-> Unread]

\* onMounted has asked for a list or for the request.  As history, whether a list
\* took an older answer after a newer one, whether the user's decision was taken,
\* the object chosen last, and whether another one's answer, one of another kind,
\* or results for another kind came after that.
ConsoleInit ==
  /\ plan \in Plans
  /\ store = [rows |-> plan.rows, request |-> [status |-> "submitted", decision |-> Null, execution |-> Null, log |-> 1]]
  /\ list = [filter |-> Null, entries |-> Null, loading |-> TRUE, error |-> FALSE, page |-> 1, polling |-> Null,
             calls |-> IF IsList THEN <<Asked(1, Null)>> ELSE <<>>, late |-> FALSE]
  /\ detail = [view |-> Null, timeline |-> Null, loading |-> TRUE, error |-> FALSE, acting |-> Null, post |-> Null,
               loads |-> IF IsRequest THEN <<Load>> ELSE <<>>, decided |-> FALSE]
  /\ object = [type |-> "user", text |-> Short, pending |-> Null, flight |-> [s \in Text \X ObjectType |-> 0],
               searching |-> FALSE, results |-> {}, option |-> Null, view |-> Null, loading |-> FALSE,
               loads |-> [l \in Object \X ObjectType |-> 0], page |-> 1,
               chosen |-> Null, raced |-> FALSE, crossed |-> FALSE, stray |-> FALSE]
  /\ rest = [w \in {"loads", "writes", "faults", "edits"} |-> plan[w]]

----------------------------------------------------------------------------
(* Lists in the API.  Rows are numbered as they are written, and listed      *)
(* newest first.                                                            *)

Matching(rows, filter) == {i \in 1 .. Len(rows) : filter = Null \/ rows[i] = filter}
PageCount(total) == IF total = 0 THEN 1 ELSE (total + PageSize - 1) \div PageSize

\* Mutant: the page that was asked for.
AskedPage(page, total) == page

\* normalizedPage.
NormalizedPage(page, total) == IF page > PageCount(total) THEN PageCount(total) ELSE page

\* The rows with that offset and limit.
Slice(ids, page) == {i \in ids : Cardinality({j \in ids : j > i}) \div PageSize = page - 1}

PutCall(n, k) == list' = [list EXCEPT !.calls[n] = k]

\* Rows are only ever added.
WriteRow ==
  /\ IsList /\ plan.kind # "requests" /\ Use("writes")
  /\ \E tag \in Tag : store' = [store EXCEPT !.rows = Append(@, tag)]
  /\ UNCHANGED <<plan, list, detail, object>>

\* AuditService.list, ObservedEventsService.list: first the total.
CountRows(n) ==
  LET k == list.calls[n] IN
  /\ plan.kind \in {"audit", "events"} /\ k.step = "sent"
  /\ PutCall(n, [k EXCEPT !.step = "counted", !.total = Cardinality(Matching(store.rows, k.filter))])
  /\ Keep /\ UNCHANGED <<plan, store, detail, object>>

\* And then the rows of the page.
ReadRows(n) ==
  LET k == list.calls[n]
      page == NormalizedPage(k.page, k.total)
  IN
  /\ k.step = "counted"
  /\ PutCall(n, [k EXCEPT !.step = "read", !.page = page, !.ids = Slice(Matching(store.rows, k.filter), page)])
  /\ Keep /\ UNCHANGED <<plan, store, detail, object>>

\* AppLogService.paginate reads the file once.
ReadLog(n) ==
  LET k == list.calls[n]
      ids == Matching(store.rows, k.filter)
      page == NormalizedPage(k.page, Cardinality(ids))
  IN
  /\ plan.kind = "logs" /\ k.step = "sent"
  /\ PutCall(n, [k EXCEPT !.step = "read", !.total = Cardinality(ids), !.page = page, !.ids = Slice(ids, page)])
  /\ Keep /\ UNCHANGED <<plan, store, detail, object>>

\* RequestsService.list: all that the user may see.
ReadRequests(n) ==
  LET k == list.calls[n] IN
  /\ plan.kind = "requests" /\ k.step = "sent"
  /\ PutCall(n, [k EXCEPT !.step = "read", !.total = Len(store.rows), !.ids = 1 .. Len(store.rows)])
  /\ Keep /\ UNCHANGED <<plan, store, detail, object>>

FailList(n) ==
  /\ list.calls[n].step = "sent" /\ Use("faults")
  /\ PutCall(n, [list.calls[n] EXCEPT !.step = "failed"])
  /\ UNCHANGED <<plan, store, detail, object>>

----------------------------------------------------------------------------
(* Lists in the browser.                                                    *)

\* loadAudit, loadEvents, loadLogs and loadRequests, with the filter as it is by
\* then.
Loading(l, page) ==
  [l EXCEPT !.loading = TRUE, !.error = FALSE, !.calls = Append(@, Asked(page, l.filter))]

MayLoad == IsList /\ Len(list.calls) < plan.loads

\* AsyncState shows the rows, and the toolbar with them, only if there is neither
\* an error nor a load, and some row.
ToolbarShown == ~list.error /\ ~list.loading /\ list.entries # Null /\ list.entries.total > 0

LoadWith(l, page) == list' = Loading(l, page) /\ Keep /\ UNCHANGED <<plan, store, detail, object>>

\* The pages can be turned while a load is under way.
TurnPage ==
  /\ MayLoad /\ plan.kind # "requests"
  /\ list.entries # Null /\ list.entries.total > PageSize
  /\ \E page \in (1 .. PageCount(list.entries.total)) \ {list.entries.page} : LoadWith(list, page)

EditFilter ==
  /\ plan.kind \in {"audit", "logs"} /\ ToolbarShown /\ Use("edits")
  /\ \E filter \in (Tag \cup {Null}) \ {list.filter} : list' = [list EXCEPT !.filter = filter]
  /\ UNCHANGED <<plan, store, detail, object>>

ApplyFilters == MayLoad /\ plan.kind \in {"audit", "logs"} /\ ToolbarShown /\ LoadWith(list, 1)
ClearFilters == MayLoad /\ plan.kind \in {"audit", "logs"} /\ ToolbarShown /\ LoadWith([list EXCEPT !.filter = Null], 1)

\* The button is always there.  That of the events hands the click itself to
\* loadEvents, which the API takes for the first page.
Refresh ==
  /\ MayLoad /\ plan.kind \in {"events", "logs", "requests"}
  /\ LoadWith(list, IF plan.kind = "logs" THEN list.page ELSE 1)

\* pollNow, disabled while it loads; polling is 0 until the poll has ended, and then
\* the load that follows.
PollNow ==
  /\ MayLoad /\ plan.kind = "events" /\ plan.admin /\ ~list.loading /\ list.polling = Null
  /\ list' = [list EXCEPT !.polling = 0]
  /\ Keep /\ UNCHANGED <<plan, store, detail, object>>

\* The poll has ended, and the events are loaded again; or it has failed.
PollAnswered ==
  /\ list.polling = 0
  /\ \/ MayLoad /\ Keep /\ list' = [Loading(list, list.page) EXCEPT !.polling = Len(list.calls) + 1]
     \/ Use("faults") /\ list' = [list EXCEPT !.polling = Null]
  /\ UNCHANGED <<plan, store, detail, object>>

\* An answer is taken whichever load it is for.
ListAnswered(n) ==
  LET k == list.calls[n]
      l == [list EXCEPT !.calls[n].step = "done", !.loading = FALSE,
                        !.polling = IF @ = n THEN Null ELSE @,
                        !.late = @ \/ \E m \in n + 1 .. Len(list.calls) : list.calls[m].step = "done"]
  IN
  /\ k.step \in {"read", "failed"}
  /\ list' =
       IF k.step = "read"
       THEN [l EXCEPT !.entries = [page |-> k.page, total |-> k.total, ids |-> k.ids, filter |-> k.filter, by |-> n],
                      !.page = k.page]
       ELSE [l EXCEPT !.error = TRUE, !.entries = IF plan.kind = "requests" THEN @ ELSE Null]
  /\ Keep /\ UNCHANGED <<plan, store, detail, object>>

----------------------------------------------------------------------------
(* The page of a request.                                                   *)

\* The request goes on: somebody decides it, it is executed, or tried again.
Follows(r, status) ==
  CASE r.status = "submitted" -> status \in Decisions
    [] r.status \in {"approved", "failed"} -> status = "executing"
    [] r.status = "executing" -> status \in {"executed", "failed"}
    [] OTHER -> FALSE
Advanced(r, status) ==
  [status |-> status, log |-> r.log + 1,
   decision |-> IF status \in Decisions THEN status ELSE r.decision,
   execution |-> IF status \in {"executing", "executed", "failed"} THEN status ELSE r.execution]

Advance ==
  /\ IsRequest
  /\ \E status \in Statuses :
       /\ Follows(store.request, status)
       \* What is executing comes to an end without a bound.
       /\ IF store.request.status \in {"approved", "executing"} THEN Keep ELSE Use("writes")
       /\ store' = [store EXCEPT !.request = Advanced(@, status)]
       /\ detail' = [detail EXCEPT !.post = IF @ = "accepted" /\ status \in {"executed", "failed"} THEN "finished" ELSE @]
  /\ UNCHANGED <<plan, list, object>>

\* What the parts of getDetail add: the request that the user may see, its
\* approvals, its execution and its audit trail.
WithRequest(read, r) == [read EXCEPT !.status = r.status]
WithApprovals(read, r) == [read EXCEPT !.decision = r.decision]
WithExecution(read, r) == [read EXCEPT !.execution = r.execution]
WithAuditTrail(read, r) == [read EXCEPT !.log = r.log]

\* getDetail, and getTimeline, which calls it: each part in a statement of its own.
ReadPart(n) ==
  LET k == detail.loads[n]
      read == CASE k.part = 0 -> WithRequest(k.read, store.request)
                [] k.part = 1 -> WithApprovals(k.read, store.request)
                [] k.part = 2 -> WithExecution(k.read, store.request)
                [] OTHER -> WithAuditTrail(k.read, store.request)
  IN
  /\ k.at # "done" /\ k.part < 4
  /\ detail' = [detail EXCEPT !.loads[n] = [k EXCEPT !.part = @ + 1, !.read = read]]
  /\ Keep /\ UNCHANGED <<plan, store, list, object>>

\* buildRequestTimeline, of all that getDetail read: a decision and an execution
\* as far as they are there, and the audit entries.
TimelineOf(read) ==
  [items |-> {"request_submitted"} \cup (IF read.decision = Null THEN {} ELSE {"approval_decided"})
               \cup (IF read.execution = Null THEN {} ELSE {"execution_started"})
               \cup (IF read.execution \in {"executed", "failed"} THEN {"execution_finished"} ELSE {}),
   log |-> read.log]

\* loadRequest.
Reloading(d) ==
  [d EXCEPT !.loading = TRUE, !.error = FALSE, !.view = Null, !.timeline = Null, !.loads = Append(@, Load)]

\* The request has come, and its timeline is asked for.
DetailAnswered(n) ==
  /\ detail.loads[n].at = "detail" /\ detail.loads[n].part = 4
  /\ detail' = [detail EXCEPT !.view = detail.loads[n].read, !.loads[n] = [Load EXCEPT !.at = "timeline"]]
  /\ Keep /\ UNCHANGED <<plan, store, list, object>>

\* loadRequest comes to its end, with the timeline or without; decide and
\* retryExecution with it.
Ended(d, n) == [d EXCEPT !.loading = FALSE, !.acting = Null, !.loads[n] = [Load EXCEPT !.at = "done"]]

TimelineAnswered(n) ==
  /\ detail.loads[n].at = "timeline" /\ detail.loads[n].part = 4
  /\ detail' = [Ended(detail, n) EXCEPT !.timeline = TimelineOf(detail.loads[n].read)]
  /\ Keep /\ UNCHANGED <<plan, store, list, object>>

FailLoad(n) ==
  /\ detail.loads[n].at # "done" /\ Use("faults")
  /\ detail' = [Ended(detail, n) EXCEPT !.error = TRUE]
  /\ UNCHANGED <<plan, store, list, object>>

DetailShown == detail.view # Null /\ ~detail.loading /\ ~detail.error

CanApprove == detail.view.status = "submitted" /\ (plan.admin \/ detail.view.decision = Null)
CanRetryExecution == plan.admin /\ detail.view.status = "failed" /\ detail.view.execution = "failed"

Post(what) ==
  /\ IsRequest /\ DetailShown /\ detail.acting = Null /\ Len(detail.loads) < plan.loads
  /\ detail' = [detail EXCEPT !.acting = what, !.post = "sent", !.error = FALSE]
  /\ Keep /\ UNCHANGED <<plan, store, list, object>>

Decide == IsRequest /\ DetailShown /\ CanApprove /\ \E decision \in Decisions : Post(decision)
RetryExecution == IsRequest /\ DetailShown /\ CanRetryExecution /\ Post("executing")

\* The API takes a decision of what is not decided, and a retry of what failed; it
\* answers after the execution that the call brings about.
Accept ==
  /\ detail.post = "sent" /\ Keep
  /\ IF IF detail.acting = "executing" THEN store.request.status = "failed" ELSE store.request.decision = Null
     THEN /\ store' = [store EXCEPT !.request = Advanced(@, detail.acting)]
          /\ detail' = [detail EXCEPT !.post = IF detail.acting = "rejected" THEN "finished" ELSE "accepted", !.decided = TRUE]
     ELSE /\ detail' = [detail EXCEPT !.post = "refused"]
          /\ UNCHANGED store
  /\ UNCHANGED <<plan, list, object>>

FailPost ==
  /\ detail.post \in {"sent", "accepted", "finished"} /\ Use("faults")
  /\ detail' = [detail EXCEPT !.post = "refused"]
  /\ UNCHANGED <<plan, store, list, object>>

\* decide, retryExecution: the request is loaded again, or the error shown.
PostAnswered ==
  LET d == [detail EXCEPT !.post = Null] IN
  /\ detail.post \in {"finished", "refused"}
  /\ detail' = IF detail.post = "finished" THEN Reloading(d) ELSE [d EXCEPT !.error = TRUE, !.acting = Null]
  /\ Keep /\ UNCHANGED <<plan, store, list, object>>

----------------------------------------------------------------------------
(* The audit of an object.                                                  *)

OfType(type) == IF type = "user" THEN plan.users ELSE plan.groups
FoundOf(type, text) ==
  CASE text = Short -> {} [] text = Part -> OfType(type) [] OTHER -> {text[2]} \cap OfType(type)

\* selectedObjectLabel: what is of the other kind than the page's has no name to
\* be shown, and its account name is taken for one.
SelectedLabel(x) ==
  IF x.view.type = x.type THEN Label(x.view.of)
  ELSE IF x.type = "group" THEN AccountName(x.view.of) ELSE Twice(x.view.of)

Skips(x, text) == x.view # Null /\ text = SelectedLabel(x)
ResetSearch(x) == [x EXCEPT !.pending = Null, !.searching = FALSE, !.results = {}, !.stray = FALSE]

\* trigger of useDirectoryTypeahead.
Triggered(x) ==
  IF x.text = Short \/ Skips(x, x.text) THEN ResetSearch(x)
  ELSE [x EXCEPT !.pending = x.text, !.searching = TRUE]

\* The watcher of the text: the object goes with its label.
TextWatched(x) == IF x.view # Null /\ x.text # SelectedLabel(x) THEN [x EXCEPT !.view = Null] ELSE x

\* The watchers of DirectoryTypeahead.
OptionWatched(x) ==
  LET text == x.text # object.text IN
  IF \/ object.view # Null /\ x.view = Null
     \/ text /\ x.text = Short /\ x.view = Null
     \/ text /\ x.option # Null /\ x.text \notin {Short, Label(x.option)}
  THEN [x EXCEPT !.option = Null] ELSE x

\* And that of the object.
Watched(x) ==
  LET y == IF x.text = object.text THEN x ELSE TextWatched(Triggered(x))
      z == IF y.view = object.view THEN y ELSE [y EXCEPT !.page = 1]
  IN object' = OptionWatched(z) /\ UNCHANGED <<plan, store, list, detail>>

\* handleSearchTermUpdate.
TypeText ==
  /\ IsObject /\ Use("edits")
  /\ \E text \in Text \ {object.text} :
       /\ text[2] \in plan.users \cup plan.groups \cup {Null}
       /\ object.option # Null => text \notin {Short, Label(object.option)}
       /\ Watched([object EXCEPT !.option = Null, !.text = text])

\* runSearch, for the kind of object that is chosen when the timer is up.
StartSearch ==
  /\ object.pending # Null /\ Keep
  /\ object' = [object EXCEPT !.pending = Null, !.flight[<<object.pending, object.type>>] = @ + 1]
  /\ UNCHANGED <<plan, store, list, detail>>

\* Its answer is taken for the text that is there, whatever the kind is by then.
SearchAnswered ==
  \E search \in {s \in Text \X ObjectType : object.flight[s] > 0}, good \in BOOLEAN :
    LET x == [object EXCEPT !.flight[search] = @ - 1] IN
    /\ Outcome(good)
    /\ object' = IF x.text # search[1] THEN x
                 ELSE [x EXCEPT !.results = IF good THEN FoundOf(search[2], search[1]) ELSE {},
                                !.searching = FALSE, !.stray = (search[2] # x.type)]
    /\ UNCHANGED <<plan, store, list, detail>>

\* loadObjectAudit, for the kind that is chosen by then.
LoadingObject(x, o) == [x EXCEPT !.loads[<<o, x.type>>] = @ + 1, !.loading = TRUE, !.chosen = o]

\* handleObjectSelect: a group must be among the results, and have a name.
SelectObject ==
  /\ IsObject /\ Use("loads")
  /\ \E o \in object.results \cup ({object.option} \ {Null}) :
       LET x == [object EXCEPT !.option = o, !.text = Label(o)] IN
       Watched(IF o \notin plan.nameless /\ (object.type = "user" \/ o \in object.results) THEN LoadingObject(x, o) ELSE x)

\* findExactObjectMatch.
ExactMatch(x, o) == o \in x.results \ plan.nameless /\ x.text \in {Label(o), AccountName(o)}

\* handleObjectBlur.
BlurObject ==
  /\ IsObject /\ Use("loads")
  /\ object.view = Null /\ ~object.searching /\ ~object.loading
  /\ \E o \in Object : ExactMatch(object, o) /\ Watched(LoadingObject(object, o))

\* getObjectAudit finds an object of the kind that was asked for, or nothing.
ObjectAnswered ==
  \E l \in {m \in Object \X ObjectType : object.loads[m] > 0}, good \in BOOLEAN :
    LET x == [object EXCEPT !.loads[l] = @ - 1, !.loading = FALSE]
        y == [x EXCEPT !.view = [of |-> l[1], type |-> l[2]], !.results = {}, !.stray = FALSE,
                       !.raced = (l[1] # x.chosen), !.crossed = (l[2] # x.type)]
    IN
    /\ Outcome(good)
    /\ Watched(IF good /\ l[1] \in OfType(l[2]) THEN [y EXCEPT !.text = SelectedLabel(y)] ELSE [x EXCEPT !.view = Null])

\* The watcher of the kind.
ChangeType ==
  /\ IsObject /\ Use("edits")
  /\ \E type \in ObjectType \ {object.type} :
       Watched([ResetSearch(object) EXCEPT !.type = type, !.text = Short, !.view = Null, !.page = 1])

ClearObjectSelection ==
  /\ object.view # Null /\ Keep
  /\ Watched([ResetSearch(object) EXCEPT !.text = Short, !.view = Null, !.page = 1])

\* usePaginatedSlice.
TurnTimeline ==
  /\ object.view # Null /\ Keep
  /\ \E page \in (1 .. PageCount(plan.items[object.view.of])) \ {object.page} : object' = [object EXCEPT !.page = page]
  /\ UNCHANGED <<plan, store, list, detail>>

----------------------------------------------------------------------------
ConsoleNext ==
  \/ WriteRow \/ TurnPage \/ EditFilter \/ ApplyFilters \/ ClearFilters \/ Refresh \/ PollNow \/ PollAnswered
  \/ \E n \in DOMAIN list.calls :
       CountRows(n) \/ ReadRows(n) \/ ReadLog(n) \/ ReadRequests(n) \/ FailList(n) \/ ListAnswered(n)
  \/ Advance \/ Decide \/ RetryExecution \/ Accept \/ FailPost \/ PostAnswered
  \/ \E n \in DOMAIN detail.loads : ReadPart(n) \/ DetailAnswered(n) \/ TimelineAnswered(n) \/ FailLoad(n)
  \/ TypeText \/ StartSearch \/ SearchAnswered \/ SelectObject \/ BlurObject \/ ObjectAnswered
  \/ ChangeType \/ ClearObjectSelection \/ TurnTimeline

ConsoleSpec == ConsoleInit /\ [][ConsoleNext]_consoleVars

----------------------------------------------------------------------------
\* A list shows one page as it was: without a gap, never an empty page of what was
\* counted, only rows that its filter admits, and under its own number; and when
\* nothing is on its way, what it was asked for last, unless an older answer came
\* after a newer one.
ListAgrees ==
  LET e == list.entries IN
  e # Null =>
    /\ e.ids = {} => e.total = 0
    /\ plan.kind # "requests" => Cardinality(e.ids) <= PageSize /\ e.page \in 1 .. PageCount(e.total)
    /\ e.ids \subseteq Matching(store.rows, e.filter)
    /\ \A i \in e.ids, j \in e.ids : \A k \in Matching(store.rows, e.filter) : i < k /\ k < j => k \in e.ids
    /\ list.page = e.page
    /\ (\A n \in DOMAIN list.calls : list.calls[n].step = "done") /\ ~list.error /\ ~list.late => e.by = Len(list.calls)

\* The page of a request waits for one load at a time, and for none while a
\* decision is on its way; its timeline is not older than the request above it;
\* and once a decision or a retry of its user was taken, it never shows the
\* request as undecided again.
DetailAgrees ==
  LET under == {n \in DOMAIN detail.loads : detail.loads[n].at # "done"} IN
  /\ Cardinality(under) <= 1 /\ (detail.post # Null => under = {})
  /\ detail.view # Null /\ detail.timeline # Null =>
       /\ detail.timeline.log >= detail.view.log
       \* A retry takes the end of the execution away.
       /\ TimelineOf(detail.view).items \ {"execution_finished"} \subseteq detail.timeline.items
  /\ DetailShown /\ detail.acting = Null /\ detail.decided =>
       detail.view.status # "submitted" /\ detail.view.decision # Null

\* The object is named by the text above it, is the one chosen last and of the kind
\* that is chosen, unless an answer for another one or for another kind came after
\* that choice; its timeline is on a page that there is; and what the box offers
\* was found for its text and kind, with the same exception.
ObjectAgrees ==
  /\ object.view # Null =>
       /\ object.text = SelectedLabel(object)
       /\ ~object.raced => object.view.of = object.chosen
       /\ ~object.crossed => object.view.type = object.type
       /\ object.page \in 1 .. PageCount(plan.items[object.view.of])
  /\ ~object.searching /\ ~object.stray => object.results \subseteq FoundOf(object.type, object.text)

ConsoleAgrees == ListAgrees /\ DetailAgrees /\ ObjectAgrees
=============================================================================
