---------------------------- MODULE UserTemplates ----------------------------
(***************************************************************************)
(* Templates for new users: the API that keeps them                        *)
(* (modules/user-creation-templates), the page on which administrators     *)
(* edit them (pages/settings/user-templates.vue), and the form that        *)
(* requests a new user (composables/useUserCreateForm.ts), whose request   *)
(* names the version of a template.                                        *)
(*                                                                         *)
(* A save reads the version, checks the name, and writes both back in a    *)
(* transaction of its own; a view is put together from two reads.  Nothing *)
(* keeps the saves of two administrators apart.                            *)
(***************************************************************************)
EXTENDS Naturals, FiniteSets

CONSTANTS
  Template,  \* identifiers
  Name,      \* names of templates, and of new users
  Suffix,    \* UPN suffixes that a template may set
  Default,   \* the suffix of the configuration
  Group,     \* groups in the directory
  Admin,     \* administrators' pages
  Form,      \* the page of the requester
  Slot,      \* slots for calls to the API
  Typed,     \* what is typed instead of a suggestion
  Scenarios, \* what to explore, as follows
  None

\* What administrators may store.
Content == [name : Name, active : BOOLEAN, suffix : Suffix \cup {None}, groups : SUBSET Group]

\* A row of user_creation_template.
Row == [name : Name, active : BOOLEAN, suffix : Suffix \cup {None}, version : Nat]

\* The fields of a scenario, all of them bounds:
\*   admins   the pages that are open
\*   edits    what is edited on them, of the fields of a content
\*   saves    how often something is saved
\*   lists    how often the templates are asked for again
\*   fills    how often the form is edited
\*   faults   how many calls fail
\*   start    the template that there is to begin with
ASSUME TemplatesAssumption ==
  /\ None \notin Template \cup Name \cup Suffix \cup Group \cup Admin \cup Slot \cup {Default, Typed, Form}
  /\ None \notin Row
  /\ Form \notin Admin /\ Default \notin Suffix /\ Typed \notin Name
ASSUME ScenariosAssumption == \A s \in Scenarios :
  /\ s.admins \subseteq Admin /\ s.edits \subseteq {"name", "active", "suffix", "groups"}
  /\ s.saves \in Nat /\ s.lists \in Nat /\ s.fills \in Nat /\ s.faults \in Nat /\ s.start \in Content

VARIABLES
  scenario,    \* what this behaviour explores; it never changes
  rows,        \* user_creation_template
  groupRows,   \* user_creation_template_group
  call,        \* the calls in flight
  page,        \* what the administrators' pages show
  form,        \* the form for a new user
  requests,    \* the requests that were stored
  committed,   \* history: the contents that had a version
  overwritten, \* history: the templates that were saved on an outdated version
  left         \* what is left of the scenario's saves, lists, fills and faults

templateVars == <<scenario, rows, groupRows, call, page, form, requests, committed, overwritten, left>>

Version(id, version, content) == [id |-> id, version |-> version, content |-> content]
Empty == [name |-> None, active |-> TRUE, suffix |-> None, groups |-> {}]

\* A free slot.  The fields of a call in flight:
\*   kind, by        what for and by which page
\*   id, input       the template and its content, or the form's groups
\*   view            the view that the form was filled from
\*   base            the version that an update starts from
\*   stage           how far the API is
\*   read, answer    the rows that it read, and the views it answers with
\*   ref             the reference that it resolved
Idle ==
  [kind |-> None, by |-> None, id |-> None, input |-> Empty, view |-> None, base |-> 0, stage |-> "idle",
   read |-> {}, answer |-> {}, ref |-> None]
Requested(kind, by, id, input) ==
  [Idle EXCEPT !.kind = kind, !.by = by, !.id = id, !.input = input, !.stage = "sent"]

Existing == {id \in Template : rows[id] # None}

TemplatesInit ==
  /\ scenario \in Scenarios
  /\ \E id \in Template :
       /\ rows = [t \in Template |->
                    IF t = id THEN [name |-> scenario.start.name, active |-> scenario.start.active,
                                    suffix |-> scenario.start.suffix, version |-> 1]
                    ELSE None]
       /\ groupRows = [t \in Template |-> IF t = id THEN scenario.start.groups ELSE {}]
       /\ committed = {Version(id, 1, scenario.start)}
       /\ id = CHOOSE t \in Template : TRUE
  /\ call = [c \in Slot |-> Idle]
  /\ page = [a \in Admin |-> [views |-> {}, open |-> FALSE, editing |-> None, form |-> Empty, saving |-> FALSE]]
  /\ form = [views |-> {}, template |-> None, given |-> None, sam |-> None, upn |-> None,
             manual |-> {}, groups |-> {}, submitting |-> FALSE]
  /\ requests = {}
  /\ overwritten = {}
  /\ left = [saves |-> scenario.saves, lists |-> scenario.lists, fills |-> scenario.fills, faults |-> scenario.faults]

Spend(what) == left[what] > 0 /\ left' = [left EXCEPT ![what] = @ - 1]
Put(c, k) == call' = [call EXCEPT ![c] = k]
At(c, kinds, stage) == call[c].kind \in kinds /\ call[c].stage = stage
Answered(k, ok, views) == [k EXCEPT !.stage = IF ok THEN "done" ELSE "failed", !.answer = views]

----------------------------------------------------------------------------
(* The API.                                                                 *)

\* assertTemplateNameAvailable, and the unique index of the names.
Taken(name, id) == \E t \in Existing \ {id} : rows[t].name = name

\* update, first of all.
ReadExisting(c) ==
  /\ At(c, {"update"}, "sent")
  /\ Put(c, [call[c] EXCEPT !.base = rows[call[c].id].version, !.stage = "based"])
  /\ UNCHANGED <<scenario, rows, groupRows, page, form, requests, committed, overwritten, left>>

\* parseInput: of what the page sends, only the name may be missing.
ParseInput(input) == input.name # None

\* A name is required, and nobody else's.
CheckName(c) ==
  /\ At(c, {"create"}, "sent") \/ At(c, {"update"}, "based")
  /\ Put(c, IF ~ParseInput(call[c].input) \/ Taken(call[c].input.name, call[c].id) THEN Answered(call[c], FALSE, {})
            ELSE [call[c] EXCEPT !.stage = "named"])
  /\ UNCHANGED <<scenario, rows, groupRows, page, form, requests, committed, overwritten, left>>

\* Mutant: a change of the groups alone is not taken for a new version.
VersionOfRow(k) ==
  IF rows[k.id].name = k.input.name /\ rows[k.id].active = k.input.active /\ rows[k.id].suffix = k.input.suffix
  THEN k.base ELSE k.base + 1

\* The template_version that an update writes.
NextVersion(k) == k.base + 1

\* The transaction of create or update.  The identifiers that are left bound how
\* many templates are created.
Write(c) ==
  LET k == call[c]
      id == IF k.kind = "create" THEN CHOOSE t \in Template \ Existing : TRUE ELSE k.id
      version == IF k.kind = "create" THEN 1 ELSE NextVersion(k)
  IN
  /\ k.stage = "named"
  /\ k.kind = "create" => Existing # Template
  /\ IF Taken(k.input.name, k.id)
     THEN /\ Put(c, Answered(k, FALSE, {}))
          /\ UNCHANGED <<rows, groupRows, committed, overwritten>>
     ELSE /\ rows' = [rows EXCEPT ![id] = [name |-> k.input.name, active |-> k.input.active,
                                           suffix |-> k.input.suffix, version |-> version]]
          /\ groupRows' = [groupRows EXCEPT ![id] = k.input.groups]
          /\ committed' = committed \cup {Version(id, version, k.input)}
          /\ overwritten' = IF k.kind = "update" /\ rows[id].version # k.base THEN overwritten \cup {id} ELSE overwritten
          /\ Put(c, [k EXCEPT !.id = id, !.stage = "written"])
  /\ UNCHANGED <<scenario, page, form, requests, left>>

\* The rows that a view is made from: of one template, or of all, whereby only
\* administrators see those that are not active.
ReadRows(c) ==
  LET k == call[c]
      ids == CASE k.stage = "written" -> {k.id}
               [] k.by = Form -> {t \in Existing : rows[t].active}
               [] OTHER -> Existing
  IN
  /\ At(c, {"list", "reload"}, "sent") \/ k.stage = "written"
  /\ Put(c, [k EXCEPT !.read = {<<t, rows[t]>> : t \in ids}, !.stage = "read"])
  /\ UNCHANGED <<scenario, rows, groupRows, page, form, requests, committed, overwritten, left>>

\* mapRowsToViews.  As history a view keeps whether its row was outdated by then.
View(id, row) ==
  [id |-> id, version |-> row.version, torn |-> rows[id] # row,
   content |-> [name |-> row.name, active |-> row.active, suffix |-> row.suffix, groups |-> groupRows[id]]]

ReadGroups(c) ==
  /\ call[c].stage = "read"
  /\ Put(c, Answered(call[c], TRUE, {View(r[1], r[2]) : r \in call[c].read}))
  /\ UNCHANGED <<scenario, rows, groupRows, page, form, requests, committed, overwritten, left>>

\* canonicalizeUserCreationTemplate: whatever version the form has, the request
\* refers to the one of now.
ResolveReference(c) ==
  LET k == call[c] IN
  /\ At(c, {"submit"}, "sent")
  /\ Put(c, CASE k.id = None -> [k EXCEPT !.stage = "resolved"]
              [] k.id # None /\ ~rows[k.id].active -> Answered(k, FALSE, {})
              [] OTHER -> [k EXCEPT !.stage = "resolved",
                                    !.ref = [id |-> k.id, name |-> rows[k.id].name, version |-> rows[k.id].version]])
  /\ UNCHANGED <<scenario, rows, groupRows, page, form, requests, committed, overwritten, left>>

StoreRequest(c) ==
  LET k == call[c] IN
  /\ At(c, {"submit"}, "resolved")
  /\ requests' = requests \cup {[ref |-> k.ref, view |-> k.view, groups |-> k.input.groups]}
  /\ Put(c, Answered(k, TRUE, {}))
  /\ UNCHANGED <<scenario, rows, groupRows, page, form, committed, overwritten, left>>

\* A call fails on its way, wherever it is.
FailCall(c) ==
  /\ call[c].stage \notin {"idle", "done", "failed"}
  /\ Spend("faults")
  /\ Put(c, Answered(call[c], FALSE, {}))
  /\ UNCHANGED <<scenario, rows, groupRows, page, form, requests, committed, overwritten>>

----------------------------------------------------------------------------
(* The administrators' pages.                                               *)

Ask(kind, by, id, input) ==
  \E c \in Slot : call[c].stage = "idle" /\ Put(c, Requested(kind, by, id, input))

\* The page is opened, or refreshed.
Refresh(a) ==
  /\ Spend("lists")
  /\ Ask("list", a, None, Empty)
  /\ UNCHANGED <<scenario, rows, groupRows, page, form, requests, committed, overwritten>>

OpenCreate(a) ==
  /\ ~page[a].open /\ Existing # Template /\ left.saves > 0
  /\ page' = [page EXCEPT ![a].open = TRUE, ![a].editing = None, ![a].form = Empty]
  /\ UNCHANGED <<scenario, rows, groupRows, call, form, requests, committed, overwritten, left>>

OpenEdit(a) ==
  /\ ~page[a].open /\ left.saves > 0
  /\ \E v \in page[a].views :
       page' = [page EXCEPT ![a].open = TRUE, ![a].editing = v.id, ![a].form = v.content]
  /\ UNCHANGED <<scenario, rows, groupRows, call, form, requests, committed, overwritten, left>>

\* One field is edited, and the whole form saved later.
Edit(a) ==
  /\ page[a].open
  /\ \E field \in scenario.edits :
       \E content \in Content :
         /\ \A other \in DOMAIN content \ {field} : content[other] = page[a].form[other]
         /\ content # page[a].form
         /\ page' = [page EXCEPT ![a].form = content]
  /\ UNCHANGED <<scenario, rows, groupRows, call, form, requests, committed, overwritten, left>>

Save(a) ==
  /\ page[a].open /\ ~page[a].saving
  /\ page[a].editing = None => Existing # Template
  /\ Spend("saves")
  /\ Ask(IF page[a].editing = None THEN "create" ELSE "update", a, page[a].editing, page[a].form)
  /\ page' = [page EXCEPT ![a].saving = TRUE]
  /\ UNCHANGED <<scenario, rows, groupRows, form, requests, committed, overwritten>>

Close(a) ==
  /\ page[a].open
  /\ page' = [page EXCEPT ![a].open = FALSE]
  /\ UNCHANGED <<scenario, rows, groupRows, call, form, requests, committed, overwritten, left>>

\* A good answer closes the drawer, whatever is edited in it by now, and asks for
\* the templates; the button rests until they are there.
SaveAnswered(c) ==
  LET a == call[c].by IN
  /\ call[c].kind \in {"create", "update"}
  /\ \/ /\ call[c].stage = "done"
        /\ page' = [page EXCEPT ![a].open = FALSE]
        /\ Put(c, Requested("reload", a, None, Empty))
     \/ /\ call[c].stage = "failed"
        /\ page' = [page EXCEPT ![a].saving = FALSE]
        /\ Put(c, Idle)
  /\ UNCHANGED <<scenario, rows, groupRows, form, requests, committed, overwritten, left>>

\* loadTemplates shows the answer that came last, and after a failure none.
ListAnswered(c) ==
  LET a == call[c].by IN
  /\ call[c].kind \in {"list", "reload"} /\ call[c].stage \in {"done", "failed"}
  /\ Put(c, Idle)
  /\ IF a = Form THEN form' = [form EXCEPT !.views = call[c].answer] /\ UNCHANGED page
     ELSE /\ page' = [page EXCEPT ![a].views = call[c].answer, ![a].saving = @ /\ call[c].kind = "list"]
          /\ UNCHANGED form
  /\ UNCHANGED <<scenario, rows, groupRows, requests, committed, overwritten, left>>

----------------------------------------------------------------------------
(* The form for a new user.                                                 *)

\* Suggestions: an account name from the name, a UPN from the account name.
SuffixOf(template) ==
  IF template = None \/ template.content.suffix = None THEN Default ELSE template.content.suffix
Suggested(sam, template) == IF sam = None THEN None ELSE <<sam, SuffixOf(template)>>

\* The two watchers: the account name follows the name, and the UPN the account
\* name and the suffix, each of them until somebody types there.
Followed(f) ==
  LET sam == IF f.given # form.given /\ "sam" \notin f.manual THEN f.given ELSE f.sam IN
  [f EXCEPT !.sam = sam,
            !.upn = IF (sam # form.sam \/ SuffixOf(f.template) # SuffixOf(form.template)) /\ "upn" \notin f.manual
                    THEN Suggested(sam, f.template) ELSE @]

\* The page is mounted.
OpenForm ==
  /\ scenario.fills > 0
  /\ Spend("lists")
  /\ Ask("list", Form, None, Empty)
  /\ UNCHANGED <<scenario, rows, groupRows, page, form, requests, committed, overwritten>>

Fill(f) ==
  /\ Spend("fills")
  /\ form' = Followed(f)
  /\ UNCHANGED <<scenario, rows, groupRows, call, page, requests, committed, overwritten>>

TypeName == \E name \in (Name \cup {None}) \ {form.given} : Fill([form EXCEPT !.given = name])
TypeSam ==
  \E sam \in {Typed, None} \ {form.sam} : Fill([form EXCEPT !.sam = sam, !.manual = @ \cup {"sam"}])
TypeUpn ==
  form.upn # Typed /\ Fill([form EXCEPT !.upn = Typed, !.manual = @ \cup {"upn"}])
ToggleGroup ==
  \E g \in Group : Fill([form EXCEPT !.groups = IF g \in @ THEN @ \ {g} ELSE @ \cup {g}])

\* applyTemplate.
TemplateApplied(f, template) ==
  [f EXCEPT !.template = template,
            !.groups = IF template = None THEN {} ELSE template.content.groups,
            !.upn = IF f.sam = None THEN @ ELSE Suggested(f.sam, template),
            !.manual = @ \ {"upn"}]

\* A template is selected, or none.
SelectTemplate ==
  \E template \in form.views \cup {None} :
    Fill(TemplateApplied(form, template))

Submit ==
  /\ form.sam # None /\ ~form.submitting
  /\ \E c \in Slot :
       /\ call[c].stage = "idle"
       /\ Put(c, [Requested("submit", Form, IF form.template = None THEN None ELSE form.template.id,
                            [Empty EXCEPT !.groups = form.groups]) EXCEPT !.view = form.template])
  /\ form' = [form EXCEPT !.submitting = TRUE]
  /\ UNCHANGED <<scenario, rows, groupRows, page, requests, committed, overwritten, left>>

\* A stored request is shown instead of the form.
SubmitAnswered(c) ==
  /\ At(c, {"submit"}, "failed")
  /\ Put(c, Idle)
  /\ form' = [form EXCEPT !.submitting = FALSE]
  /\ UNCHANGED <<scenario, rows, groupRows, page, requests, committed, overwritten, left>>

TemplatesNext ==
  \/ \E c \in Slot :
       \/ ReadExisting(c) \/ CheckName(c) \/ Write(c) \/ ReadRows(c) \/ ReadGroups(c)
       \/ ResolveReference(c) \/ StoreRequest(c) \/ FailCall(c)
       \/ SaveAnswered(c) \/ ListAnswered(c) \/ SubmitAnswered(c)
  \/ \E a \in scenario.admins :
       Refresh(a) \/ OpenCreate(a) \/ OpenEdit(a) \/ Edit(a) \/ Save(a) \/ Close(a)
  \/ OpenForm \/ TypeName \/ TypeSam \/ TypeUpn \/ ToggleGroup \/ SelectTemplate \/ Submit

----------------------------------------------------------------------------
ViewOk(v) == v = None \/ (v.id \in Template /\ v.version \in 1..(1 + scenario.saves) /\ v.content \in Content)

TemplatesTypeOK ==
  /\ scenario \in Scenarios
  /\ \A t \in Template : rows[t] # None =>
       /\ rows[t].version \in 1..(1 + scenario.saves) /\ rows[t].name \in Name
       /\ \A u \in Template \ {t} : rows[u] # None => rows[u].name # rows[t].name
  /\ \A c \in Slot :
       /\ call[c].stage \in {"idle", "sent", "based", "named", "written", "read", "resolved", "done", "failed"}
       /\ \A v \in call[c].answer : ViewOk(v)
  /\ \A a \in Admin :
       /\ \A v \in page[a].views : ViewOk(v)
       /\ page[a].saving <=> \E c \in Slot : call[c].by = a /\ call[c].kind # "list"
  /\ ViewOk(form.template) /\ form.manual \subseteq {"sam", "upn"}

\* The views that anybody is shown.
Shown == (UNION {page[a].views : a \in Admin}) \cup form.views

\* A version names one content, and the latest version is the last one written,
\* unless a save started from an outdated version.  Everybody is shown a
\* template as it was under the version shown, unless it was written between the
\* two reads.  And a request names a version under which its template was active,
\* the form's or a later one.
VersionNamesOneContent ==
  \A id \in Template \ overwritten :
    LET mine == {v \in committed : v.id = id} IN
    /\ \A v, w \in mine : v.version = w.version => v = w
    /\ rows[id] # None => \A v \in mine : v.version <= rows[id].version
    /\ \A v \in Shown : v.id = id /\ ~v.torn => Version(id, v.version, v.content) \in mine
    /\ \A r \in requests : r.ref # None /\ r.ref.id = id =>
         /\ r.ref.version >= r.view.version
         /\ \E v \in mine : v.version = r.ref.version /\ v.content.name = r.ref.name /\ v.content.active

\* While an account name is there and nobody typed a UPN since a template was
\* selected, the UPN is that account name at the suffix of the template selected.
UpnFollows ==
  form.sam # None /\ "upn" \notin form.manual => form.upn = Suggested(form.sam, form.template)
=============================================================================
