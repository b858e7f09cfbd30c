----------------------------- MODULE RequestForms -----------------------------
(***************************************************************************)
(* The page for a new request (pages/requests/new.vue): the form for a new *)
(* user of UserTemplates, the choice of an approver, and the editors for   *)
(* an account and for a group (useAccountChangeEditor.ts,                  *)
(* useGroupChangeEditor.ts), with the boxes to search the directory in     *)
(* (useDirectoryTypeahead.ts, DirectoryTypeahead.vue).                     *)
(*                                                                         *)
(* Searches and loads answer when they like, and in any order.  Watchers   *)
(* run at the end of the event that changed what they watch, so that an    *)
(* event and its watchers are one step.                                    *)
(***************************************************************************)
EXTENDS UserTemplates

CONSTANTS
  Object,  \* who is found in the directory: approvers, and accounts or groups to be changed
  Held,    \* the memberships of what is to be changed
  Other,   \* other memberships, found in the directory too
  Back,    \* the minute in which the browser's clock is put back, at the end of summer time
  Hour,    \* by how many minutes
  Far      \* from when on, by that clock, years have five digits

\* One more field of a scenario: editor, with
\*   kind      "account" or "group"
\*   objects   who is found
\*   expiry    when an account ends, in half minutes, or None
\*   enabled   whether it is enabled, "true" or "false", or None when the directory does not tell
\*   boxes     the boxes that are typed in
\*   texts     how often
\*   loads     how often a target is chosen
\*   faults    how many searches and loads fail
\*   edits     how often the form is edited
ASSUME ClockAssumption == Back \in Nat /\ Hour \in 1..Back /\ Far \in Nat

ASSUME EditorAssumption ==
  /\ None \notin Object \cup Held \cup Other \cup Nat
  /\ None \notin [of : Object, title : {"old", None}, enabled : {"true", "false", None}, expiry : Nat \cup {None}, groups : {Held}]
  /\ \A s \in Scenarios :
       LET e == s.editor IN
       /\ e.kind \in {"account", "group"} /\ e.objects \subseteq Object
       /\ e.expiry = None \/ e.expiry \in Nat
       /\ e.enabled \in {"true", "false", None}
       /\ e.boxes \subseteq {"approver", "target", "member"}
       /\ e.texts \in Nat /\ e.loads \in Nat /\ e.faults \in Nat /\ e.edits \in Nat

VARIABLES
  ui,     \* what the page holds
  budget  \* what is left of the bounds

formVars == <<ui, budget>>
vars == <<templateVars, formVars>>

\* The texts of a box: too short to search for, part of every name, the label of
\* somebody as the page writes it, or an account name.
Short == <<"short", None>>
Part == <<"part", None>>
Label(o) == <<"label", o>>
AccountName(o) == <<"name", o>>
Text == {Short, Part} \cup {Label(o) : o \in Object \cup Other} \cup {AccountName(o) : o \in Object \cup Other}

Box == {"approver", "target", "member"}

\* What the directory finds for a text.
Found(b, text) ==
  LET all == IF b = "member" THEN Other ELSE scenario.editor.objects IN
  CASE text = Short -> {} [] text = Part -> all [] OTHER -> {text[2]} \cap all

\* A box: its text, the search that waits for its timer, how many searches for a
\* text are in flight, and what is shown; option is what DirectoryTypeahead takes
\* for selected.
EmptyBox ==
  [text |-> Short, pending |-> None, flight |-> [t \in Text |-> 0], loading |-> FALSE, results |-> {}, option |-> None]

NoForm == [title |-> None, enabled |-> "true", expiry |-> None, groups |-> {}]

\* The page: its boxes, the approver, the target as it was loaded, the form
\* beside it, the loads in flight, and the payload that was sent.  As history the
\* target chosen last, whether another one's load was taken, and the fields and
\* memberships touched since.
Init ==
  /\ TemplatesInit
  /\ ui = [box |-> [b \in Box |-> EmptyBox], approver |-> None, username |-> None,
           snapshot |-> None, form |-> NoForm, loads |-> [o \in Object |-> 0], sent |-> None,
           chosen |-> None, raced |-> FALSE, touched |-> {}]
  /\ budget = [w \in {"texts", "loads", "faults", "edits"} |-> scenario.editor[w]]

Account == scenario.editor.kind = "account"
Pay(what) == budget[what] > 0 /\ budget' = [budget EXCEPT ![what] = @ - 1]
Free == UNCHANGED budget
OpenPage == ui.sent = None

----------------------------------------------------------------------------
(* What a box shows, and the watchers.                                      *)

\* shouldSkip.
Skips(u, b, text) ==
  CASE b = "approver" -> u.approver # None /\ text \in {Label(u.approver), AccountName(u.approver)}
    [] b = "target" -> u.snapshot # None /\ text = Label(u.snapshot.of)
    [] OTHER -> FALSE

\* trigger, the watcher of useDirectoryTypeahead: the results stay until the
\* search that the timer starts is answered.
Triggered(u, b) ==
  LET text == u.box[b].text IN
  IF text = Short \/ Skips(u, b, text)
  THEN [u EXCEPT !.box[b] = [@ EXCEPT !.pending = None, !.loading = FALSE, !.results = {}]]
  ELSE [u EXCEPT !.box[b] = [@ EXCEPT !.pending = text, !.loading = TRUE]]

\* Mutant: the form is left as it is.
ClearedSnapshot(u) == [u EXCEPT !.snapshot = None]

\* clearLoadedAccountState.
ClearedTarget(u) == [u EXCEPT !.snapshot = None, !.form = NoForm]

\* clearLoadedGroupState: a group has members only.
ClearedGroup(u) == [u EXCEPT !.snapshot = None, !.form = [@ EXCEPT !.groups = {}]]

\* The watchers of the page: another text ends the selection.
SelectionCleared(u, b) ==
  CASE b = "approver" /\ u.approver # None /\ ~Skips(u, b, u.box[b].text) -> [u EXCEPT !.approver = None, !.username = None]
    [] b = "target" /\ u.snapshot # None /\ ~Skips(u, b, u.box[b].text) -> IF Account THEN ClearedTarget(u) ELSE ClearedGroup(u)
    [] OTHER -> u

\* The prop selected of a box.
Selected(u, b) ==
  CASE b = "approver" -> u.approver # None [] b = "target" -> u.snapshot # None [] OTHER -> FALSE

\* The watchers of DirectoryTypeahead: the option goes with the selection, with an
\* empty text that selects nothing, and with any text but its title.
OptionDropped(before, u, b) ==
  LET x == u.box[b]
      text == x.text # before.box[b].text
  IN
  \/ Selected(before, b) /\ ~Selected(u, b)
  \/ text /\ x.text = Short /\ ~Selected(u, b)
  \/ text /\ x.option # None /\ x.text \notin {Short, Label(x.option)}

\* What the watchers make of u, when ui was there before.
Watched(u, b) ==
  LET v == IF u.box[b].text = ui.box[b].text THEN u ELSE SelectionCleared(Triggered(u, b), b) IN
  IF OptionDropped(ui, v, b) THEN [v EXCEPT !.box[b].option = None] ELSE v

----------------------------------------------------------------------------
(* Typing, searching and selecting.                                         *)

\* handleSearchTermUpdate: a selected option is kept from its own title, and from an
\* empty text; Short is any other text that is too short as well.
Type(b) ==
  /\ OpenPage /\ b \in scenario.editor.boxes
  /\ Pay("texts")
  /\ \E text \in Text \ {ui.box[b].text} :
       LET o == ui.box[b].option IN
       /\ text[2] \in (IF b = "member" THEN Other ELSE scenario.editor.objects) \cup {None}
       /\ o # None => text # Label(o)
       /\ ui' = Watched([ui EXCEPT !.box[b] = [@ EXCEPT !.option = None, !.text = text]], b)

\* The timer is up, and the search on its way.
StartSearch(b) ==
  LET x == ui.box[b] IN
  /\ OpenPage /\ x.pending # None
  /\ ui' = [ui EXCEPT !.box[b] = [x EXCEPT !.pending = None, !.flight[x.pending] = @ + 1]]
  /\ Free

\* Mutant: any answer is taken.
Taking(x, text) == TRUE

\* runSearch takes an answer for the text that is there by then.
Wanted(x, text) == x.text = text

SearchAnswered(b) ==
  LET x == ui.box[b] IN
  /\ OpenPage
  /\ \E text \in {t \in Text : x.flight[t] > 0}, good \in BOOLEAN :
       LET landed == [x EXCEPT !.flight[text] = @ - 1] IN
       /\ IF good THEN Free ELSE Pay("faults")
       /\ ui' = [ui EXCEPT !.box[b] =
                   IF Wanted(x, text)
                   THEN [landed EXCEPT !.results = IF good THEN Found(b, text) ELSE {}, !.loading = FALSE]
                   ELSE landed]

\* commitSelection: the option's title becomes the text.
Committed(b, o) == [ui EXCEPT !.box[b] = [@ EXCEPT !.option = o, !.text = Label(o)]]

\* handleApproverSelect, for an approver among the results.
SelectApprover ==
  /\ OpenPage
  /\ \E o \in ui.box["approver"].results \cup ({ui.box["approver"].option} \ {None}) :
       LET u == Committed("approver", o) IN
       ui' = Watched(IF o \in ui.box["approver"].results
                     THEN [u EXCEPT !.approver = o, !.username = o, !.box["approver"].results = {}]
                     ELSE u, "approver")
  /\ Free

\* A membership is added, and the text emptied in the same event.
AddMembership ==
  /\ OpenPage /\ ui.snapshot # None
  /\ \E o \in ui.box["member"].results :
       LET u == [ui EXCEPT !.form.groups = @ \cup {o}, !.touched = @ \cup {o},
                           !.box["member"] = [@ EXCEPT !.option = o, !.text = Short, !.results = {}]]
       IN ui' = Watched(u, "member")
  /\ Free

\* handleGroupSelect of the account editor, handleMemberSelect of the group editor.
SelectGroup == Account /\ AddMembership
SelectMember == ~Account /\ AddMembership

----------------------------------------------------------------------------
(* The target.                                                              *)

\* loadAccountFromDirectory, loadGroupFromDirectory.
Loading(u, o) == [u EXCEPT !.loads[o] = @ + 1, !.chosen = o]

Select ==
  /\ OpenPage /\ Pay("loads")
  /\ \E o \in ui.box["target"].results \cup ({ui.box["target"].option} \ {None}) :
       ui' = Watched(Loading(Committed("target", o), o), "target")

\* A text is left that is somebody's exactly.
Blur ==
  LET x == ui.box["target"] IN
  /\ OpenPage /\ Pay("loads")
  /\ ui.snapshot = None /\ ~x.loading
  /\ \E o \in x.results : x.text \in {Label(o), AccountName(o)} /\ ui' = Loading(ui, o)

\* handleTargetUserSelect, handleTargetUserBlur, and the same for a group.
SelectTargetUser == Account /\ Select
SelectTargetGroup == ~Account /\ Select
BlurTargetUser == Account /\ Blur
BlurTargetGroup == ~Account /\ Blur

\* What the browser's clock shows: an hour of minutes is shown twice.
Clock(minute) == IF minute < Back THEN minute ELSE minute - Hour

\* toDateTimeLocalValue, to the minute; and normalizeDateTimeInput back: of two
\* minutes that are shown alike it takes the earlier one, and no date at all from
\* a year of five digits.
ToLocal(expiry) == IF expiry = None THEN None ELSE Clock(expiry \div 2)
FromLocal(local) == IF local = None \/ local >= Far THEN None ELSE 2 * (IF local < Back THEN local ELSE local + Hour)

\* What the directory tells of an account, and of a group.
AccountView(o) == [of |-> o, title |-> "old", enabled |-> scenario.editor.enabled, expiry |-> scenario.editor.expiry, groups |-> Held]
GroupView(o) == [of |-> o, title |-> None, enabled |-> None, expiry |-> None, groups |-> Held]

\* The form beside a target: what cannot be read is taken to be enabled.
FormOf(view) ==
  [title |-> view.title, enabled |-> IF view.enabled = None THEN "true" ELSE view.enabled,
   expiry |-> ToLocal(view.expiry), groups |-> view.groups]

\* Mutant: the memberships of the target before stay on the form.
AppliedKeepingGroups(u, view) ==
  [u EXCEPT !.snapshot = view,
            !.form = [FormOf(view) EXCEPT !.groups = IF u.snapshot = None THEN @ ELSE u.form.groups],
            !.box["target"] = [@ EXCEPT !.results = {}, !.text = Label(view.of)],
            !.raced = (u.chosen # view.of), !.touched = {}]

\* applyLoadedAccount, applyLoadedGroup.
Applied(u, view) ==
  [u EXCEPT !.snapshot = view,
            !.form = FormOf(view),
            !.box["target"] = [@ EXCEPT !.results = {}, !.text = Label(view.of)],
            !.raced = (u.chosen # view.of), !.touched = {}]

\* A load is answered, or fails and clears whatever target is there.
LoadAnswered(ViewOf(_), Cleared(_)) ==
  /\ OpenPage
  /\ \E o \in {p \in Object : ui.loads[p] > 0}, good \in BOOLEAN :
       LET u == [ui EXCEPT !.loads[o] = @ - 1] IN
       /\ IF good THEN Free ELSE Pay("faults")
       /\ ui' = Watched(IF good THEN Applied(u, ViewOf(o)) ELSE Cleared(u), "target")

AccountAnswered == Account /\ LoadAnswered(AccountView, ClearedTarget)
GroupAnswered == ~Account /\ LoadAnswered(GroupView, ClearedGroup)

\* A field of the form is edited, or a membership taken away or restored.
EditField ==
  /\ Account /\ OpenPage /\ ui.snapshot # None
  /\ Pay("edits")
  /\ \/ \E title \in {"old", "new"} \ {ui.form.title} :
          ui' = [ui EXCEPT !.form.title = title, !.touched = @ \cup {"title"}]
     \/ \E enabled \in {"true", "false"} \ {ui.form.enabled} :
          ui' = [ui EXCEPT !.form.enabled = enabled, !.touched = @ \cup {"enabled"}]
     \/ \E expiry \in {None, 0, 1} \ {ui.form.expiry} :
          ui' = [ui EXCEPT !.form.expiry = expiry, !.touched = @ \cup {"expiry"}]

\* A membership is taken away or restored, or one that was added removed.
ToggleMembership ==
  /\ OpenPage /\ ui.snapshot # None
  /\ Pay("edits")
  /\ \E g \in ui.snapshot.groups \cup ui.form.groups :
       ui' = [ui EXCEPT !.form.groups = IF g \in @ THEN @ \ {g} ELSE @ \cup {g}, !.touched = @ \cup {g}]

ToggleCurrentGroup == Account /\ ToggleMembership
ToggleCurrentMember == ~Account /\ ToggleMembership

----------------------------------------------------------------------------
(* Sending.                                                                 *)

\* pushPreviewChange, and buildAccountAttributeChanges: the fields with a rule of
\* their own, and title for the others.
Differs(previous, next) == previous # next
AttributeChanges(view, f) ==
  {field \in {"title", "enabled", "expiry"} :
     CASE field = "title" -> Differs(view.title, f.title)
       [] field = "enabled" -> Differs(view.enabled, f.enabled)
       [] field = "expiry" -> Differs(view.expiry, FromLocal(f.expiry))}

\* groupsToAdd and groupsToRemove, membersToAdd and membersToRemove.
MembershipChanges(view, f) == [add |-> f.groups \ view.groups, remove |-> view.groups \ f.groups]

\* submit: with an approver, a target and some change; a call that fails leaves
\* the page as it is.
Send(fields) ==
  LET memberships == MembershipChanges(ui.snapshot, ui.form) IN
  /\ OpenPage /\ ui.username # None
  /\ fields # {} \/ memberships.add \cup memberships.remove # {}
  /\ ui' = [ui EXCEPT !.sent = [approver |-> ui.username, target |-> ui.snapshot.of, fields |-> fields, memberships |-> memberships]]
  /\ Free

\* buildPayload of the account editor, and of the group editor.
SendAccountChange == Account /\ ui.snapshot # None /\ Send(AttributeChanges(ui.snapshot, ui.form))
SendGroupChange == ~Account /\ ui.snapshot # None /\ Send({})

FormNext ==
  \/ \E b \in Box : Type(b) \/ StartSearch(b) \/ SearchAnswered(b)
  \/ SelectApprover
  \/ SelectTargetUser \/ BlurTargetUser \/ AccountAnswered \/ EditField \/ SelectGroup \/ ToggleCurrentGroup \/ SendAccountChange
  \/ SelectTargetGroup \/ BlurTargetGroup \/ GroupAnswered \/ SelectMember \/ ToggleCurrentMember \/ SendGroupChange

Next ==
  \/ TemplatesNext /\ UNCHANGED formVars
  \/ FormNext /\ UNCHANGED templateVars

Spec == Init /\ [][Next]_vars

----------------------------------------------------------------------------
TypeOK ==
  /\ TemplatesTypeOK
  /\ \A b \in Box :
       LET x == ui.box[b] IN
       /\ x.text \in Text /\ x.pending \in Text \cup {None} /\ x.results \subseteq Object \cup Other
       /\ x.option \in Object \cup Other \cup {None}
       \* A search that waits is for the text that is there.
       /\ x.pending # None => x.pending = x.text
  /\ ui.approver \in Object \cup {None} /\ ui.username \in Object \cup {None}
  /\ ui.snapshot # None => ui.snapshot.of \in Object /\ ui.form.groups \subseteq Held \cup Other
  /\ ui.snapshot = None => ui.form = NoForm

\* What a box says is what the page holds: whoever is selected is named by the
\* text, and is who the request goes to; a target is the one chosen last, unless
\* the answer for another one came after that choice; and what a box offers, when
\* it does not say that it is searching, was found for its text.
SelectionAgrees ==
  /\ ui.username = ui.approver
  /\ ui.approver # None => ui.box["approver"].text \in {Label(ui.approver), AccountName(ui.approver)}
  /\ ui.snapshot # None =>
       /\ ui.box["target"].text = Label(ui.snapshot.of)
       /\ ~ui.raced => ui.snapshot.of = ui.chosen
  /\ \A b \in Box : ~ui.box[b].loading => ui.box[b].results \subseteq Found(b, ui.box[b].text)

\* The expiries that the form gives back as they are: on the minute, not in the
\* hour that the clock shows for the second time, and of a year that can be read.
GivenBack(expiry) ==
  \/ expiry = None
  \/ /\ expiry % 2 = 0
     /\ expiry \div 2 \notin Back..(Back + Hour - 1)
     /\ Clock(expiry \div 2) < Far

\* The fields that are sent though nobody touched them: an expiry that the form does
\* not give back, and whether an account is enabled that the directory does not tell.
SentUntouched(view) ==
  (IF GivenBack(view.expiry) THEN {} ELSE {"expiry"}) \cup (IF view.enabled = None THEN {"enabled"} ELSE {})

\* What is sent is what was meant: but for those two fields, only what was touched
\* since the target was loaded, for the target and to the approver that are shown;
\* and the UPN of a new user is the one that was typed, or follows the names.
NothingUnasked ==
  /\ UpnFollows
  /\ ui.sent # None =>
       /\ ui.sent.target = ui.snapshot.of /\ ui.sent.approver = ui.approver
       /\ ui.sent.fields \subseteq ui.touched \cup SentUntouched(ui.snapshot)
       /\ ui.sent.memberships.add \cup ui.sent.memberships.remove \subseteq ui.touched
=============================================================================
