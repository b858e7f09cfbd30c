------------------------- MODULE RequestFormsProofs -------------------------
(***************************************************************************)
(* Theorems about the page for a new request (RequestForms, UserTemplates) *)
(* for any templates, names, groups, pages, calls and objects: the boxes   *)
(* say what the page holds, what is sent is what was meant, a version of a *)
(* template names one content, and everything has its type.                *)
(*                                                                         *)
(* The page and the templates share only the scenario, so that there are   *)
(* two invariants, PageInv and TemplateInv.  The types rest on two more:   *)
(* ShapeInv, and CountInv, which counts the saves.                         *)
(***************************************************************************)
EXTENDS RequestForms, Integers, FiniteSetTheorems, TLAPS

----------------------------------------------------------------------------
(* The invariant of the page.                                               *)

Thing == Object \cup Other
Membership == Held \cup Thing

BoxType ==
  [text : Text, pending : Text \cup {None}, flight : [Text -> Nat], loading : BOOLEAN,
   results : SUBSET Thing, option : Thing \cup {None}]

Target == [of : Object, title : {"old", None}, enabled : {"true", "false", None}, expiry : Nat \cup {None}, groups : SUBSET Membership]
TargetForm == [title : {"old", "new", None}, enabled : {"true", "false"}, expiry : Nat \cup {None}, groups : SUBSET Membership]

Payload ==
  [approver : Thing, target : Object, fields : SUBSET {"title", "enabled", "expiry"},
   memberships : [add : SUBSET Membership, remove : SUBSET Membership]]

UiType ==
  [box : [Box -> BoxType], approver : Thing \cup {None}, username : Thing \cup {None},
   snapshot : Target \cup {None}, form : TargetForm, loads : [Object -> Nat], sent : Payload \cup {None},
   chosen : Thing \cup {None}, raced : BOOLEAN, touched : SUBSET ({"title", "enabled", "expiry"} \cup Membership)]

\* The text of a box names whoever is selected in it.
Names(u, b) ==
  CASE b = "approver" -> u.approver # None => u.box[b].text \in {Label(u.approver), AccountName(u.approver)}
    [] b = "target" -> u.snapshot # None => u.box[b].text = Label(u.snapshot.of)
    [] OTHER -> TRUE

\* What a box offers was found for its text.
Offers(u, b) == ~u.box[b].loading => u.box[b].results \subseteq Found(b, u.box[b].text)

\* The target which the text names is the one chosen last.
ChosenOk(u) ==
  u.snapshot # None /\ u.box["target"].text = Label(u.snapshot.of) /\ ~u.raced => u.snapshot.of = u.chosen

\* What differs from the target as it was loaded was touched since.
Tracks(u) ==
  u.snapshot # None =>
    /\ "title" \notin u.touched => u.form.title = u.snapshot.title
    /\ "enabled" \notin u.touched /\ u.snapshot.enabled # None => u.form.enabled = u.snapshot.enabled
    /\ "expiry" \notin u.touched => u.form.expiry = ToLocal(u.snapshot.expiry)
    /\ (u.form.groups \ u.snapshot.groups) \cup (u.snapshot.groups \ u.form.groups) \subseteq u.touched

SentAsMeant(u) ==
  u.sent # None =>
    /\ u.sent.target = u.snapshot.of /\ u.sent.approver = u.approver
    /\ u.sent.fields \subseteq u.touched \cup SentUntouched(u.snapshot)
    /\ u.sent.memberships.add \cup u.sent.memberships.remove \subseteq u.touched

Agrees(u) ==
  /\ u.username = u.approver
  /\ \A b \in Box : Names(u, b) /\ Offers(u, b)
  /\ ChosenOk(u)
  /\ Tracks(u)

PageInv == scenario \in Scenarios /\ ui \in UiType /\ Agrees(ui) /\ SentAsMeant(ui)

----------------------------------------------------------------------------
(* What the watchers make of the page.                                      *)

\* The parts of a page that no watcher of a box touches.
SameBut(u, v) ==
  /\ v.loads = u.loads /\ v.sent = u.sent /\ v.chosen = u.chosen /\ v.raced = u.raced /\ v.touched = u.touched

SameSelection(u, v) ==
  v.approver = u.approver /\ v.username = u.username /\ v.snapshot = u.snapshot /\ v.form = u.form

LEMMA TextIn == Short \in Text /\ \A o \in Thing : Label(o) \in Text /\ AccountName(o) \in Text
  BY DEF Text, Thing, Short, Label, AccountName

LEMMA SetBox ==
  ASSUME NEW u \in UiType, NEW b \in Box, NEW x \in BoxType
  PROVE  /\ [u EXCEPT !.box[b] = x] \in UiType
         /\ SameBut(u, [u EXCEPT !.box[b] = x]) /\ SameSelection(u, [u EXCEPT !.box[b] = x])
         /\ \A c \in Box : [u EXCEPT !.box[b] = x].box[c] = IF c = b THEN x ELSE u.box[c]
  BY DEF UiType, SameBut, SameSelection

LEMMA TriggeredDoes ==
  ASSUME NEW u \in UiType, NEW b \in Box
  PROVE  LET v == Triggered(u, b) IN
         /\ v \in UiType /\ SameBut(u, v) /\ SameSelection(u, v)
         /\ \A c \in Box : v.box[c].text = u.box[c].text /\ (c # b => v.box[c] = u.box[c])
         /\ v.box[b].results = {} \/ v.box[b].loading
<1> DEFINE x == u.box[b]
           idle == [x EXCEPT !.pending = None, !.loading = FALSE, !.results = {}]
           busy == [x EXCEPT !.pending = x.text, !.loading = TRUE]
<1>1. x \in BoxType /\ u.box \in [Box -> BoxType]
  BY DEF UiType
<1>2. idle \in BoxType /\ busy \in BoxType /\ idle.text = x.text /\ busy.text = x.text /\ idle.results = {} /\ busy.loading
  BY <1>1 DEF BoxType
<1>3. PICK y \in {idle, busy} : Triggered(u, b) = [u EXCEPT !.box[b] = y]
  BY <1>1 DEF Triggered, UiType, BoxType
<1>4. y \in BoxType /\ y.text = x.text /\ (y.results = {} \/ y.loading)
  BY <1>2
<1> HIDE DEF idle, busy
<1> DEFINE v == [u EXCEPT !.box[b] = y]
<1>5. v \in UiType /\ SameBut(u, v) /\ SameSelection(u, v) /\ \A c \in Box : v.box[c] = IF c = b THEN y ELSE u.box[c]
  BY <1>4, SetBox
<1> HIDE DEF v
<1> QED
  BY <1>3, <1>4, <1>5 DEF v

LEMMA SelectionClearedDoes ==
  ASSUME NEW u \in UiType, NEW b \in Box
  PROVE  LET v == SelectionCleared(u, b) IN
         /\ v \in UiType /\ SameBut(u, v) /\ v.box = u.box
         /\ b # "approver" => v.approver = u.approver /\ v.username = u.username
         /\ b # "target" => v.snapshot = u.snapshot /\ v.form = u.form
         /\ u.username = u.approver => v.username = v.approver
         /\ Names(v, b)
         /\ v.snapshot = None \/ (v.snapshot = u.snapshot /\ v.form = u.form)
<1> DEFINE ended == [u EXCEPT !.approver = None, !.username = None]
           noAccount == [u EXCEPT !.snapshot = None, !.form = NoForm]
           noGroup == [u EXCEPT !.snapshot = None, !.form = [@ EXCEPT !.groups = {}]]
<1>1. /\ ended \in UiType /\ SameBut(u, ended) /\ ended.box = u.box /\ ended.snapshot = u.snapshot /\ ended.form = u.form
      /\ ended.username = None /\ ended.approver = None
  BY DEF UiType, SameBut
<1>2. /\ noAccount \in UiType /\ SameBut(u, noAccount) /\ noAccount.box = u.box
      /\ noAccount.approver = u.approver /\ noAccount.username = u.username /\ noAccount.snapshot = None
  BY DEF UiType, SameBut, NoForm, TargetForm
<1>3. /\ noGroup \in UiType /\ SameBut(u, noGroup) /\ noGroup.box = u.box
      /\ noGroup.approver = u.approver /\ noGroup.username = u.username /\ noGroup.snapshot = None
  BY DEF UiType, SameBut, TargetForm
<1>4. CASE b = "approver"
  <2>1. SelectionCleared(u, b) = IF u.approver # None /\ ~Skips(u, b, u.box[b].text) THEN ended ELSE u
    BY <1>4 DEF SelectionCleared
  <2> HIDE DEF ended
  <2> QED
    BY <1>1, <1>4, <2>1 DEF Names, Skips, SameBut
<1>5. CASE b = "target"
  <2>1. SelectionCleared(u, b) = IF u.snapshot # None /\ ~Skips(u, b, u.box[b].text)
                                 THEN IF Account THEN noAccount ELSE noGroup ELSE u
    BY <1>5 DEF SelectionCleared, ClearedTarget, ClearedGroup
  <2> HIDE DEF noAccount, noGroup
  <2> QED
    BY <1>2, <1>3, <1>5, <2>1 DEF Names, Skips, SameBut
<1>6. CASE b = "member"
  BY <1>6 DEF SelectionCleared, Names, SameBut
<1> QED
  BY <1>4, <1>5, <1>6 DEF Box

LEMMA OptionDroppedDoes ==
  ASSUME NEW u \in UiType, NEW b \in Box
  PROVE  LET v == [u EXCEPT !.box[b].option = None] IN
         /\ v \in UiType /\ SameBut(u, v) /\ SameSelection(u, v)
         /\ \A c \in Box : /\ v.box[c].text = u.box[c].text /\ v.box[c].loading = u.box[c].loading
                           /\ v.box[c].results = u.box[c].results
  BY DEF UiType, BoxType, SameBut, SameSelection

\* The watchers of a box make the page agree if it does but for that box, and for
\* that too if its text is the one that was there.
LEMMA WatchedAgrees ==
  ASSUME NEW u \in UiType, NEW b \in Box,
         u.username = u.approver, ChosenOk(u), Tracks(u),
         \A c \in Box \ {b} : Names(u, c) /\ Offers(u, c),
         u.box[b].text = ui.box[b].text => Names(u, b) /\ Offers(u, b)
  PROVE  Watched(u, b) \in UiType /\ Agrees(Watched(u, b)) /\ Watched(u, b).sent = u.sent
<1> DEFINE w == Triggered(u, b)
           v == SelectionCleared(w, b)
           x == IF u.box[b].text = ui.box[b].text THEN u ELSE v
           y == [x EXCEPT !.box[b].option = None]
<1>1. /\ w \in UiType /\ SameBut(u, w) /\ SameSelection(u, w)
      /\ \A c \in Box : w.box[c].text = u.box[c].text /\ (c # b => w.box[c] = u.box[c])
      /\ w.box[b].results = {} \/ w.box[b].loading
  BY TriggeredDoes
<1>2. x \in UiType /\ Agrees(x) /\ x.sent = u.sent
  <2>1. CASE u.box[b].text = ui.box[b].text
    BY <2>1 DEF Agrees
  <2>2. CASE u.box[b].text # ui.box[b].text
    <3> HIDE DEF w
    <3>1. /\ v \in UiType /\ SameBut(w, v) /\ v.box = w.box
          /\ b # "approver" => v.approver = w.approver /\ v.username = w.username
          /\ b # "target" => v.snapshot = w.snapshot /\ v.form = w.form
          /\ w.username = w.approver => v.username = v.approver
          /\ Names(v, b)
          /\ v.snapshot = None \/ (v.snapshot = w.snapshot /\ v.form = w.form)
      BY <1>1, SelectionClearedDoes
    <3> HIDE DEF v
    <3>2. ASSUME NEW c \in Box
          PROVE  Names(v, c) /\ Offers(v, c)
      <4>1. CASE c = b
        BY <1>1, <3>1, <4>1 DEF Offers
      <4>2. CASE c # b
        <5>1. Names(u, c) /\ Offers(u, c) /\ v.box[c] = u.box[c]
          BY <1>1, <3>1, <4>2
        <5>2. Names(v, c)
          BY <1>1, <3>1, <4>2, <5>1 DEF Names, SameSelection
        <5> QED
          BY <5>1, <5>2 DEF Offers
      <4> QED
        BY <4>1, <4>2
    <3>3. ChosenOk(v) /\ Tracks(v) /\ v.username = v.approver
      BY <1>1, <3>1 DEF ChosenOk, Tracks, SameBut, SameSelection, Box
    <3>4. v.sent = u.sent
      BY <1>1, <3>1 DEF SameBut
    <3> QED
      BY <2>2, <3>1, <3>2, <3>3, <3>4 DEF Agrees
  <2> QED
    BY <2>1, <2>2
<1>3. Watched(u, b) \in {x, y}
  BY DEF Watched
<1> HIDE DEF x
<1>4. /\ y \in UiType /\ SameBut(x, y) /\ SameSelection(x, y)
      /\ \A c \in Box : /\ y.box[c].text = x.box[c].text /\ y.box[c].loading = x.box[c].loading
                        /\ y.box[c].results = x.box[c].results
  BY <1>2, OptionDroppedDoes
<1> HIDE DEF y
<1>5. Agrees(y) /\ y.sent = x.sent
  <2>1. \A c \in Box : Names(y, c) /\ Offers(y, c)
    BY <1>2, <1>4 DEF Agrees, Names, Offers, SameSelection, Box
  <2>2. ChosenOk(y) /\ Tracks(y) /\ y.username = y.approver
    BY <1>2, <1>4 DEF Agrees, ChosenOk, Tracks, SameBut, SameSelection, Box
  <2> QED
    BY <1>4, <2>1, <2>2 DEF Agrees, SameBut
<1> QED
  BY <1>2, <1>3, <1>4, <1>5

----------------------------------------------------------------------------
(* Every step of the page keeps its invariant.                              *)

LEMMA PageLater ==
  ASSUME PageInv, scenario' = scenario, ui' \in UiType, Agrees(ui'), SentAsMeant(ui')
  PROVE  PageInv'
  BY DEF PageInv, Agrees, Names, Offers, Found, ChosenOk, Tracks, SentAsMeant

\* As long as nothing is sent, nothing is to be said of what is.
LEMMA OpenLater ==
  ASSUME PageInv, OpenPage, scenario' = scenario, ui' \in UiType, Agrees(ui'), ui'.sent = ui.sent
  PROVE  PageInv'
  BY PageLater DEF OpenPage, SentAsMeant

LEMMA FoundIn ==
  ASSUME PageInv, NEW b \in Box, NEW text \in Text
  PROVE  Found(b, text) \subseteq Thing
  BY EditorAssumption DEF PageInv, Found, Thing

LEMMA BoxIn ==
  ASSUME PageInv, NEW b \in Box
  PROVE  ui \in UiType /\ ui.box[b] \in BoxType /\ Agrees(ui) /\ None \notin Thing
  BY EditorAssumption DEF PageInv, UiType, Thing

\* Another box than the one that a step sets.
LEMMA OtherBoxes ==
  ASSUME PageInv, NEW b \in Box, NEW u,
         \A c \in Box \ {b} : u.box[c] = ui.box[c],
         b = "approver" \/ u.approver = ui.approver, b = "target" \/ u.snapshot = ui.snapshot
  PROVE  \A c \in Box \ {b} : Names(u, c) /\ Offers(u, c)
  BY DEF PageInv, Agrees, Names, Offers, Box

LEMMA TypeStep ==
  ASSUME PageInv, NEW b \in Box, Type(b), scenario' = scenario
  PROVE  PageInv'
<1>1. OpenPage /\ ui \in UiType /\ ui.box[b] \in BoxType /\ Agrees(ui)
  BY BoxIn DEF Type
<1>2. PICK text \in Text \ {ui.box[b].text} :
        ui' = Watched([ui EXCEPT !.box[b] = [@ EXCEPT !.option = None, !.text = text]], b)
  BY DEF Type
<1> DEFINE x == [ui.box[b] EXCEPT !.option = None, !.text = text]
           u == [ui EXCEPT !.box[b] = x]
<1>3. x \in BoxType /\ x.text = text /\ ui' = Watched(u, b)
  BY <1>1, <1>2 DEF BoxType, UiType
<1> HIDE DEF x
<1>4. /\ u \in UiType /\ SameBut(ui, u) /\ SameSelection(ui, u)
      /\ \A c \in Box : u.box[c] = IF c = b THEN x ELSE ui.box[c]
  BY <1>1, <1>3, SetBox
<1> HIDE DEF u
<1>5. u.box[b].text # ui.box[b].text
  BY <1>3, <1>4
<1>6. \A c \in Box \ {b} : Names(u, c) /\ Offers(u, c)
  BY <1>4, OtherBoxes DEF SameSelection
<1>7. ChosenOk(u) /\ Tracks(u) /\ u.username = u.approver
  BY <1>1, <1>4, <1>5 DEF Agrees, Names, ChosenOk, Tracks, SameBut, SameSelection, Box
<1>8. ui' \in UiType /\ Agrees(ui') /\ ui'.sent = ui.sent
  BY <1>3, <1>4, <1>5, <1>6, <1>7, WatchedAgrees DEF SameBut
<1> QED
  BY <1>1, <1>8, OpenLater

\* A step within a box, whose text stays.
LEMMA WithinBox ==
  ASSUME PageInv, OpenPage, NEW b \in Box, NEW x \in BoxType, x.text = ui.box[b].text,
         ~x.loading => x.results \subseteq Found(b, x.text),
         scenario' = scenario, ui' = [ui EXCEPT !.box[b] = x]
  PROVE  PageInv'
<1> DEFINE u == [ui EXCEPT !.box[b] = x]
<1>1. ui \in UiType /\ Agrees(ui)
  BY DEF PageInv
<1>2. /\ u \in UiType /\ SameBut(ui, u) /\ SameSelection(ui, u)
      /\ \A c \in Box : u.box[c] = IF c = b THEN x ELSE ui.box[c]
  BY <1>1, SetBox
<1>3. ui' = u
  OBVIOUS
<1> HIDE DEF u
<1>4. \A c \in Box : Names(u, c) /\ Offers(u, c)
  BY <1>1, <1>2 DEF Agrees, Names, Offers, SameSelection, Box
<1>5. ChosenOk(u) /\ Tracks(u) /\ u.username = u.approver
  BY <1>1, <1>2 DEF Agrees, ChosenOk, Tracks, SameBut, SameSelection, Box
<1> QED
  BY <1>2, <1>3, <1>4, <1>5, OpenLater DEF Agrees, SameBut

LEMMA StartSearchStep ==
  ASSUME PageInv, NEW b \in Box, StartSearch(b), scenario' = scenario
  PROVE  PageInv'
<1>1. OpenPage /\ ui \in UiType /\ ui.box[b] \in BoxType /\ Agrees(ui)
  BY BoxIn DEF StartSearch
<1> DEFINE x(text) == [ui.box[b] EXCEPT !.pending = None, !.flight[text] = @ + 1]
<1>3. PICK text \in Text : ui' = [ui EXCEPT !.box[b] = x(text)]
  BY <1>1 DEF StartSearch, BoxType
<1>4. /\ x(text) \in BoxType /\ x(text).text = ui.box[b].text /\ x(text).loading = ui.box[b].loading
      /\ x(text).results = ui.box[b].results
  <2>1. ui.box[b].flight \in [Text -> Nat] /\ ui.box[b].flight[text] + 1 \in Nat
    BY <1>1 DEF BoxType
  <2> QED
    BY <1>1, <2>1 DEF BoxType
<1> HIDE DEF x
<1> QED
  BY <1>1, <1>3, <1>4, WithinBox DEF Agrees, Offers

LEMMA SearchAnsweredStep ==
  ASSUME PageInv, NEW b \in Box, SearchAnswered(b), scenario' = scenario
  PROVE  PageInv'
<1>1. OpenPage /\ ui.box[b] \in BoxType /\ Agrees(ui)
  BY BoxIn DEF SearchAnswered
<1> DEFINE landed(text) == [ui.box[b] EXCEPT !.flight[text] = @ - 1]
           taken(text, good) == [landed(text) EXCEPT !.results = IF good THEN Found(b, text) ELSE {}, !.loading = FALSE]
<1>2. PICK text \in {t \in Text : ui.box[b].flight[t] > 0}, good \in BOOLEAN :
        ui' = [ui EXCEPT !.box[b] = IF Wanted(ui.box[b], text) THEN taken(text, good) ELSE landed(text)]
  BY DEF SearchAnswered
<1>3. ui.box[b].flight[text] - 1 \in Nat /\ text \in Text
  BY <1>1, <1>2 DEF BoxType
<1>4. /\ landed(text) \in BoxType /\ landed(text).text = ui.box[b].text
      /\ landed(text).loading = ui.box[b].loading /\ landed(text).results = ui.box[b].results
  BY <1>1, <1>3 DEF BoxType
<1>5. CASE ui.box[b].text = text
  <2> DEFINE x == taken(text, good)
  <2>1. Found(b, text) \subseteq Thing
    BY <1>3, FoundIn
  <2>2. x \in BoxType /\ x.text = text /\ x.results \subseteq Found(b, text)
    BY <1>4, <1>5, <2>1 DEF BoxType
  <2>3. ui' = [ui EXCEPT !.box[b] = x]
    BY <1>2, <1>5 DEF Wanted
  <2> HIDE DEF x
  <2> QED
    BY <1>1, <1>5, <2>2, <2>3, WithinBox
<1>6. CASE ui.box[b].text # text
  <2> DEFINE x == landed(text)
  <2>1. ui' = [ui EXCEPT !.box[b] = x]
    BY <1>2, <1>6 DEF Wanted
  <2> HIDE DEF x
  <2> QED
    BY <1>1, <1>4, <2>1, WithinBox DEF Agrees, Offers, x
<1> QED
  BY <1>5, <1>6

\* A step that sets one box, and whatever the watchers of that box make of it.
LEMMA ThroughWatchers ==
  ASSUME PageInv, OpenPage, scenario' = scenario, NEW b \in Box, NEW u \in UiType, ui' = Watched(u, b),
         u.username = u.approver, u.sent = ui.sent, ChosenOk(u), Tracks(u),
         \A c \in Box \ {b} : u.box[c] = ui.box[c],
         b = "approver" \/ u.approver = ui.approver, b = "target" \/ u.snapshot = ui.snapshot,
         u.box[b].text = ui.box[b].text => Names(u, b) /\ Offers(u, b)
  PROVE  PageInv'
<1>1. \A c \in Box \ {b} : Names(u, c) /\ Offers(u, c)
  BY OtherBoxes
<1>2. Watched(u, b) \in UiType /\ Agrees(Watched(u, b)) /\ Watched(u, b).sent = u.sent
  BY <1>1, WatchedAgrees
<1> QED
  BY <1>2, OpenLater

LEMMA CommittedDoes ==
  ASSUME PageInv, NEW b \in Box, NEW o \in Thing
  PROVE  LET u == Committed(b, o) IN
         /\ u \in UiType /\ SameBut(ui, u) /\ SameSelection(ui, u)
         /\ \A c \in Box \ {b} : u.box[c] = ui.box[c]
         /\ u.box[b] \in BoxType /\ u.box[b].text = Label(o)
         /\ u.box[b].loading = ui.box[b].loading /\ u.box[b].results = ui.box[b].results
<1> DEFINE x == [ui.box[b] EXCEPT !.option = o, !.text = Label(o)]
           u == [ui EXCEPT !.box[b] = x]
<1>1. ui \in UiType /\ ui.box[b] \in BoxType
  BY BoxIn
<1>2. /\ x \in BoxType /\ x.text = Label(o) /\ x.loading = ui.box[b].loading /\ x.results = ui.box[b].results
      /\ Committed(b, o) = u
  BY <1>1, TextIn DEF BoxType, Committed, UiType
<1> HIDE DEF x
<1>3. /\ u \in UiType /\ SameBut(ui, u) /\ SameSelection(ui, u)
      /\ \A c \in Box : u.box[c] = IF c = b THEN x ELSE ui.box[c]
  BY <1>1, <1>2, SetBox
<1> HIDE DEF u
<1> QED
  BY <1>2, <1>3

LEMMA SelectApproverStep ==
  ASSUME PageInv, SelectApprover, scenario' = scenario
  PROVE  PageInv'
<1> DEFINE b == "approver"
<1>1. OpenPage /\ b \in Box /\ ui \in UiType /\ ui.box[b] \in BoxType /\ Agrees(ui)
  BY BoxIn DEF SelectApprover, Box
<1> DEFINE w(o) == [Committed(b, o) EXCEPT !.approver = o, !.username = o, !.box["approver"].results = {}]
<1>2. PICK o \in Thing : ui' = Watched(IF o \in ui.box[b].results THEN w(o) ELSE Committed(b, o), b)
  BY <1>1 DEF SelectApprover, BoxType
<1>3. PICK u : u = Committed(b, o)
  OBVIOUS
<1>4. /\ u \in UiType /\ SameBut(ui, u) /\ SameSelection(ui, u)
      /\ \A c \in Box \ {b} : u.box[c] = ui.box[c]
      /\ u.box[b] \in BoxType /\ u.box[b].text = Label(o)
      /\ u.box[b].loading = ui.box[b].loading /\ u.box[b].results = ui.box[b].results
  BY <1>1, <1>3, CommittedDoes
<1>5. ChosenOk(u) /\ Tracks(u) /\ u.username = u.approver
  BY <1>1, <1>4 DEF Agrees, ChosenOk, Tracks, SameBut, SameSelection, Box
<1>6. CASE o \in ui.box[b].results
  <2>1. PICK v : v = [u EXCEPT !.approver = o, !.username = o, !.box["approver"].results = {}]
    OBVIOUS
  <2>2. /\ v \in UiType /\ v.approver = o /\ v.username = o /\ SameBut(u, v) /\ v.snapshot = u.snapshot /\ v.form = u.form
        /\ \A c \in Box \ {b} : v.box[c] = u.box[c]
        /\ v.box[b].text = Label(o) /\ v.box[b].results = {}
    BY <1>4, <2>1 DEF UiType, BoxType, SameBut, Box
  <2>3. Names(v, b) /\ Offers(v, b)
    BY <2>2 DEF Names, Offers
  <2>4. ChosenOk(v) /\ Tracks(v)
    BY <1>5, <2>2 DEF ChosenOk, Tracks, SameBut, Box
  <2>5. ui' = Watched(v, b)
    BY <1>2, <1>3, <1>6, <2>1
  <2> QED
    BY <1>1, <1>4, <2>2, <2>3, <2>4, <2>5, ThroughWatchers DEF SameBut, SameSelection
<1>7. CASE o \notin ui.box[b].results
  <2>1. u.box[b].text = ui.box[b].text => Names(u, b) /\ Offers(u, b)
    BY <1>1, <1>4 DEF Agrees, Names, Offers, SameSelection
  <2>2. ui' = Watched(u, b)
    BY <1>2, <1>3, <1>7
  <2> QED
    BY <1>1, <1>4, <1>5, <2>1, <2>2, ThroughWatchers DEF SameBut, SameSelection
<1> QED
  BY <1>6, <1>7

LEMMA AddMembershipStep ==
  ASSUME PageInv, AddMembership, scenario' = scenario
  PROVE  PageInv'
<1> DEFINE b == "member"
<1>1. OpenPage /\ b \in Box /\ ui \in UiType /\ ui.box[b] \in BoxType /\ Agrees(ui)
  BY BoxIn DEF AddMembership, Box
<1>2. PICK o \in Thing :
        ui' = Watched([ui EXCEPT !.form.groups = @ \cup {o}, !.touched = @ \cup {o},
                                 !.box["member"] = [@ EXCEPT !.option = o, !.text = Short, !.results = {}]], b)
  BY <1>1 DEF AddMembership, BoxType
<1> DEFINE x == [ui.box[b] EXCEPT !.option = o, !.text = Short, !.results = {}]
<1>3. x \in BoxType /\ x.results = {}
  BY <1>1, TextIn DEF BoxType
<1>4. PICK u : u = [ui EXCEPT !.form.groups = @ \cup {o}, !.touched = @ \cup {o}, !.box["member"] = x]
  OBVIOUS
<1>5. ui' = Watched(u, b)
  BY <1>1, <1>2, <1>4 DEF UiType
<1> HIDE DEF x
<1>6. /\ u \in UiType /\ u.approver = ui.approver /\ u.username = ui.username /\ u.snapshot = ui.snapshot
      /\ u.chosen = ui.chosen /\ u.raced = ui.raced /\ u.sent = ui.sent /\ u.touched = ui.touched \cup {o}
      /\ u.form.title = ui.form.title /\ u.form.enabled = ui.form.enabled /\ u.form.expiry = ui.form.expiry /\ u.form.groups = ui.form.groups \cup {o}
      /\ u.box[b] = x /\ \A c \in Box \ {b} : u.box[c] = ui.box[c]
  BY <1>1, <1>3, <1>4 DEF UiType, TargetForm, Membership, Box
<1>7. ChosenOk(u) /\ Tracks(u) /\ u.username = u.approver
  BY <1>1, <1>6, BoxIn DEF Agrees, ChosenOk, Tracks, Box
<1>8. Names(u, b) /\ Offers(u, b)
  BY <1>3, <1>6 DEF Names, Offers
<1> QED
  BY <1>1, <1>5, <1>6, <1>7, <1>8, ThroughWatchers

LEMMA LoadingDoes ==
  ASSUME NEW u \in UiType, NEW o \in Thing
  PROVE  LET v == Loading(u, o) IN
         /\ v \in UiType /\ v.chosen = o /\ v.raced = u.raced /\ v.sent = u.sent /\ v.touched = u.touched
         /\ v.box = u.box /\ SameSelection(u, v)
<1>1. u.loads \in [Object -> Nat]
  BY DEF UiType
<1>2. [u.loads EXCEPT ![o] = @ + 1] \in [Object -> Nat]
  <2>1. CASE o \in Object
    <3>1. u.loads[o] + 1 \in Nat
      BY <1>1, <2>1
    <3> QED
      BY <1>1, <3>1
  <2>2. CASE o \notin Object
    BY <1>1, <2>2
  <2> QED
    BY <2>1, <2>2
<1> QED
  BY <1>2 DEF Loading, UiType, SameSelection

LEMMA SelectStep ==
  ASSUME PageInv, Select, scenario' = scenario
  PROVE  PageInv'
<1> DEFINE b == "target"
<1>1. OpenPage /\ b \in Box /\ ui \in UiType /\ ui.box[b] \in BoxType /\ Agrees(ui)
  BY BoxIn DEF Select, Box
<1>2. PICK o \in Thing : ui' = Watched(Loading(Committed(b, o), o), b)
  BY <1>1 DEF Select, BoxType
<1>3. PICK u : u = Committed(b, o)
  OBVIOUS
<1>4. /\ u \in UiType /\ SameBut(ui, u) /\ SameSelection(ui, u)
      /\ \A c \in Box \ {b} : u.box[c] = ui.box[c]
      /\ u.box[b] \in BoxType /\ u.box[b].text = Label(o)
      /\ u.box[b].loading = ui.box[b].loading /\ u.box[b].results = ui.box[b].results
  BY <1>1, <1>3, CommittedDoes
<1>5. PICK v : v = Loading(u, o)
  OBVIOUS
<1>6. /\ v \in UiType /\ v.chosen = o /\ v.raced = u.raced /\ v.sent = u.sent /\ v.touched = u.touched
      /\ v.box = u.box /\ SameSelection(u, v)
  BY <1>4, <1>5, LoadingDoes
<1>7. v.username = v.approver /\ Tracks(v)
  BY <1>1, <1>4, <1>6 DEF Agrees, Tracks, SameBut, SameSelection
<1>8. ChosenOk(v)
  BY <1>4, <1>6 DEF ChosenOk, Label
<1>9. v.box[b].text = ui.box[b].text => Names(v, b) /\ Offers(v, b)
  BY <1>1, <1>4, <1>6 DEF Agrees, Names, Offers, SameSelection
<1>10. ui' = Watched(v, b)
  BY <1>2, <1>3, <1>5
<1> QED
  BY <1>1, <1>4, <1>6, <1>7, <1>8, <1>9, <1>10, ThroughWatchers DEF SameBut, SameSelection

LEMMA BlurStep ==
  ASSUME PageInv, Blur, scenario' = scenario
  PROVE  PageInv'
<1>1. OpenPage /\ ui \in UiType /\ ui.box["target"] \in BoxType /\ Agrees(ui)
  BY BoxIn DEF Blur, Box
<1>2. PICK o \in Thing : ui' = Loading(ui, o)
  BY <1>1 DEF Blur, BoxType
<1>3. PICK v : v = Loading(ui, o)
  OBVIOUS
<1>4. /\ v \in UiType /\ v.sent = ui.sent /\ v.touched = ui.touched
      /\ v.box = ui.box /\ SameSelection(ui, v) /\ v.snapshot = None
  BY <1>1, <1>3, LoadingDoes DEF Blur, SameSelection
<1>5. Agrees(v)
  BY <1>1, <1>4 DEF Agrees, Names, Offers, ChosenOk, Tracks, SameSelection
<1> QED
  BY <1>1, <1>2, <1>3, <1>4, <1>5, OpenLater

LEMMA ToLocalType ==
  ASSUME NEW e \in Nat \cup {None}
  PROVE  ToLocal(e) \in Nat \cup {None}
<1>1. CASE e = None
  BY <1>1 DEF ToLocal
<1>2. CASE e # None
  <2>1. e \div 2 \in Nat
    BY <1>2
  <2>2. Clock(e \div 2) \in Nat
    BY <2>1, ClockAssumption DEF Clock
  <2> QED
    BY <1>2, <2>2 DEF ToLocal
<1> QED
  BY <1>1, <1>2

\* The expiries which come back from the form as they were are exactly those that
\* GivenBack describes; and no other ever comes back later than it was.
LEMMA RoundTrip ==
  ASSUME NEW e \in Nat \cup {None}
  PROVE  /\ FromLocal(ToLocal(e)) = e <=> GivenBack(e)
         /\ FromLocal(ToLocal(e)) # None => FromLocal(ToLocal(e)) <= e
<1>1. CASE e = None
  BY <1>1 DEF ToLocal, FromLocal, GivenBack
<1>2. CASE e # None
  <2> DEFINE m == e \div 2
             c == Clock(m)
             back == IF c < Back THEN c ELSE c + Hour
  <2>1. /\ m \in Nat /\ (e = 2 * m \/ e = 2 * m + 1) /\ (e % 2 = 0 <=> e = 2 * m)
    BY <1>2
  <2>2. c \in Nat /\ c = IF m < Back THEN m ELSE m - Hour
    BY <2>1, ClockAssumption DEF Clock
  <2>3. FromLocal(ToLocal(e)) = IF c >= Far THEN None ELSE 2 * back
    BY <1>2, <2>2, EditorAssumption DEF ToLocal, FromLocal
  <2>4. GivenBack(e) <=> e = 2 * m /\ m \notin Back..(Back + Hour - 1) /\ c < Far
    BY <1>2, <2>1 DEF GivenBack
  <2> HIDE DEF m, c
  <2>5. back \in Nat /\ back <= m /\ (back = m <=> m \notin Back..(Back + Hour - 1))
    BY <2>1, <2>2, ClockAssumption
  <2> HIDE DEF back
  <2>6. 2 * back <= e /\ (2 * back = e <=> e = 2 * m /\ back = m)
    BY <2>1, <2>5
  <2> QED
    BY <1>2, <2>2, <2>3, <2>4, <2>5, <2>6, ClockAssumption, EditorAssumption
<1> QED
  BY <1>1, <1>2

LEMMA FormOfType ==
  ASSUME NEW view \in Target
  PROVE  /\ FormOf(view) \in TargetForm /\ FormOf(view).title = view.title
         /\ FormOf(view).enabled = (IF view.enabled = None THEN "true" ELSE view.enabled)
         /\ FormOf(view).expiry = ToLocal(view.expiry) /\ FormOf(view).groups = view.groups
  BY ToLocalType DEF FormOf, Target, TargetForm

\* A load has come back, with or without an answer.
LEMMA Landed ==
  ASSUME PageInv, NEW o \in Object, ui.loads[o] > 0
  PROVE  LET u == [ui EXCEPT !.loads[o] = @ - 1] IN
         /\ u \in UiType /\ u.box = ui.box /\ SameSelection(ui, u) /\ u.chosen = ui.chosen /\ u.raced = ui.raced
         /\ u.sent = ui.sent /\ u.touched = ui.touched
<1>1. ui \in UiType /\ ui.loads[o] - 1 \in Nat
  BY DEF PageInv, UiType
<1> QED
  BY <1>1 DEF UiType, SameSelection

LEMMA AppliedStep ==
  ASSUME PageInv, OpenPage, scenario' = scenario, NEW view \in Target, NEW u \in UiType, u.box = ui.box,
         u.approver = ui.approver, u.username = ui.username, u.sent = ui.sent,
         ui' = Watched(Applied(u, view), "target")
  PROVE  PageInv'
<1> DEFINE b == "target"
           x == [u.box[b] EXCEPT !.results = {}, !.text = Label(view.of)]
<1>1. b \in Box /\ ui.username = ui.approver /\ u.box[b] \in BoxType
  BY DEF Box, PageInv, Agrees, UiType
<1>2. x \in BoxType /\ x.text = Label(view.of) /\ x.results = {}
  <2>1. Label(view.of) \in Text
    BY TextIn DEF Target, Thing
  <2> QED
    BY <1>1, <2>1 DEF BoxType
<1>3. PICK v : v = Applied(u, view)
  OBVIOUS
<1>4. v = [u EXCEPT !.snapshot = view,
                    !.form = FormOf(view),
                    !.box["target"] = x, !.raced = (u.chosen # view.of), !.touched = {}]
  BY <1>1, <1>3 DEF Applied, UiType
<1>5. FormOf(view) \in TargetForm
  BY FormOfType
<1> HIDE DEF x
<1>6. /\ v \in UiType /\ v.approver = u.approver /\ v.username = u.username /\ v.sent = u.sent
      /\ v.snapshot = view /\ v.chosen = u.chosen /\ v.raced = (u.chosen # view.of) /\ v.touched = {}
      /\ v.form = FormOf(view)
      /\ v.box[b] = x /\ \A c \in Box \ {b} : v.box[c] = u.box[c]
  BY <1>2, <1>4, <1>5 DEF UiType, Box
<1>7. ChosenOk(v) /\ Tracks(v) /\ Names(v, b) /\ Offers(v, b)
  <2>1. ChosenOk(v)
    BY <1>6 DEF ChosenOk
  <2>2. Tracks(v)
    BY <1>6, FormOfType DEF Tracks
  <2>3. Names(v, b) /\ Offers(v, b)
    BY <1>2, <1>6 DEF Names, Offers
  <2> QED
    BY <2>1, <2>2, <2>3
<1> QED
  BY <1>1, <1>3, <1>6, <1>7, ThroughWatchers

LEMMA LoadFailedStep ==
  ASSUME PageInv, OpenPage, scenario' = scenario, NEW u \in UiType, u.box = ui.box,
         u.approver = ui.approver, u.username = ui.username, u.sent = ui.sent,
         ui' = Watched(ClearedTarget(u), "target") \/ ui' = Watched(ClearedGroup(u), "target")
  PROVE  PageInv'
<1>1. "target" \in Box /\ Agrees(ui)
  BY DEF Box, PageInv
<1>2. PICK v \in {ClearedTarget(u), ClearedGroup(u)} : ui' = Watched(v, "target")
  OBVIOUS
<1>3. /\ v \in UiType /\ v.box = u.box /\ v.approver = u.approver /\ v.username = u.username /\ v.sent = u.sent
      /\ v.snapshot = None
  <2>1. CASE v = ClearedTarget(u)
    BY <2>1 DEF ClearedTarget, UiType, TargetForm, NoForm
  <2>2. CASE v = ClearedGroup(u)
    BY <2>2 DEF ClearedGroup, UiType, TargetForm
  <2> QED
    BY <1>2, <2>1, <2>2
<1>4. ChosenOk(v) /\ Tracks(v) /\ Names(v, "target") /\ Offers(v, "target")
  BY <1>1, <1>3 DEF Agrees, ChosenOk, Tracks, Names, Offers
<1> QED
  BY <1>1, <1>2, <1>3, <1>4, ThroughWatchers DEF Agrees

LEMMA ViewsIn ==
  ASSUME PageInv, NEW o \in Object
  PROVE  AccountView(o) \in Target /\ GroupView(o) \in Target
  BY EditorAssumption DEF PageInv, AccountView, GroupView, Target, Membership

LEMMA LoadAnsweredStep ==
  ASSUME PageInv, AccountAnswered \/ GroupAnswered, scenario' = scenario
  PROVE  PageInv'
<1>1. OpenPage
  BY DEF AccountAnswered, GroupAnswered, LoadAnswered
<1>2. PICK o \in Object :
        /\ ui.loads[o] > 0
        /\ LET u == [ui EXCEPT !.loads[o] = @ - 1] IN
           \/ ui' = Watched(Applied(u, AccountView(o)), "target")
           \/ ui' = Watched(Applied(u, GroupView(o)), "target")
           \/ ui' = Watched(ClearedTarget(u), "target") \/ ui' = Watched(ClearedGroup(u), "target")
  BY DEF AccountAnswered, GroupAnswered, LoadAnswered
<1>3. PICK u : u = [ui EXCEPT !.loads[o] = @ - 1]
  OBVIOUS
<1>4. /\ u \in UiType /\ u.box = ui.box /\ SameSelection(ui, u) /\ u.sent = ui.sent
  BY <1>2, <1>3, Landed
<1>5. AccountView(o) \in Target /\ GroupView(o) \in Target
  BY ViewsIn
<1>6. CASE ui' = Watched(Applied(u, AccountView(o)), "target")
  BY <1>1, <1>4, <1>5, <1>6, AppliedStep DEF SameSelection
<1>7. CASE ui' = Watched(Applied(u, GroupView(o)), "target")
  BY <1>1, <1>4, <1>5, <1>7, AppliedStep DEF SameSelection
<1>8. CASE ui' = Watched(ClearedTarget(u), "target") \/ ui' = Watched(ClearedGroup(u), "target")
  BY <1>1, <1>4, <1>8, LoadFailedStep DEF SameSelection
<1> QED
  BY <1>2, <1>3, <1>6, <1>7, <1>8

\* The form beside the target is edited, and what is edited touched.
LEMMA Edited ==
  ASSUME PageInv, OpenPage, scenario' = scenario, NEW u \in UiType, ui' = u,
         u.box = ui.box, u.approver = ui.approver, u.username = ui.username, u.snapshot = ui.snapshot,
         u.chosen = ui.chosen, u.raced = ui.raced, u.sent = ui.sent, Tracks(u)
  PROVE  PageInv'
<1>1. Agrees(u)
  BY DEF PageInv, Agrees, Names, Offers, ChosenOk
<1> QED
  BY <1>1, OpenLater

LEMMA EditFieldStep ==
  ASSUME PageInv, EditField, scenario' = scenario
  PROVE  PageInv'
<1>1. OpenPage /\ ui \in UiType /\ Tracks(ui)
  BY DEF EditField, PageInv, Agrees
<1>2. CASE \E title \in {"old", "new"} :
             ui' = [ui EXCEPT !.form.title = title, !.touched = @ \cup {"title"}]
  <2>1. PICK title, u : title \in {"old", "new"} /\ ui' = u /\ u = [ui EXCEPT !.form.title = title, !.touched = @ \cup {"title"}]
    BY <1>2
  <2>2. /\ u \in UiType /\ u.box = ui.box /\ u.approver = ui.approver /\ u.username = ui.username
        /\ u.snapshot = ui.snapshot /\ u.chosen = ui.chosen /\ u.raced = ui.raced /\ u.sent = ui.sent
        /\ u.touched = ui.touched \cup {"title"}
        /\ u.form.enabled = ui.form.enabled /\ u.form.expiry = ui.form.expiry /\ u.form.groups = ui.form.groups
    BY <1>1, <2>1 DEF UiType, TargetForm
  <2>3. Tracks(u)
    BY <1>1, <2>2 DEF Tracks
  <2> QED
    BY <1>1, <2>1, <2>2, <2>3, Edited
<1>3. CASE \E expiry \in {None, 0, 1} :
             ui' = [ui EXCEPT !.form.expiry = expiry, !.touched = @ \cup {"expiry"}]
  <2>1. PICK expiry, u : expiry \in {None, 0, 1} /\ ui' = u /\ u = [ui EXCEPT !.form.expiry = expiry, !.touched = @ \cup {"expiry"}]
    BY <1>3
  <2>2. /\ u \in UiType /\ u.box = ui.box /\ u.approver = ui.approver /\ u.username = ui.username
        /\ u.snapshot = ui.snapshot /\ u.chosen = ui.chosen /\ u.raced = ui.raced /\ u.sent = ui.sent
        /\ u.touched = ui.touched \cup {"expiry"}
        /\ u.form.title = ui.form.title /\ u.form.enabled = ui.form.enabled /\ u.form.groups = ui.form.groups
    <3>1. expiry \in Nat \cup {None}
      BY <2>1
    <3> QED
      BY <1>1, <2>1, <3>1 DEF UiType, TargetForm
  <2>3. Tracks(u)
    BY <1>1, <2>2 DEF Tracks
  <2> QED
    BY <1>1, <2>1, <2>2, <2>3, Edited
<1>4. CASE \E enabled \in {"true", "false"} :
             ui' = [ui EXCEPT !.form.enabled = enabled, !.touched = @ \cup {"enabled"}]
  <2>1. PICK enabled, u : enabled \in {"true", "false"} /\ ui' = u /\ u = [ui EXCEPT !.form.enabled = enabled, !.touched = @ \cup {"enabled"}]
    BY <1>4
  <2>2. /\ u \in UiType /\ u.box = ui.box /\ u.approver = ui.approver /\ u.username = ui.username
        /\ u.snapshot = ui.snapshot /\ u.chosen = ui.chosen /\ u.raced = ui.raced /\ u.sent = ui.sent
        /\ u.touched = ui.touched \cup {"enabled"}
        /\ u.form.title = ui.form.title /\ u.form.expiry = ui.form.expiry /\ u.form.groups = ui.form.groups
    BY <1>1, <2>1 DEF UiType, TargetForm
  <2>3. Tracks(u)
    BY <1>1, <2>2 DEF Tracks
  <2> QED
    BY <1>1, <2>1, <2>2, <2>3, Edited
<1> QED
  BY <1>2, <1>3, <1>4 DEF EditField

LEMMA ToggleMembershipStep ==
  ASSUME PageInv, ToggleMembership, scenario' = scenario
  PROVE  PageInv'
<1>1. OpenPage /\ ui \in UiType /\ Tracks(ui) /\ ui.snapshot \in Target /\ ui.form \in TargetForm
  BY DEF ToggleMembership, PageInv, Agrees, UiType
<1> DEFINE toggled(g) == IF g \in ui.form.groups THEN ui.form.groups \ {g} ELSE ui.form.groups \cup {g}
<1>2. PICK g, u :
        /\ g \in ui.snapshot.groups \cup ui.form.groups
        /\ ui' = u /\ u = [ui EXCEPT !.form.groups = toggled(g), !.touched = @ \cup {g}]
  BY <1>1 DEF ToggleMembership, UiType, TargetForm
<1>3. g \in Membership /\ toggled(g) \in SUBSET Membership
  BY <1>1, <1>2 DEF Target, TargetForm
<1>4. /\ toggled(g) \ ui.snapshot.groups \subseteq (ui.form.groups \ ui.snapshot.groups) \cup {g}
      /\ ui.snapshot.groups \ toggled(g) \subseteq (ui.snapshot.groups \ ui.form.groups) \cup {g}
  OBVIOUS
<1> HIDE DEF toggled
<1>5. /\ u \in UiType /\ u.box = ui.box /\ u.approver = ui.approver /\ u.username = ui.username
      /\ u.snapshot = ui.snapshot /\ u.chosen = ui.chosen /\ u.raced = ui.raced /\ u.sent = ui.sent
      /\ u.touched = ui.touched \cup {g}
      /\ u.form.title = ui.form.title /\ u.form.enabled = ui.form.enabled /\ u.form.expiry = ui.form.expiry /\ u.form.groups = toggled(g)
  BY <1>1, <1>2, <1>3 DEF UiType, TargetForm
<1>6. Tracks(u)
  BY <1>1, <1>4, <1>5 DEF Tracks
<1> QED
  BY <1>1, <1>2, <1>5, <1>6, Edited

LEMMA SendStep ==
  ASSUME PageInv, SendAccountChange \/ SendGroupChange, scenario' = scenario
  PROVE  PageInv'
<1>1. /\ OpenPage /\ ui \in UiType /\ Agrees(ui) /\ ui.snapshot # None /\ ui.snapshot \in Target /\ ui.form \in TargetForm
      /\ ui.username \in Thing /\ ui.username = ui.approver
  BY DEF SendAccountChange, SendGroupChange, Send, PageInv, Agrees, UiType
<1> DEFINE m == MembershipChanges(ui.snapshot, ui.form)
           s(fields) == [approver |-> ui.username, target |-> ui.snapshot.of, fields |-> fields, memberships |-> m]
<1>2. PICK fields \in {{}, AttributeChanges(ui.snapshot, ui.form)} : ui' = [ui EXCEPT !.sent = s(fields)]
  BY DEF SendAccountChange, SendGroupChange, Send
<1>3. fields \subseteq {"title", "enabled", "expiry"} /\ fields \subseteq ui.touched \cup SentUntouched(ui.snapshot)
  <2> SUFFICES ASSUME NEW field \in AttributeChanges(ui.snapshot, ui.form)
               PROVE  field \in {"title", "enabled", "expiry"} /\ field \in ui.touched \cup SentUntouched(ui.snapshot)
    BY <1>2
  <2>1. field \in {"title", "enabled", "expiry"}
    BY DEF AttributeChanges
  <2>2. Tracks(ui)
    BY <1>1 DEF Agrees
  <2>3. CASE field = "title"
    <3>1. ui.snapshot.title # ui.form.title
      BY <2>3 DEF AttributeChanges, Differs
    <3> QED
      BY <1>1, <2>1, <2>2, <2>3, <3>1 DEF Tracks
  <2>4. CASE field = "enabled"
    <3>1. ui.snapshot.enabled # ui.form.enabled
      BY <2>4 DEF AttributeChanges, Differs
    <3> QED
      BY <1>1, <2>1, <2>2, <2>4, <3>1 DEF Tracks, SentUntouched
  <2>5. CASE field = "expiry"
    <3>1. ui.snapshot.expiry # FromLocal(ui.form.expiry)
      BY <2>5 DEF AttributeChanges, Differs
    <3>2. ui.snapshot.expiry \in Nat \cup {None}
      BY <1>1 DEF Target
    <3>3. "expiry" \in ui.touched \/ ~GivenBack(ui.snapshot.expiry)
      BY <1>1, <2>2, <3>1, <3>2, RoundTrip DEF Tracks
    <3> QED
      BY <2>1, <2>5, <3>3 DEF SentUntouched
  <2> QED
    BY <2>1, <2>3, <2>4, <2>5
<1>4. /\ m \in [add : SUBSET Membership, remove : SUBSET Membership]
      /\ m.add \cup m.remove \subseteq ui.touched
  BY <1>1 DEF MembershipChanges, Target, TargetForm, Agrees, Tracks
<1> HIDE DEF m
<1>5. s(fields) \in Payload
  BY <1>1, <1>3, <1>4 DEF Payload, Target
<1>6. PICK u : u = [ui EXCEPT !.sent = s(fields)]
  OBVIOUS
<1>7. /\ u \in UiType /\ u.sent = s(fields) /\ u.box = ui.box /\ u.approver = ui.approver /\ u.username = ui.username
      /\ u.snapshot = ui.snapshot /\ u.form = ui.form /\ u.chosen = ui.chosen /\ u.raced = ui.raced /\ u.touched = ui.touched
  BY <1>1, <1>5, <1>6 DEF UiType
<1>8. Agrees(u)
  BY <1>1, <1>7 DEF Agrees, Names, Offers, ChosenOk, Tracks
<1>9. SentAsMeant(u)
  BY <1>1, <1>3, <1>4, <1>7 DEF SentAsMeant
<1> QED
  BY <1>2, <1>6, <1>7, <1>8, <1>9, PageLater

LEMMA PageInit == Init => PageInv
<1> SUFFICES ASSUME Init PROVE PageInv
  OBVIOUS
<1>1. /\ ui.username = None /\ ui.approver = None /\ ui.snapshot = None /\ ui.sent = None
      /\ \A b \in Box : ui.box[b] = EmptyBox
  BY DEF Init
<1>2. EmptyBox \in BoxType /\ EmptyBox.results = {}
  BY TextIn DEF EmptyBox, BoxType
<1>3. scenario \in Scenarios
  BY DEF Init, TemplatesInit
<1>4. ui \in UiType
  BY <1>2 DEF Init, UiType, NoForm, TargetForm
<1>5. Agrees(ui) /\ SentAsMeant(ui)
  BY <1>1, <1>2 DEF Agrees, Names, Offers, ChosenOk, Tracks, SentAsMeant
<1> QED
  BY <1>3, <1>4, <1>5 DEF PageInv

LEMMA PageNext == PageInv /\ [Next]_vars => PageInv'
<1> SUFFICES ASSUME PageInv, [Next]_vars
             PROVE  PageInv'
  OBVIOUS
<1>1. CASE scenario' = scenario /\ UNCHANGED ui
  BY <1>1, PageLater DEF PageInv
<1>2. CASE FormNext /\ UNCHANGED templateVars
  <2>1. scenario' = scenario
    BY <1>2 DEF templateVars
  <2> QED
    BY <1>2, <2>1, TypeStep, StartSearchStep, SearchAnsweredStep, SelectApproverStep, SelectStep, BlurStep,
       LoadAnsweredStep, EditFieldStep, AddMembershipStep, ToggleMembershipStep, SendStep
    DEF FormNext, SelectTargetUser, SelectTargetGroup, BlurTargetUser, BlurTargetGroup, SelectGroup, SelectMember,
        ToggleCurrentGroup, ToggleCurrentMember
<1>3. CASE TemplatesNext /\ UNCHANGED formVars
  <2>1. scenario' = scenario
    BY <1>3 DEF TemplatesNext, ReadExisting, CheckName, Write, ReadRows, ReadGroups, ResolveReference, StoreRequest,
      FailCall, SaveAnswered, ListAnswered, SubmitAnswered, Refresh, OpenCreate, OpenEdit, Edit, Save, Close,
      OpenForm, TypeName, TypeSam, TypeUpn, ToggleGroup, SelectTemplate, Submit, Fill
  <2> QED
    BY <1>1, <1>3, <2>1 DEF formVars
<1>4. CASE UNCHANGED vars
  BY <1>1, <1>4 DEF vars, templateVars, formVars
<1> QED
  BY <1>2, <1>3, <1>4 DEF Next

\* On the page for a new request, whatever searches and loads overtake each
\* other: the request goes to the approver whom the box names, the target is the
\* one chosen last unless an earlier load came after it, and a box that is not
\* searching offers what was found for its text (new.vue, useDirectoryTypeahead).
THEOREM Selection == Spec => []SelectionAgrees
<1>1. PageInv => SelectionAgrees
  BY DEF PageInv, Agrees, Names, Offers, ChosenOk, SelectionAgrees, Box
<1> QED
  BY <1>1, PageInit, PageNext, PTL DEF Spec

----------------------------------------------------------------------------
(* The invariant of the templates.                                          *)

Ids == Template \cup {None}
ViewType == [id : Template, version : Nat, torn : BOOLEAN, content : Content]
Input == [name : Name \cup {None}, active : BOOLEAN, suffix : Suffix \cup {None}, groups : SUBSET Group]
Reference == [id : Template, name : Name, version : Nat]

CallType ==
  [kind : {"create", "update", "list", "reload", "submit", None}, by : Admin \cup {Form, None},
   id : Ids, input : Input, view : ViewType \cup {None}, base : Nat,
   stage : {"idle", "sent", "based", "named", "written", "read", "resolved", "done", "failed"},
   read : SUBSET (Template \X Row), answer : SUBSET ViewType, ref : Reference \cup {None}]

PageType ==
  [views : SUBSET ViewType, open : BOOLEAN, editing : Ids, form : Input, saving : BOOLEAN]

UPN == (Name \cup {Typed}) \X (Suffix \cup {Default})
FormType ==
  [views : SUBSET ViewType, template : ViewType \cup {None}, given : Name \cup {None},
   sam : Name \cup {Typed, None}, upn : UPN \cup {Typed, None}, manual : SUBSET {"sam", "upn"},
   groups : SUBSET Group, submitting : BOOLEAN]

RequestType == [ref : Reference \cup {None}, view : ViewType \cup {None}, groups : SUBSET Group]

TemplatesShape ==
  /\ scenario \in Scenarios
  /\ rows \in [Template -> Row \cup {None}] /\ groupRows \in [Template -> SUBSET Group]
  /\ call \in [Slot -> CallType] /\ page \in [Admin -> PageType] /\ form \in FormType
  /\ requests \subseteq RequestType /\ committed \subseteq [id : Template, version : Nat, content : Content]

ContentOf(id) ==
  [name |-> rows[id].name, active |-> rows[id].active, suffix |-> rows[id].suffix, groups |-> groupRows[id]]

\* Unless it was overwritten, a template's versions are distinct, and its row is
\* the latest of them.
VersionsOk ==
  \A id \in Template \ overwritten :
    /\ \A v, w \in committed : v.id = id /\ w.id = id /\ v.version = w.version => v = w
    /\ rows[id] = None => \A v \in committed : v.id # id
    /\ rows[id] # None => /\ Version(id, rows[id].version, ContentOf(id)) \in committed
                          /\ \A v \in committed : v.id = id => v.version <= rows[id].version

\* A view is of an existing template and not of its future; and of a version
\* unless it is torn.
Seen(v) ==
  /\ rows[v.id] # None
  /\ v.id \notin overwritten => /\ v.version <= rows[v.id].version
                                /\ ~v.torn => Version(v.id, v.version, v.content) \in committed

ReadOk(t, row) == rows[t] # None /\ (t \notin overwritten => row.version <= rows[t].version)

\* A reference names a version under which its template was active, that of the
\* view or a later one.
RefOk(ref, view) ==
  ref # None /\ ref.id \notin overwritten =>
    /\ ref.version >= view.version
    /\ \E v \in committed : /\ v.id = ref.id /\ v.version = ref.version
                            /\ v.content.name = ref.name /\ v.content.active

CallOk(k) ==
  /\ k.kind = "update" /\ k.stage # "idle" => k.id # None
  /\ k.id # None => rows[k.id] # None
  /\ k.stage = "named" => k.input.name # None /\ k.kind \in {"create", "update"}
  /\ k.stage = "written" => k.id # None
  /\ k.stage = "based" => k.kind = "update"
  /\ k.stage = "sent" => k.ref = None
  /\ \A r \in k.read : ReadOk(r[1], r[2])
  /\ \A v \in k.answer : Seen(v)
  /\ k.kind = "submit" /\ k.id # None => k.view # None /\ k.view.id = k.id /\ Seen(k.view)
  /\ k.stage = "resolved" => RefOk(k.ref, k.view)

PageOk(p) ==
  /\ \A v \in p.views : Seen(v)
  /\ p.editing # None => rows[p.editing] # None

FormOk(f) ==
  /\ \A v \in f.views : Seen(v)
  /\ f.template # None => Seen(f.template)

UpnOk(f) == f.sam # None /\ "upn" \notin f.manual => f.upn = Suggested(f.sam, f.template)

TemplateInv ==
  /\ TemplatesShape
  /\ VersionsOk
  /\ \A c \in Slot : CallOk(call[c])
  /\ \A a \in Admin : PageOk(page[a])
  /\ FormOk(form)
  /\ \A r \in requests : RefOk(r.ref, r.view)
  /\ UpnOk(form)

----------------------------------------------------------------------------
(* Lemmas about calls, views and the form.                                  *)

LEMMA InitialTypes ==
  /\ Empty \in Input /\ Content \subseteq Input /\ Idle \in CallType /\ CallOk(Idle)
  BY DEF Empty, Input, Content, Idle, CallType, CallOk, Ids

LEMMA AnsweredOk ==
  ASSUME NEW k \in CallType, CallOk(k), k.stage # "idle", NEW ok \in BOOLEAN, NEW views \in SUBSET ViewType, \A v \in views : Seen(v)
  PROVE  Answered(k, ok, views) \in CallType /\ CallOk(Answered(k, ok, views))
<1> DEFINE a == [k EXCEPT !.stage = IF ok THEN "done" ELSE "failed", !.answer = views]
<1>1. /\ a \in CallType /\ a.stage \in {"done", "failed"} /\ a.answer = views
      /\ a.kind = k.kind /\ a.id = k.id /\ a.view = k.view /\ a.read = k.read
  BY DEF CallType
<1>2. Answered(k, ok, views) = a
  BY DEF Answered
<1> HIDE DEF a
<1> QED
  BY <1>1, <1>2 DEF CallOk

LEMMA RequestedOk ==
  ASSUME NEW kind \in {"create", "update", "list", "reload"}, NEW by \in Admin \cup {Form, None},
         NEW id \in Ids, NEW input \in Input,
         kind = "update" => id # None, id # None => rows[id] # None
  PROVE  Requested(kind, by, id, input) \in CallType /\ CallOk(Requested(kind, by, id, input))
  BY InitialTypes DEF Requested, Idle, CallType, CallOk

\* A step that writes nothing.
LEMMA SettledLater ==
  ASSUME TemplateInv, UNCHANGED <<scenario, rows, groupRows, committed, overwritten>>,
         call' \in [Slot -> CallType], \A c \in Slot : CallOk(call'[c]),
         page' \in [Admin -> PageType], \A a \in Admin : PageOk(page'[a]),
         form' \in FormType, FormOk(form'), UpnOk(form'),
         requests' \subseteq RequestType, \A r \in requests' : RefOk(r.ref, r.view)
  PROVE  TemplateInv'
<1>1. TemplatesShape' /\ VersionsOk' /\ UpnOk(form)'
  BY DEF TemplateInv, TemplatesShape, VersionsOk, ContentOf, UpnOk
<1>2. (\A c \in Slot : CallOk(call[c]))'
  BY DEF CallOk, Seen, ReadOk, RefOk
<1>3. (\A a \in Admin : PageOk(page[a]))' /\ FormOk(form)'
  BY DEF PageOk, FormOk, Seen
<1>4. (\A r \in requests : RefOk(r.ref, r.view))'
  BY DEF RefOk
<1> QED
  BY <1>1, <1>2, <1>3, <1>4 DEF TemplateInv

LEMMA PutOk ==
  ASSUME TemplateInv, NEW c \in Slot, NEW k \in CallType, CallOk(k), Put(c, k)
  PROVE  call' \in [Slot -> CallType] /\ \A d \in Slot : CallOk(call'[d])
  BY DEF TemplateInv, TemplatesShape, Put

LEMMA CallLater ==
  ASSUME TemplateInv, NEW c \in Slot, NEW k \in CallType, CallOk(k), Put(c, k),
         UNCHANGED <<scenario, rows, groupRows, page, form, requests, committed, overwritten>>
  PROVE  TemplateInv'
<1>1. call' \in [Slot -> CallType] /\ \A d \in Slot : CallOk(call'[d])
  BY PutOk
<1> QED
  BY <1>1, SettledLater DEF TemplateInv, TemplatesShape

LEMMA CallIn ==
  ASSUME TemplateInv, NEW c \in Slot
  PROVE  call[c] \in CallType /\ CallOk(call[c])
  BY DEF TemplateInv, TemplatesShape

----------------------------------------------------------------------------
(* The API keeps the invariant of the templates.                            *)

LEMMA ReadExistingStep ==
  ASSUME TemplateInv, NEW c \in Slot, ReadExisting(c)
  PROVE  TemplateInv'
<1>1. call[c] \in CallType /\ CallOk(call[c]) /\ call[c].kind = "update" /\ call[c].stage = "sent"
  BY CallIn DEF ReadExisting, At
<1>2. rows[call[c].id].version \in Nat
  BY <1>1 DEF CallOk, CallType, Ids, TemplateInv, TemplatesShape, Row
<1>3. PICK k : k = [call[c] EXCEPT !.base = rows[call[c].id].version, !.stage = "based"]
  OBVIOUS
<1>4. /\ k \in CallType /\ k.stage = "based" /\ k.kind = call[c].kind /\ k.id = call[c].id /\ k.read = call[c].read
      /\ k.answer = call[c].answer
  BY <1>1, <1>2, <1>3 DEF CallType
<1>5. CallOk(k)
  BY <1>1, <1>4 DEF CallOk
<1> QED
  BY <1>3, <1>4, <1>5, CallLater DEF ReadExisting

LEMMA CheckNameStep ==
  ASSUME TemplateInv, NEW c \in Slot, CheckName(c)
  PROVE  TemplateInv'
<1>1. call[c] \in CallType /\ CallOk(call[c]) /\ call[c].kind \in {"create", "update"}
      /\ call[c].stage \in {"sent", "based"}
  BY CallIn DEF CheckName, At
<1>2. CASE ~ParseInput(call[c].input) \/ Taken(call[c].input.name, call[c].id)
  <2>1. Answered(call[c], FALSE, {}) \in CallType /\ CallOk(Answered(call[c], FALSE, {}))
    BY <1>1, AnsweredOk
  <2> QED
    BY <1>2, <2>1, CallLater DEF CheckName
<1>3. CASE ~(~ParseInput(call[c].input) \/ Taken(call[c].input.name, call[c].id))
  <2>1. PICK k : k = [call[c] EXCEPT !.stage = "named"]
    OBVIOUS
  <2>2. /\ k \in CallType /\ k.stage = "named" /\ k.kind = call[c].kind /\ k.id = call[c].id /\ k.read = call[c].read
        /\ k.answer = call[c].answer /\ k.input = call[c].input
    BY <1>1, <2>1 DEF CallType
  <2>3. CallOk(k)
    BY <1>1, <1>3, <2>2 DEF CallOk, ParseInput
  <2> QED
    BY <1>3, <2>1, <2>2, <2>3, CallLater DEF CheckName
<1> QED
  BY <1>2, <1>3

LEMMA ReadRowsStep ==
  ASSUME TemplateInv, NEW c \in Slot, ReadRows(c)
  PROVE  TemplateInv'
<1>1. call[c] \in CallType /\ CallOk(call[c]) /\ call[c].stage # "idle" /\ rows \in [Template -> Row \cup {None}]
  BY CallIn DEF TemplateInv, TemplatesShape, ReadRows, At
<1>2. PICK ids \in SUBSET Existing :
        Put(c, [call[c] EXCEPT !.read = {<<t, rows[t]>> : t \in ids}, !.stage = "read"])
  <2>1. call[c].stage = "written" => {call[c].id} \subseteq Existing
    BY <1>1 DEF CallOk, CallType, Ids, Existing
  <2> QED
    BY <2>1 DEF ReadRows, Existing
<1> DEFINE R == {<<t, rows[t]>> : t \in ids}
<1>3. R \subseteq Template \X Row /\ \A r \in R : ReadOk(r[1], r[2])
  BY <1>1 DEF Existing, ReadOk, Row
<1> HIDE DEF R
<1>4. PICK k : k = [call[c] EXCEPT !.read = R, !.stage = "read"]
  OBVIOUS
<1>5. /\ k \in CallType /\ k.stage = "read" /\ k.read = R /\ k.kind = call[c].kind /\ k.id = call[c].id
      /\ k.answer = call[c].answer /\ k.view = call[c].view
  BY <1>1, <1>3, <1>4 DEF CallType
<1>6. CallOk(k)
  BY <1>1, <1>3, <1>5 DEF CallOk
<1> QED
  BY <1>2, <1>4, <1>5, <1>6, CallLater DEF ReadRows, R

\* Not torn, a view shows what was committed under its version.
LEMMA ViewSeen ==
  ASSUME TemplateInv, NEW id \in Template, NEW row \in Row, ReadOk(id, row)
  PROVE  View(id, row) \in ViewType /\ Seen(View(id, row))
<1>1. rows \in [Template -> Row \cup {None}] /\ groupRows \in [Template -> SUBSET Group]
  BY DEF TemplateInv, TemplatesShape
<1>2. PICK v : v = View(id, row)
  OBVIOUS
<1>3. /\ v \in ViewType /\ v.id = id /\ v.version = row.version /\ v.torn = (rows[id] # row)
      /\ v.content = [name |-> row.name, active |-> row.active, suffix |-> row.suffix, groups |-> groupRows[id]]
  BY <1>1, <1>2 DEF View, ViewType, Row, Content
<1>4. ASSUME id \notin overwritten, ~v.torn
      PROVE  Version(id, v.version, v.content) \in committed
  <2>1. rows[id] = row /\ rows[id] # None
    BY <1>3, <1>4 DEF ReadOk
  <2>2. Version(id, rows[id].version, ContentOf(id)) \in committed
    BY <1>4, <2>1 DEF TemplateInv, VersionsOk
  <2> QED
    BY <1>3, <2>1, <2>2 DEF ContentOf
<1>5. Seen(v)
  BY <1>3, <1>4 DEF ReadOk, Seen
<1> QED
  BY <1>2, <1>3, <1>5

LEMMA ReadGroupsStep ==
  ASSUME TemplateInv, NEW c \in Slot, ReadGroups(c)
  PROVE  TemplateInv'
<1>1. call[c] \in CallType /\ CallOk(call[c]) /\ call[c].stage = "read"
  BY CallIn DEF ReadGroups
<1> DEFINE V == {View(r[1], r[2]) : r \in call[c].read}
<1>2. V \subseteq ViewType /\ \A v \in V : Seen(v)
  <2>1. \A r \in call[c].read : r[1] \in Template /\ r[2] \in Row /\ ReadOk(r[1], r[2])
    BY <1>1 DEF CallType, CallOk
  <2> QED
    BY <2>1, ViewSeen
<1>3. Put(c, Answered(call[c], TRUE, V))
  BY DEF ReadGroups
<1> HIDE DEF V
<1>4. Answered(call[c], TRUE, V) \in CallType /\ CallOk(Answered(call[c], TRUE, V))
  BY <1>1, <1>2, AnsweredOk
<1> QED
  BY <1>3, <1>4, CallLater DEF ReadGroups

LEMMA ResolveReferenceStep ==
  ASSUME TemplateInv, NEW c \in Slot, ResolveReference(c)
  PROVE  TemplateInv'
<1>1. /\ call[c] \in CallType /\ CallOk(call[c]) /\ call[c].kind = "submit" /\ call[c].stage = "sent"
      /\ rows \in [Template -> Row \cup {None}]
  BY CallIn DEF ResolveReference, At, TemplateInv, TemplatesShape
<1> DEFINE j == call[c]
<1>2. CASE j.id = None
  <2>1. PICK k : k = [j EXCEPT !.stage = "resolved"]
    OBVIOUS
  <2>2. /\ k \in CallType /\ k.stage = "resolved" /\ k.kind = j.kind /\ k.id = j.id /\ k.read = j.read
        /\ k.answer = j.answer /\ k.view = j.view /\ k.ref = j.ref
    BY <1>1, <2>1 DEF CallType
  <2>3. CallOk(k)
    BY <1>1, <1>2, <2>2 DEF CallOk, RefOk
  <2>4. Put(c, k)
    BY <1>2, <2>1 DEF ResolveReference
  <2> QED
    BY <2>2, <2>3, <2>4, CallLater DEF ResolveReference
<1>3. CASE j.id # None /\ ~rows[j.id].active
  <2>1. Answered(j, FALSE, {}) \in CallType /\ CallOk(Answered(j, FALSE, {}))
    BY <1>1, AnsweredOk
  <2> QED
    BY <1>3, <2>1, CallLater DEF ResolveReference
<1>4. CASE j.id # None /\ rows[j.id].active
  <2> DEFINE ref == [id |-> j.id, name |-> rows[j.id].name, version |-> rows[j.id].version]
  <2>1. j.id \in Template /\ rows[j.id] \in Row /\ rows[j.id] # None /\ j.view.id = j.id /\ Seen(j.view)
    BY <1>1, <1>4 DEF CallOk, CallType, Ids
  <2>2. ref \in Reference
    BY <2>1 DEF Reference, Row
  <2>3. RefOk(ref, j.view)
    <3>1. ASSUME j.id \notin overwritten
          PROVE  /\ rows[j.id].version >= j.view.version
                 /\ Version(j.id, rows[j.id].version, ContentOf(j.id)) \in committed
      BY <2>1, <3>1, <1>1 DEF Seen, TemplateInv, VersionsOk, CallType, ViewType, Row
    <3> QED
      BY <1>4, <3>1 DEF RefOk, Version, ContentOf
  <2>4. PICK k : k = [j EXCEPT !.stage = "resolved", !.ref = ref]
    OBVIOUS
  <2>5. Put(c, k)
    BY <1>4, <2>4 DEF ResolveReference
  <2> HIDE DEF ref
  <2>6. /\ k \in CallType /\ k.stage = "resolved" /\ k.kind = j.kind /\ k.id = j.id /\ k.read = j.read
        /\ k.answer = j.answer /\ k.view = j.view /\ k.ref = ref
    BY <1>1, <2>2, <2>4 DEF CallType
  <2>7. CallOk(k)
    BY <1>1, <2>3, <2>6 DEF CallOk
  <2> QED
    BY <2>5, <2>6, <2>7, CallLater DEF ResolveReference
<1> QED
  BY <1>2, <1>3, <1>4

LEMMA StoreRequestStep ==
  ASSUME TemplateInv, NEW c \in Slot, StoreRequest(c)
  PROVE  TemplateInv'
<1>1. call[c] \in CallType /\ CallOk(call[c]) /\ call[c].stage = "resolved"
  BY CallIn DEF StoreRequest, At
<1>2. Answered(call[c], TRUE, {}) \in CallType /\ CallOk(Answered(call[c], TRUE, {}))
  BY <1>1, AnsweredOk
<1>3. call' \in [Slot -> CallType] /\ \A d \in Slot : CallOk(call'[d])
  BY <1>2, PutOk DEF StoreRequest
<1> DEFINE r == [ref |-> call[c].ref, view |-> call[c].view, groups |-> call[c].input.groups]
<1>4. r \in RequestType /\ RefOk(r.ref, r.view)
  BY <1>1 DEF RequestType, CallType, Input, CallOk
<1>5. requests' = requests \cup {r}
  BY DEF StoreRequest
<1> HIDE DEF r
<1>6. requests' \subseteq RequestType /\ \A q \in requests' : RefOk(q.ref, q.view)
  BY <1>4, <1>5 DEF TemplateInv, TemplatesShape
<1> QED
  BY <1>3, <1>6, SettledLater DEF StoreRequest, TemplateInv, TemplatesShape

LEMMA FailCallStep ==
  ASSUME TemplateInv, NEW c \in Slot, FailCall(c)
  PROVE  TemplateInv'
<1>1. Answered(call[c], FALSE, {}) \in CallType /\ CallOk(Answered(call[c], FALSE, {}))
  BY CallIn, AnsweredOk DEF FailCall
<1> QED
  BY <1>1, CallLater DEF FailCall

\* Templates stay, and get newer unless overwritten.
Grown ==
  /\ overwritten \subseteq overwritten' /\ committed \subseteq committed'
  /\ \A t \in Template : rows[t] # None =>
       rows'[t] # None /\ (t \notin overwritten' => rows[t].version <= rows'[t].version /\ rows'[t].version \in Nat)

LEMMA SeenLater ==
  ASSUME TemplateInv, Grown, NEW v \in ViewType, Seen(v)
  PROVE  Seen(v)'
<1>1. v.id \in Template /\ v.version \in Nat /\ rows[v.id] \in Row
  BY DEF ViewType, Seen, TemplateInv, TemplatesShape
<1> QED
  BY <1>1 DEF Seen, Grown, Row

LEMMA ReadLater ==
  ASSUME TemplateInv, Grown, NEW t \in Template, NEW row \in Row, ReadOk(t, row)
  PROVE  ReadOk(t, row)'
<1>1. row.version \in Nat /\ rows[t] \in Row
  BY DEF ReadOk, Row, TemplateInv, TemplatesShape
<1> QED
  BY <1>1 DEF ReadOk, Grown, Row

LEMMA RefLater ==
  ASSUME Grown, NEW ref, NEW view, RefOk(ref, view)
  PROVE  RefOk(ref, view)'
  BY DEF RefOk, Grown

LEMMA CallGrown ==
  ASSUME TemplateInv, Grown, NEW k \in CallType, CallOk(k)
  PROVE  CallOk(k)'
<1>1. \A r \in k.read : ReadOk(r[1], r[2])'
  <2>1. \A r \in k.read : r[1] \in Template /\ r[2] \in Row /\ ReadOk(r[1], r[2])
    BY DEF CallType, CallOk
  <2> QED
    BY <2>1, ReadLater
<1>2. \A v \in k.answer : Seen(v)'
  BY SeenLater DEF CallOk, CallType
<1>3. k.kind = "submit" /\ k.id # None => Seen(k.view)'
  BY SeenLater DEF CallOk, CallType
<1>4. k.stage = "resolved" => RefOk(k.ref, k.view)'
  BY RefLater DEF CallOk
<1>5. k.id # None => rows'[k.id] # None
  BY DEF CallOk, CallType, Ids, Grown
<1> QED
  BY <1>1, <1>2, <1>3, <1>4, <1>5 DEF CallOk

LEMMA WrittenGrown ==
  ASSUME TemplateInv, NEW id \in Template, NEW row \in Row,
         rows' = [rows EXCEPT ![id] = row], committed \subseteq committed', overwritten \subseteq overwritten',
         rows[id] # None /\ id \notin overwritten' => rows[id].version <= row.version
  PROVE  Grown
<1>1. rows \in [Template -> Row \cup {None}] /\ row # None /\ row.version \in Nat
  BY TemplatesAssumption DEF TemplateInv, TemplatesShape, Row
<1>2. \A t \in Template : rows[t] # None => rows[t].version \in Nat
  BY <1>1 DEF Row
<1> QED
  BY <1>1, <1>2 DEF Grown

LEMMA WriteStep ==
  ASSUME TemplateInv, NEW c \in Slot, Write(c)
  PROVE  TemplateInv'
<1> DEFINE k == call[c]
           i == k.input
<1>1. /\ k \in CallType /\ CallOk(k) /\ k.stage = "named" /\ k.kind \in {"create", "update"} /\ i.name # None
      /\ rows \in [Template -> Row \cup {None}] /\ groupRows \in [Template -> SUBSET Group]
      /\ call \in [Slot -> CallType] /\ committed \subseteq [id : Template, version : Nat, content : Content]
      /\ VersionsOk
  BY CallIn DEF Write, CallOk, TemplateInv, TemplatesShape
<1>2. CASE Taken(i.name, k.id)
  <2>1. Answered(k, FALSE, {}) \in CallType /\ CallOk(Answered(k, FALSE, {}))
    BY <1>1, AnsweredOk
  <2> QED
    BY <1>2, <2>1, CallLater DEF Write
<1>3. CASE ~Taken(i.name, k.id)
  <2>1. PICK id, version :
          /\ id = IF k.kind = "create" THEN CHOOSE t \in Template \ Existing : TRUE ELSE k.id
          /\ version = IF k.kind = "create" THEN 1 ELSE NextVersion(k)
    OBVIOUS
  <2>2. /\ id \in Template /\ version \in Nat
        /\ k.kind = "create" => rows[id] = None /\ version = 1
        /\ k.kind = "update" => rows[id] # None /\ version = k.base + 1 /\ k.base \in Nat
    <3>1. CASE k.kind = "create"
      <4>1. Template \ Existing # {}
        BY <3>1 DEF Write, Existing
      <4> QED
        BY <2>1, <3>1, <4>1 DEF Existing
    <3>2. CASE k.kind = "update"
      BY <1>1, <2>1, <3>2 DEF CallOk, CallType, Ids, NextVersion
    <3> QED
      BY <1>1, <3>1, <3>2
  <2>3. PICK row, new, j :
          /\ row = [name |-> i.name, active |-> i.active, suffix |-> i.suffix, version |-> version]
          /\ new = Version(id, version, i)
          /\ j = [k EXCEPT !.id = id, !.stage = "written"]
    OBVIOUS
  <2>4. /\ rows' = [rows EXCEPT ![id] = row] /\ groupRows' = [groupRows EXCEPT ![id] = i.groups]
        /\ committed' = committed \cup {new}
        /\ overwritten' = IF k.kind = "update" /\ rows[id].version # k.base THEN overwritten \cup {id} ELSE overwritten
        /\ Put(c, j) /\ UNCHANGED <<scenario, page, form, requests>>
    BY <1>3, <2>1, <2>3 DEF Write
  <2>5. i \in Content /\ row \in Row /\ row # None /\ row.version = version
        /\ new \in [id : Template, version : Nat, content : Content]
        /\ new.id = id /\ new.version = version /\ new.content = i
    BY <1>1, <2>2, <2>3, TemplatesAssumption DEF CallType, Input, Content, Row, Version
  <2>6. rows[id] # None /\ id \notin overwritten' => rows[id].version + 1 = version /\ rows[id].version \in Nat
    BY <1>1, <2>2, <2>4 DEF Row
  <2>7. Grown
    <3>1. committed \subseteq committed' /\ overwritten \subseteq overwritten'
      BY <2>4
    <3>2. rows[id] # None /\ id \notin overwritten' => rows[id].version <= row.version
      BY <2>2, <2>5, <2>6
    <3> QED
      BY <2>2, <2>4, <2>5, <3>1, <3>2, WrittenGrown
  <2>8. TemplatesShape'
    <3>1. j \in CallType
      BY <1>1, <2>2, <2>3 DEF CallType, Ids
    <3>2. i.groups \subseteq Group
      BY <2>5 DEF Content
    <3> QED
      BY <1>1, <2>4, <2>5, <3>1, <3>2 DEF TemplateInv, TemplatesShape, Put
  <2>9. VersionsOk'
    <3>1. ASSUME NEW t \in Template, t # id, t \notin overwritten'
          PROVE  /\ rows'[t] = rows[t] /\ ContentOf(t)' = ContentOf(t) /\ t \notin overwritten
                 /\ \A v \in committed' : v.id = t => v \in committed
      BY <1>1, <2>4, <2>5, <3>1 DEF ContentOf
    <3>2. ASSUME id \notin overwritten'
          PROVE  /\ rows'[id] = row /\ ContentOf(id)' = i
                 /\ \A v \in committed : v.id = id => v.version < version
      <4>1. rows'[id] = row /\ groupRows'[id] = i.groups /\ id \notin overwritten
        BY <1>1, <2>2, <2>4, <3>2
      <4>2. ContentOf(id)' = i
        BY <2>3, <2>5, <4>1 DEF ContentOf, Content
      <4>3. ASSUME NEW v \in committed, v.id = id
            PROVE  v.version < version
        <5>1. v.version \in Nat
          BY <1>1
        <5>2. rows[id] # None /\ v.version <= rows[id].version
          BY <1>1, <2>2, <4>1, <4>3 DEF VersionsOk
        <5> QED
          BY <2>6, <3>2, <5>1, <5>2
      <4> QED
        BY <4>1, <4>2, <4>3
    <3>3. ASSUME NEW t \in Template \ overwritten'
          PROVE  /\ \A v, w \in committed' : v.id = t /\ w.id = t /\ v.version = w.version => v = w
                 /\ rows'[t] = None => \A v \in committed' : v.id # t
                 /\ rows'[t] # None => /\ Version(t, rows'[t].version, ContentOf(t)') \in committed'
                                       /\ \A v \in committed' : v.id = t => v.version <= rows'[t].version
      <4>1. CASE t # id
        BY <1>1, <2>4, <3>1, <3>3, <4>1 DEF VersionsOk
      <4>2. CASE t = id
        <5>1. /\ rows'[id] = row /\ ContentOf(id)' = i
              /\ \A v \in committed : v.id = id => v.version < version
          BY <3>2, <3>3, <4>2
        <5>2. Version(id, rows'[id].version, ContentOf(id)') = new
          BY <2>3, <2>5, <5>1
        <5>3. \A v \in committed : v.id = id => v.version < version /\ v.version \in Nat
          BY <1>1, <5>1
        <5>4. \A v, w \in committed : v.id = id /\ w.id = id /\ v.version = w.version => v = w
          BY <1>1, <2>4, <3>3, <4>2 DEF VersionsOk
        <5> HIDE DEF k, i
        <5>5. \A v, w \in committed' : v.id = id /\ w.id = id /\ v.version = w.version => v = w
          BY <2>2, <2>4, <2>5, <5>3, <5>4
        <5>6. \A v \in committed' : v.id = id => v.version <= version
          BY <2>2, <2>4, <2>5, <5>3
        <5> QED
          BY <2>4, <2>5, <4>2, <5>1, <5>2, <5>5, <5>6
      <4> QED
        BY <4>1, <4>2
    <3> QED
      BY <3>3 DEF VersionsOk
  <2>10. ASSUME NEW d \in Slot
         PROVE  CallOk(call[d])'
    <3>1. CASE d # c
      <4>1. call'[d] = call[d] /\ CallOk(call[d])'
        <5>1. PICK m \in CallType : m = call[d] /\ CallOk(m)
          BY CallIn
        <5>2. CallOk(m)'
          BY <5>1, <2>7, CallGrown
        <5>3. call'[d] = m
          BY <1>1, <2>4, <3>1, <5>1 DEF Put
        <5> QED
          BY <5>1, <5>2, <5>3 DEF CallOk
      <4> QED
        BY <4>1
    <3>2. CASE d = c
      <4>1. PICK m \in CallType : m = k /\ CallOk(m)
        BY <1>1
      <4>2. CallOk(m)'
        BY <4>1, <2>7, CallGrown
      <4>3. call'[d] = j /\ j.stage = "written" /\ j.id = id /\ rows'[id] # None /\ id # None
        BY <1>1, <2>2, <2>3, <2>4, <2>5, <3>2, TemplatesAssumption DEF Put, CallType
      <4>4. j.kind = m.kind /\ j.read = m.read /\ j.answer = m.answer /\ j.kind # "submit"
        BY <1>1, <2>3, <4>1 DEF CallType
      <4> QED
        BY <4>2, <4>3, <4>4 DEF CallOk
    <3> QED
      BY <3>1, <3>2
  <2>11. \A a \in Admin : PageOk(page[a])'
    <3>1. \A a \in Admin : page[a] \in PageType /\ PageOk(page[a])
      BY DEF TemplateInv, TemplatesShape
    <3> QED
      BY <2>4, <2>7, <3>1, SeenLater DEF PageOk, PageType, Ids, Grown
  <2>12. FormOk(form)'
    <3>1. form \in FormType /\ FormOk(form)
      BY DEF TemplateInv, TemplatesShape
    <3> QED
      BY <2>4, <2>7, <3>1, SeenLater DEF FormOk, FormType
  <2>13. \A r \in requests' : RefOk(r.ref, r.view)'
    BY <2>4, <2>7, RefLater DEF TemplateInv
  <2>14. UpnOk(form)'
    BY <2>4 DEF TemplateInv, UpnOk
  <2> QED
    BY <2>8, <2>9, <2>10, <2>11, <2>12, <2>13, <2>14 DEF TemplateInv
<1> QED
  BY <1>2, <1>3

----------------------------------------------------------------------------
(* The administrators' pages and the list of the form keep it.              *)

\* A step of the pages and the form: it writes nothing.
LEMMA PagesLater ==
  ASSUME TemplateInv, UNCHANGED <<scenario, rows, groupRows, requests, committed, overwritten>>,
         call' \in [Slot -> CallType], \A c \in Slot : CallOk(call'[c]),
         page' \in [Admin -> PageType], \A a \in Admin : PageOk(page'[a]),
         form' \in FormType, FormOk(form'), UpnOk(form')
  PROVE  TemplateInv'
<1>1. requests' \subseteq RequestType /\ \A r \in requests' : RefOk(r.ref, r.view)
  BY DEF TemplateInv, TemplatesShape
<1> QED
  BY <1>1, SettledLater

LEMMA PartsOk ==
  ASSUME TemplateInv
  PROVE  /\ call \in [Slot -> CallType] /\ \A c \in Slot : CallOk(call[c])
         /\ page \in [Admin -> PageType] /\ \A a \in Admin : PageOk(page[a])
         /\ form \in FormType /\ FormOk(form) /\ UpnOk(form)
  BY DEF TemplateInv, TemplatesShape

LEMMA AskOk ==
  ASSUME TemplateInv, NEW kind \in {"create", "update", "list", "reload"}, NEW by \in Admin \cup {Form},
         NEW id \in Ids, NEW input \in Input, kind = "update" => id # None, id # None => rows[id] # None,
         Ask(kind, by, id, input)
  PROVE  call' \in [Slot -> CallType] /\ \A d \in Slot : CallOk(call'[d])
<1>1. PICK c \in Slot : Put(c, Requested(kind, by, id, input))
  BY DEF Ask
<1>2. Requested(kind, by, id, input) \in CallType /\ CallOk(Requested(kind, by, id, input))
  BY RequestedOk
<1> QED
  BY <1>1, <1>2, PutOk

\* One page changes.
LEMMA PagePut ==
  ASSUME TemplateInv, NEW a \in Admin, NEW p \in PageType, PageOk(p), page' = [page EXCEPT ![a] = p]
  PROVE  page' \in [Admin -> PageType] /\ \A b \in Admin : PageOk(page'[b])
  BY PartsOk

LEMMA RefreshStep ==
  ASSUME TemplateInv, NEW a \in Admin, Refresh(a)
  PROVE  TemplateInv'
<1>1. call' \in [Slot -> CallType] /\ \A d \in Slot : CallOk(call'[d])
  BY InitialTypes, AskOk DEF Refresh, Ids
<1> QED
  BY <1>1, PartsOk, PagesLater DEF Refresh

LEMMA OpenFormStep ==
  ASSUME TemplateInv, OpenForm
  PROVE  TemplateInv'
<1>1. call' \in [Slot -> CallType] /\ \A d \in Slot : CallOk(call'[d])
  BY InitialTypes, AskOk DEF OpenForm, Ids
<1> QED
  BY <1>1, PartsOk, PagesLater DEF OpenForm

LEMMA OpenCreateStep ==
  ASSUME TemplateInv, NEW a \in Admin, OpenCreate(a)
  PROVE  TemplateInv'
<1>1. page[a] \in PageType /\ PageOk(page[a]) /\ page \in [Admin -> PageType]
  BY PartsOk
<1>2. PICK p : p = [page[a] EXCEPT !.open = TRUE, !.editing = None, !.form = Empty]
  OBVIOUS
<1>3. p \in PageType /\ p.views = page[a].views /\ p.editing = None
  BY <1>1, <1>2, InitialTypes DEF PageType, Ids
<1>4. page' = [page EXCEPT ![a] = p]
  BY <1>1, <1>2 DEF OpenCreate, PageType
<1>5. page' \in [Admin -> PageType] /\ \A b \in Admin : PageOk(page'[b])
  BY <1>1, <1>3, <1>4, PagePut DEF PageOk
<1> QED
  BY <1>5, PartsOk, PagesLater DEF OpenCreate

LEMMA OpenEditStep ==
  ASSUME TemplateInv, NEW a \in Admin, OpenEdit(a)
  PROVE  TemplateInv'
<1>1. page[a] \in PageType /\ PageOk(page[a]) /\ page \in [Admin -> PageType]
  BY PartsOk
<1>2. PICK v, p :
        /\ v \in page[a].views
        /\ page' = [page EXCEPT ![a].open = TRUE, ![a].editing = v.id, ![a].form = v.content]
        /\ p = [page[a] EXCEPT !.open = TRUE, !.editing = v.id, !.form = v.content]
  BY DEF OpenEdit
<1>3. v \in ViewType /\ Seen(v)
  BY <1>1, <1>2 DEF PageType, PageOk
<1>4. v.id \in Ids /\ v.content \in Input /\ rows[v.id] # None
  BY <1>3, InitialTypes DEF ViewType, Ids, Seen
<1>5. p \in PageType /\ p.views = page[a].views /\ p.editing = v.id
  BY <1>1, <1>2, <1>4 DEF PageType
<1>6. page' = [page EXCEPT ![a] = p]
  BY <1>1, <1>2 DEF PageType
<1>7. page' \in [Admin -> PageType] /\ \A b \in Admin : PageOk(page'[b])
  BY <1>1, <1>4, <1>5, <1>6, PagePut DEF PageOk
<1> QED
  BY <1>7, PartsOk, PagesLater DEF OpenEdit

LEMMA EditStep ==
  ASSUME TemplateInv, NEW a \in Admin, Edit(a)
  PROVE  TemplateInv'
<1>1. page[a] \in PageType /\ PageOk(page[a]) /\ page \in [Admin -> PageType]
  BY PartsOk
<1>2. PICK content, p :
        /\ content \in Content
        /\ page' = [page EXCEPT ![a].form = content]
        /\ p = [page[a] EXCEPT !.form = content]
  BY DEF Edit
<1>3. p \in PageType /\ p.views = page[a].views /\ p.editing = page[a].editing
  BY <1>1, <1>2, InitialTypes DEF PageType
<1>4. page' = [page EXCEPT ![a] = p]
  BY <1>1, <1>2 DEF PageType
<1>5. page' \in [Admin -> PageType] /\ \A b \in Admin : PageOk(page'[b])
  BY <1>1, <1>3, <1>4, PagePut DEF PageOk
<1> QED
  BY <1>5, PartsOk, PagesLater DEF Edit

LEMMA SaveStep ==
  ASSUME TemplateInv, NEW a \in Admin, Save(a)
  PROVE  TemplateInv'
<1>1. page[a] \in PageType /\ PageOk(page[a]) /\ page \in [Admin -> PageType]
  BY PartsOk
<1>2. /\ page[a].editing \in Ids /\ page[a].form \in Input
      /\ page[a].editing # None => rows[page[a].editing] # None
  BY <1>1 DEF PageType, PageOk
<1>3. call' \in [Slot -> CallType] /\ \A d \in Slot : CallOk(call'[d])
  <2>1. PICK kind \in {"create", "update"} :
          kind = IF page[a].editing = None THEN "create" ELSE "update"
    OBVIOUS
  <2>2. Ask(kind, a, page[a].editing, page[a].form)
    BY <2>1 DEF Save
  <2>3. kind = "update" => page[a].editing # None
    BY <2>1
  <2> QED
    BY <1>2, <2>2, <2>3, AskOk
<1>4. PICK p : p = [page[a] EXCEPT !.saving = TRUE]
  OBVIOUS
<1>5. p \in PageType /\ p.views = page[a].views /\ p.editing = page[a].editing
  BY <1>1, <1>4 DEF PageType
<1>6. page' = [page EXCEPT ![a] = p]
  BY <1>1, <1>4 DEF Save, PageType
<1>7. page' \in [Admin -> PageType] /\ \A b \in Admin : PageOk(page'[b])
  BY <1>1, <1>5, <1>6, PagePut DEF PageOk
<1> QED
  BY <1>3, <1>7, PartsOk, PagesLater DEF Save

LEMMA CloseStep ==
  ASSUME TemplateInv, NEW a \in Admin, Close(a)
  PROVE  TemplateInv'
<1>1. page[a] \in PageType /\ PageOk(page[a]) /\ page \in [Admin -> PageType]
  BY PartsOk
<1>2. PICK p : p = [page[a] EXCEPT !.open = FALSE]
  OBVIOUS
<1>3. p \in PageType /\ p.views = page[a].views /\ p.editing = page[a].editing
  BY <1>1, <1>2 DEF PageType
<1>4. page' = [page EXCEPT ![a] = p]
  BY <1>1, <1>2 DEF Close, PageType
<1>5. page' \in [Admin -> PageType] /\ \A b \in Admin : PageOk(page'[b])
  BY <1>1, <1>3, <1>4, PagePut DEF PageOk
<1> QED
  BY <1>5, PartsOk, PagesLater DEF Close

LEMMA SaveAnsweredStep ==
  ASSUME TemplateInv, NEW c \in Slot, SaveAnswered(c)
  PROVE  TemplateInv'
<1> DEFINE a == call[c].by
<1>1. call[c] \in CallType /\ page \in [Admin -> PageType]
  BY PartsOk
<1>2. call' \in [Slot -> CallType] /\ \A d \in Slot : CallOk(call'[d])
  <2>1. a \in Admin \cup {Form, None}
    BY <1>1 DEF CallType
  <2>2. /\ Requested("reload", a, None, Empty) \in CallType /\ CallOk(Requested("reload", a, None, Empty))
        /\ Idle \in CallType /\ CallOk(Idle)
    BY <2>1, InitialTypes, RequestedOk DEF Ids
  <2>3. Put(c, Requested("reload", a, None, Empty)) \/ Put(c, Idle)
    BY DEF SaveAnswered
  <2> QED
    BY <2>2, <2>3, PutOk
<1>3. page' \in [Admin -> PageType] /\ \A b \in Admin : PageOk(page'[b])
  <2>1. page' = [page EXCEPT ![a].open = FALSE] \/ page' = [page EXCEPT ![a].saving = FALSE]
    BY DEF SaveAnswered
  <2>2. CASE a \notin Admin
    <3>1. page' = page
      BY <1>1, <2>1, <2>2
    <3> QED
      BY <3>1, PartsOk
  <2>3. CASE a \in Admin
    <3>1. page[a] \in PageType /\ PageOk(page[a])
      BY <2>3, PartsOk
    <3>2. PICK p : /\ page' = [page EXCEPT ![a] = p]
                   /\ p = [page[a] EXCEPT !.open = FALSE] \/ p = [page[a] EXCEPT !.saving = FALSE]
      BY <1>1, <2>1, <2>3
    <3>3. p \in PageType /\ p.views = page[a].views /\ p.editing = page[a].editing
      BY <3>1, <3>2 DEF PageType
    <3> QED
      BY <2>3, <3>1, <3>2, <3>3, PagePut DEF PageOk
  <2> QED
    BY <2>2, <2>3
<1> QED
  BY <1>2, <1>3, PartsOk, PagesLater DEF SaveAnswered

LEMMA ListAnsweredStep ==
  ASSUME TemplateInv, NEW c \in Slot, ListAnswered(c)
  PROVE  TemplateInv'
<1> DEFINE a == call[c].by
           views == call[c].answer
<1>1. call[c] \in CallType /\ CallOk(call[c]) /\ page \in [Admin -> PageType] /\ form \in FormType
  BY PartsOk
<1>2. views \in SUBSET ViewType /\ \A v \in views : Seen(v)
  BY <1>1 DEF CallType, CallOk
<1>3. call' \in [Slot -> CallType] /\ \A d \in Slot : CallOk(call'[d])
  BY InitialTypes, PutOk DEF ListAnswered
<1>4. CASE a = Form
  <2>1. PICK f : form' = f /\ f = [form EXCEPT !.views = views]
    BY <1>4 DEF ListAnswered
  <2>2. /\ f \in FormType /\ f.views = views /\ f.template = form.template
        /\ f.sam = form.sam /\ f.upn = form.upn /\ f.manual = form.manual
    BY <1>1, <1>2, <2>1 DEF FormType
  <2>3. FormOk(f) /\ UpnOk(f)
    BY <1>2, <2>2, PartsOk DEF FormOk, UpnOk
  <2>4. UNCHANGED page
    BY <1>4 DEF ListAnswered
  <2> QED
    BY <1>3, <2>1, <2>2, <2>3, <2>4, PartsOk, PagesLater DEF ListAnswered
<1>5. CASE a # Form
  <2>1. /\ page' = [page EXCEPT ![a].views = views, ![a].saving = @ /\ call[c].kind = "list"]
        /\ UNCHANGED form
    BY <1>5 DEF ListAnswered
  <2>2. page' \in [Admin -> PageType] /\ \A b \in Admin : PageOk(page'[b])
    <3>1. CASE a \notin Admin
      <4>1. page' = page
        BY <1>1, <2>1, <3>1
      <4> QED
        BY <4>1, PartsOk
    <3>2. CASE a \in Admin
      <4>1. page[a] \in PageType /\ PageOk(page[a])
        BY <3>2, PartsOk
      <4>2. PICK saving \in BOOLEAN : saving = (page[a].saving /\ call[c].kind = "list")
        OBVIOUS
      <4>3. PICK p : p = [page[a] EXCEPT !.views = views, !.saving = saving]
        OBVIOUS
      <4>4. p \in PageType /\ p.views = views /\ p.editing = page[a].editing
        BY <1>2, <4>1, <4>2, <4>3 DEF PageType
      <4>5. page' = [page EXCEPT ![a] = p]
        BY <1>1, <2>1, <3>2, <4>2, <4>3 DEF PageType
      <4> QED
        BY <1>2, <3>2, <4>1, <4>4, <4>5, PagePut DEF PageOk
    <3> QED
      BY <3>1, <3>2
  <2> QED
    BY <1>3, <2>1, <2>2, PartsOk, PagesLater DEF ListAnswered
<1> QED
  BY <1>4, <1>5

LEMMA SubmitAnsweredStep ==
  ASSUME TemplateInv, NEW c \in Slot, SubmitAnswered(c)
  PROVE  TemplateInv'
<1>1. form \in FormType /\ FormOk(form) /\ UpnOk(form)
  BY PartsOk
<1>2. call' \in [Slot -> CallType] /\ \A d \in Slot : CallOk(call'[d])
  BY InitialTypes, PutOk DEF SubmitAnswered
<1>3. PICK f : form' = f /\ f = [form EXCEPT !.submitting = FALSE]
  BY DEF SubmitAnswered
<1>4. /\ f \in FormType /\ f.views = form.views /\ f.template = form.template
      /\ f.sam = form.sam /\ f.upn = form.upn /\ f.manual = form.manual
  BY <1>1, <1>3 DEF FormType
<1>5. FormOk(f) /\ UpnOk(f)
  BY <1>1, <1>4 DEF FormOk, UpnOk
<1> QED
  BY <1>2, <1>3, <1>4, <1>5, PartsOk, PagesLater DEF SubmitAnswered

----------------------------------------------------------------------------
(* The form for a new user keeps it.                                        *)

LEMMA SuggestedType ==
  ASSUME NEW sam \in Name \cup {Typed, None}, NEW template \in ViewType \cup {None}
  PROVE  Suggested(sam, template) \in UPN \cup {None}
<1>1. SuffixOf(template) \in Suffix \cup {Default}
  BY DEF SuffixOf, ViewType, Content
<1> QED
  BY <1>1 DEF Suggested, UPN

\* What the watchers make of a form f that was edited: unless the account name or
\* the suffix changed, f says which UPN follows.
LEMMA FollowedOk ==
  ASSUME TemplateInv, NEW f \in FormType, FormOk(f),
         /\ form.sam # None /\ "upn" \notin f.manual /\ SuffixOf(f.template) = SuffixOf(form.template)
         => f.upn = Suggested(form.sam, f.template),
         UNCHANGED <<scenario, rows, groupRows, requests, committed, overwritten, call, page>>,
         form' = Followed(f)
  PROVE  TemplateInv'
<1>1. PICK sam : sam = IF f.given # form.given /\ "sam" \notin f.manual THEN f.given ELSE f.sam
  OBVIOUS
<1>2. PICK upn : upn = IF (sam # form.sam \/ SuffixOf(f.template) # SuffixOf(form.template)) /\ "upn" \notin f.manual
                       THEN Suggested(sam, f.template) ELSE f.upn
  OBVIOUS
<1>3. PICK g : g = [f EXCEPT !.sam = sam, !.upn = upn]
  OBVIOUS
<1>4. sam \in Name \cup {Typed, None}
  BY <1>1 DEF FormType
<1>5. upn \in UPN \cup {Typed, None}
  <2>1. Suggested(sam, f.template) \in UPN \cup {None} /\ f.upn \in UPN \cup {Typed, None}
    BY <1>4, SuggestedType DEF FormType
  <2> QED
    BY <1>2, <2>1
<1>6. /\ g \in FormType /\ g.views = f.views /\ g.template = f.template /\ g.manual = f.manual
      /\ g.sam = sam /\ g.upn = upn
  BY <1>3, <1>4, <1>5 DEF FormType
<1>7. FormOk(g)
  BY <1>6 DEF FormOk
<1>8. UpnOk(g)
  <2> SUFFICES ASSUME sam # None, "upn" \notin f.manual
               PROVE  upn = Suggested(sam, f.template)
    BY <1>6 DEF UpnOk
  <2> QED
    BY <1>2
<1>9. form' = g
  BY <1>1, <1>2, <1>3 DEF Followed
<1> QED
  BY <1>6, <1>7, <1>8, <1>9, PartsOk, PagesLater

LEMMA TypeNameStep ==
  ASSUME TemplateInv, TypeName
  PROVE  TemplateInv'
<1>1. form \in FormType /\ FormOk(form) /\ UpnOk(form)
  BY PartsOk
<1>2. PICK name, f :
        name \in Name \cup {None} /\ Fill(f) /\ f = [form EXCEPT !.given = name]
  BY DEF TypeName
<1>3. /\ f \in FormType /\ f.views = form.views /\ f.template = form.template
      /\ f.upn = form.upn /\ f.manual = form.manual
  BY <1>1, <1>2 DEF FormType
<1> QED
  BY <1>1, <1>2, <1>3, FollowedOk DEF Fill, FormOk, UpnOk

LEMMA TypeSamStep ==
  ASSUME TemplateInv, TypeSam
  PROVE  TemplateInv'
<1>1. form \in FormType /\ FormOk(form) /\ UpnOk(form)
  BY PartsOk
<1>2. PICK sam \in {Typed, None} : Fill([form EXCEPT !.sam = sam, !.manual = @ \cup {"sam"}])
  BY DEF TypeSam
<1>3. PICK f : f = [form EXCEPT !.sam = sam, !.manual = @ \cup {"sam"}]
  OBVIOUS
<1>4. /\ f \in FormType /\ f.views = form.views /\ f.template = form.template
      /\ f.upn = form.upn /\ f.manual = form.manual \cup {"sam"}
  BY <1>1, <1>2, <1>3 DEF FormType
<1> QED
  BY <1>1, <1>2, <1>3, <1>4, FollowedOk DEF Fill, FormOk, UpnOk

LEMMA TypeUpnStep ==
  ASSUME TemplateInv, TypeUpn
  PROVE  TemplateInv'
<1>1. form \in FormType /\ FormOk(form)
  BY PartsOk
<1>2. PICK f : Fill(f) /\ f = [form EXCEPT !.upn = Typed, !.manual = @ \cup {"upn"}]
  BY DEF TypeUpn
<1>3. /\ f \in FormType /\ f.views = form.views /\ f.template = form.template /\ "upn" \in f.manual
  BY <1>1, <1>2 DEF FormType
<1> QED
  BY <1>1, <1>2, <1>3, FollowedOk DEF Fill, FormOk

LEMMA ToggleGroupStep ==
  ASSUME TemplateInv, ToggleGroup
  PROVE  TemplateInv'
<1>1. form \in FormType /\ FormOk(form) /\ UpnOk(form)
  BY PartsOk
<1>2. PICK groups, f : groups \in SUBSET Group /\ Fill(f) /\ f = [form EXCEPT !.groups = groups]
  <2>1. PICK g \in Group : Fill([form EXCEPT !.groups = IF g \in @ THEN @ \ {g} ELSE @ \cup {g}])
    BY DEF ToggleGroup
  <2>2. PICK groups : groups = IF g \in form.groups THEN form.groups \ {g} ELSE form.groups \cup {g}
    OBVIOUS
  <2>3. groups \in SUBSET Group
    BY <1>1, <2>2 DEF FormType
  <2>4. Fill([form EXCEPT !.groups = groups])
    BY <2>1, <2>2
  <2> QED
    BY <2>3, <2>4
<1>3. /\ f \in FormType /\ f.views = form.views /\ f.template = form.template
      /\ f.upn = form.upn /\ f.manual = form.manual
  BY <1>1, <1>2 DEF FormType
<1> QED
  BY <1>1, <1>2, <1>3, FollowedOk DEF Fill, FormOk, UpnOk

LEMMA SelectTemplateStep ==
  ASSUME TemplateInv, SelectTemplate
  PROVE  TemplateInv'
<1>1. form \in FormType /\ FormOk(form) /\ form.sam \in Name \cup {Typed, None}
  BY PartsOk DEF FormType
<1>2. PICK template \in form.views \cup {None} : Fill(TemplateApplied(form, template))
  BY DEF SelectTemplate
<1>3. template \in ViewType \cup {None} /\ (template # None => Seen(template))
  BY <1>1, <1>2 DEF FormType, FormOk
<1>4. PICK groups, upn :
        /\ groups = IF template = None THEN {} ELSE template.content.groups
        /\ upn = IF form.sam = None THEN form.upn ELSE Suggested(form.sam, template)
  OBVIOUS
<1>5. groups \in SUBSET Group
  BY <1>3, <1>4 DEF ViewType, Content
<1>6. upn \in UPN \cup {Typed, None}
  <2>1. Suggested(form.sam, template) \in UPN \cup {None} /\ form.upn \in UPN \cup {Typed, None}
    BY <1>1, <1>3, SuggestedType DEF FormType
  <2> QED
    BY <1>4, <2>1
<1>7. PICK f : f = [form EXCEPT !.template = template, !.groups = groups, !.upn = upn, !.manual = @ \ {"upn"}]
  OBVIOUS
<1>8. f \in FormType /\ f.views = form.views /\ f.template = template /\ f.upn = upn
  BY <1>1, <1>3, <1>5, <1>6, <1>7 DEF FormType
<1>9. f = TemplateApplied(form, template)
  BY <1>4, <1>7 DEF TemplateApplied
<1>10. FormOk(f)
  BY <1>1, <1>3, <1>8 DEF FormOk
<1>11. form.sam # None => f.upn = Suggested(form.sam, f.template)
  BY <1>4, <1>8
<1> QED
  BY <1>2, <1>8, <1>9, <1>10, <1>11, FollowedOk DEF Fill

LEMMA SubmitStep ==
  ASSUME TemplateInv, Submit
  PROVE  TemplateInv'
<1>1. form \in FormType /\ FormOk(form) /\ UpnOk(form) /\ form.template \in ViewType \cup {None} /\ form.groups \subseteq Group
  BY PartsOk DEF FormType
<1>2. PICK id, input : id = (IF form.template = None THEN None ELSE form.template.id)
                       /\ input = [Empty EXCEPT !.groups = form.groups]
  OBVIOUS
<1>3. PICK k : k = [Requested("submit", Form, id, input) EXCEPT !.view = form.template]
  OBVIOUS
<1>4. id \in Ids /\ input \in Input /\ (form.template = None => id = None)
  BY <1>1, <1>2 DEF Ids, ViewType, Empty, Input
<1>5. /\ k \in CallType /\ k.kind = "submit" /\ k.id = id /\ k.view = form.template /\ k.stage = "sent" /\ k.ref = None
      /\ k.read = {} /\ k.answer = {}
  BY <1>1, <1>3, <1>4 DEF Requested, Idle, CallType
<1>6. id # None => form.template # None /\ form.template.id = id /\ Seen(form.template)
  BY <1>1, <1>2 DEF FormOk
<1>7. id # None => rows[id] # None
  BY <1>6 DEF Seen
<1>8. CallOk(k)
  BY <1>5, <1>6, <1>7 DEF CallOk
<1>9. call' \in [Slot -> CallType] /\ \A d \in Slot : CallOk(call'[d])
  <2>1. PICK c \in Slot : Put(c, k)
    BY <1>2, <1>3 DEF Submit
  <2> QED
    BY <1>5, <1>8, <2>1, PutOk
<1>10. PICK f : form' = f /\ f = [form EXCEPT !.submitting = TRUE]
  BY DEF Submit
<1>11. /\ f \in FormType /\ f.views = form.views /\ f.template = form.template
       /\ f.sam = form.sam /\ f.upn = form.upn /\ f.manual = form.manual
  BY <1>1, <1>10 DEF FormType
<1>12. FormOk(f) /\ UpnOk(f)
  BY <1>1, <1>11 DEF FormOk, UpnOk
<1> QED
  BY <1>9, <1>10, <1>11, <1>12, PartsOk, PagesLater DEF Submit

----------------------------------------------------------------------------

LEMMA TemplateInit == Init => TemplateInv
<1> SUFFICES ASSUME TemplatesInit PROVE TemplateInv
  BY DEF Init
<1> DEFINE s == scenario.start
<1>1. scenario \in Scenarios /\ s \in Content
  BY ScenariosAssumption DEF TemplatesInit
<1>2. PICK id \in Template :
        /\ rows = [t \in Template |->
                     IF t = id THEN [name |-> s.name, active |-> s.active, suffix |-> s.suffix, version |-> 1] ELSE None]
        /\ groupRows = [t \in Template |-> IF t = id THEN s.groups ELSE {}]
        /\ committed = {Version(id, 1, s)}
  BY DEF TemplatesInit
<1>3. PICK row : row = [name |-> s.name, active |-> s.active, suffix |-> s.suffix, version |-> 1]
  OBVIOUS
<1>4. row \in Row /\ row # None /\ row.version = 1
  BY <1>1, <1>3, TemplatesAssumption DEF Content, Row
<1>5. /\ rows \in [Template -> Row \cup {None}] /\ groupRows \in [Template -> SUBSET Group]
      /\ committed \subseteq [id : Template, version : Nat, content : Content]
  <2>1. s.groups \subseteq Group
    BY <1>1 DEF Content
  <2> QED
    BY <1>1, <1>2, <1>3, <1>4, <2>1 DEF Version
<1>6. call \in [Slot -> CallType] /\ \A c \in Slot : CallOk(call[c])
  BY InitialTypes DEF TemplatesInit
<1>7. page \in [Admin -> PageType] /\ \A a \in Admin : PageOk(page[a])
  BY InitialTypes DEF TemplatesInit, PageType, PageOk, Ids
<1>8. form \in FormType /\ FormOk(form) /\ UpnOk(form)
  BY DEF TemplatesInit, FormType, FormOk, UpnOk
<1>9. VersionsOk
  <2>1. ContentOf(id) = s
    BY <1>1, <1>2 DEF ContentOf, Content
  <2>2. rows[id].version = 1 /\ rows[id] # None /\ \A t \in Template \ {id} : rows[t] = None
    BY <1>2, <1>3, <1>4
  <2>3. \A v \in committed : v = Version(id, 1, s) /\ v.id = id /\ v.version = 1
    BY <1>2 DEF Version
  <2> QED
    BY <1>2, <2>1, <2>2, <2>3 DEF VersionsOk
<1>10. requests = {}
  BY DEF TemplatesInit
<1> QED
  BY <1>1, <1>5, <1>6, <1>7, <1>8, <1>9, <1>10 DEF TemplateInv, TemplatesShape

LEMMA TemplateNext == TemplateInv /\ [Next]_vars => TemplateInv'
<1> SUFFICES ASSUME TemplateInv, [Next]_vars
             PROVE  TemplateInv'
  OBVIOUS
<1>1. CASE UNCHANGED templateVars
  BY <1>1, PartsOk, PagesLater DEF templateVars
<1>2. CASE TemplatesNext
  <2>1. CASE \E c \in Slot :
               \/ ReadExisting(c) \/ CheckName(c) \/ Write(c) \/ ReadRows(c) \/ ReadGroups(c)
               \/ ResolveReference(c) \/ StoreRequest(c) \/ FailCall(c)
               \/ SaveAnswered(c) \/ ListAnswered(c) \/ SubmitAnswered(c)
    BY <2>1, ReadExistingStep, CheckNameStep, WriteStep, ReadRowsStep, ReadGroupsStep, ResolveReferenceStep,
       StoreRequestStep, FailCallStep, SaveAnsweredStep, ListAnsweredStep, SubmitAnsweredStep
  <2>2. CASE \E a \in scenario.admins :
               Refresh(a) \/ OpenCreate(a) \/ OpenEdit(a) \/ Edit(a) \/ Save(a) \/ Close(a)
    <3>1. scenario.admins \subseteq Admin
      BY ScenariosAssumption DEF TemplateInv, TemplatesShape
    <3> QED
      BY <2>2, <3>1, RefreshStep, OpenCreateStep, OpenEditStep, EditStep, SaveStep, CloseStep
  <2>3. CASE OpenForm \/ TypeName \/ TypeSam \/ TypeUpn \/ ToggleGroup \/ SelectTemplate \/ Submit
    BY <2>3, OpenFormStep, TypeNameStep, TypeSamStep, TypeUpnStep, ToggleGroupStep, SelectTemplateStep, SubmitStep
  <2> QED
    BY <1>2, <2>1, <2>2, <2>3 DEF TemplatesNext
<1> QED
  BY <1>1, <1>2 DEF Next, vars

\* However the saves of administrators and the reads of pages fall between each
\* other, a version of a template that was not saved from an outdated version
\* names one content, the row holds the latest, everybody is shown the content of
\* the version shown or a torn view, and a request names a version that was active
\* (user-creation-templates.service.ts).
THEOREM Versions == Spec => []VersionNamesOneContent
<1>1. ASSUME TemplateInv
      PROVE  VersionNamesOneContent
  <2>1. \A v \in Shown : Seen(v)
    BY <1>1 DEF Shown, TemplateInv, PageOk, FormOk
  <2>2. \A id \in Template \ overwritten, r \in requests : r.ref # None /\ r.ref.id = id =>
          /\ r.ref.version >= r.view.version
          /\ \E v \in committed : /\ v.id = id /\ v.version = r.ref.version
                                  /\ v.content.name = r.ref.name /\ v.content.active
    BY <1>1 DEF TemplateInv, RefOk
  <2>3. VersionsOk
    BY <1>1 DEF TemplateInv
  <2>4. ASSUME NEW id \in Template \ overwritten, NEW v \in Shown, v.id = id, ~v.torn
        PROVE  Version(id, v.version, v.content) \in committed /\ Version(id, v.version, v.content).id = id
    BY <2>1, <2>4 DEF Seen, Version
  <2>5. ASSUME NEW id \in Template \ overwritten
        PROVE  LET mine == {v \in committed : v.id = id} IN
               /\ \A v, w \in mine : v.version = w.version => v = w
               /\ rows[id] # None => \A v \in mine : v.version <= rows[id].version
    BY <2>3 DEF VersionsOk
  <2>6. ASSUME NEW id \in Template \ overwritten
        PROVE  LET mine == {v \in committed : v.id = id} IN
               \A r \in requests : r.ref # None /\ r.ref.id = id =>
                 /\ r.ref.version >= r.view.version
                 /\ \E v \in mine : v.version = r.ref.version /\ v.content.name = r.ref.name /\ v.content.active
    BY <2>2
  <2> QED
    BY <2>4, <2>5, <2>6 DEF VersionNamesOneContent
<1> QED
  BY <1>1, TemplateInit, TemplateNext, PTL DEF Spec

\* Nothing is requested that nobody asked for: the request goes to the approver
\* and the target that the page holds and changes what was touched since the
\* target was loaded; besides, only an expiry that the form does not give back
\* (seconds, the hour the clock shows twice, a year of five digits), and "enabled"
\* where the directory did not tell.  The UPN of a new user follows the account
\* name until somebody types one (new.vue, request-create.ts,
\* useAccountChangeEditor.ts, useGroupChangeEditor.ts, useUserCreateForm.ts).
THEOREM Unasked == Spec => []NothingUnasked
<1>1. PageInv /\ TemplateInv => NothingUnasked
  BY DEF PageInv, SentAsMeant, TemplateInv, UpnOk, NothingUnasked, UpnFollows
<1> QED
  BY <1>1, PageInit, PageNext, TemplateInit, TemplateNext, PTL DEF Spec

----------------------------------------------------------------------------
(* The types of what the page holds.                                        *)

Selectable(b) == IF b = "member" THEN Other ELSE Object

\* A group has no fields.
Untold(f) == f.title = None /\ f.enabled = "true" /\ f.expiry = None

\* What a box waits for is what it says, it offers what can be selected in it, and
\* without a target the form is empty.
ShapeOk(u) ==
  /\ \A b \in Box : u.box[b].pending \in {None, u.box[b].text} /\ u.box[b].results \subseteq Selectable(b)
  /\ u.approver \in Object \cup {None}
  /\ u.snapshot # None => u.snapshot.groups \subseteq Held \cup Other
  /\ u.form.groups \subseteq Held \cup Other
  /\ u.snapshot = None => u.form = NoForm
  /\ ~Account => Untold(u.form)

ShapeInv == PageInv /\ ShapeOk(ui)

\* A box that a watcher or a step may have set.
BoxShape(u, b) == u.box[b].pending \in {None, u.box[b].text} /\ u.box[b].results \subseteq Selectable(b)

LEMMA TriggeredShape ==
  ASSUME NEW u \in UiType, NEW b \in Box, u.box[b].results \subseteq Selectable(b)
  PROVE  BoxShape(Triggered(u, b), b)
<1> DEFINE x == u.box[b]
           idle == [x EXCEPT !.pending = None, !.loading = FALSE, !.results = {}]
           busy == [x EXCEPT !.pending = x.text, !.loading = TRUE]
<1>1. x \in BoxType /\ u.box \in [Box -> BoxType]
  BY DEF UiType
<1>2. /\ idle.pending = None /\ idle.results = {} /\ idle.text = x.text
      /\ busy.pending = x.text /\ busy.results = x.results /\ busy.text = x.text
  BY <1>1 DEF BoxType
<1>3. PICK y \in {idle, busy} : Triggered(u, b) = [u EXCEPT !.box[b] = y]
  BY <1>1 DEF Triggered, UiType, BoxType
<1>4. y.pending \in {None, y.text} /\ y.results \subseteq Selectable(b)
  BY <1>2
<1> HIDE DEF idle, busy
<1>5. [u EXCEPT !.box[b] = y].box[b] = y
  BY <1>1 DEF UiType
<1> QED
  BY <1>3, <1>4, <1>5 DEF BoxShape

LEMMA ClearedShape ==
  ASSUME NEW u \in UiType, NEW b \in Box, ShapeOk(u)
  PROVE  ShapeOk(SelectionCleared(u, b))
<1> DEFINE v == SelectionCleared(u, b)
<1>1. v \in UiType /\ v.box = u.box
  BY SelectionClearedDoes
<1> DEFINE ended == [u EXCEPT !.approver = None, !.username = None]
           noAccount == [u EXCEPT !.snapshot = None, !.form = NoForm]
           noGroup == [u EXCEPT !.snapshot = None, !.form = [@ EXCEPT !.groups = {}]]
<1>2. /\ v.approver \in {u.approver, None} /\ v.snapshot \in {u.snapshot, None}
      /\ \/ v.form = u.form /\ v.snapshot = u.snapshot
         \/ v.form = NoForm
         \/ ~Account /\ v.form = [u.form EXCEPT !.groups = {}]
  <2>1. ended.approver = None /\ ended.snapshot = u.snapshot /\ ended.form = u.form
    BY DEF UiType
  <2>2. noAccount.approver = u.approver /\ noAccount.snapshot = None /\ noAccount.form = NoForm
    BY DEF UiType
  <2>3. noGroup.approver = u.approver /\ noGroup.snapshot = None /\ noGroup.form = [u.form EXCEPT !.groups = {}]
    BY DEF UiType
  <2>4. v \in {u, ended} \/ (Account /\ v = noAccount) \/ (~Account /\ v = noGroup)
    BY DEF SelectionCleared, ClearedTarget, ClearedGroup, Box
  <2> HIDE DEF v, ended, noAccount, noGroup
  <2> QED
    BY <2>1, <2>2, <2>3, <2>4
<1>4. u.form \in TargetForm
  BY DEF UiType
<1>5. ~Account => [u.form EXCEPT !.groups = {}] = NoForm
  BY <1>4 DEF ShapeOk, NoForm, TargetForm, Untold
<1>6. \/ v.form = u.form /\ v.snapshot = u.snapshot
      \/ v.form = NoForm
  BY <1>2, <1>5
<1>7. NoForm.groups = {} /\ Untold(NoForm)
  BY DEF NoForm, Untold
<1> HIDE DEF v
<1>8. \A c \in Box : v.box[c].pending \in {None, v.box[c].text} /\ v.box[c].results \subseteq Selectable(c)
  BY <1>1 DEF ShapeOk
<1>9. v.approver \in Object \cup {None} /\ (v.snapshot # None => v.snapshot.groups \subseteq Held \cup Other)
  BY <1>2 DEF ShapeOk
<1>10. v.form.groups \subseteq Held \cup Other /\ (v.snapshot = None => v.form = NoForm)
  BY <1>6, <1>7 DEF ShapeOk
<1>11. ~Account => Untold(v.form)
  BY <1>6, <1>7 DEF ShapeOk
<1>12. ShapeOk(v)
  BY <1>8, <1>9, <1>10, <1>11 DEF ShapeOk
<1> QED
  BY <1>12 DEF v

\* The watchers keep the types of the page, and give them to the box whose text is
\* another one.
LEMMA WatchedShape ==
  ASSUME ShapeInv, NEW u \in UiType, NEW b \in Box,
         \A c \in Box \ {b} : u.box[c] = ui.box[c],
         u.box[b].results \subseteq Selectable(b),
         u.box[b].text = ui.box[b].text => u.box[b].pending = ui.box[b].pending,
         u.approver \in Object \cup {None},
         u.snapshot # None => u.snapshot.groups \subseteq Held \cup Other,
         u.form.groups \subseteq Held \cup Other,
         u.snapshot = None => u.form = NoForm,
         ~Account => Untold(u.form)
  PROVE  ShapeOk(Watched(u, b))
<1> DEFINE w == Triggered(u, b)
           v == SelectionCleared(w, b)
           x == IF u.box[b].text = ui.box[b].text THEN u ELSE v
           y == [x EXCEPT !.box[b].option = None]
<1>1. \A c \in Box \ {b} : BoxShape(u, c)
  BY DEF ShapeInv, ShapeOk, BoxShape
<1>2. x \in UiType /\ ShapeOk(x)
  <2>1. CASE u.box[b].text = ui.box[b].text
    <3>1. BoxShape(u, b)
      BY <2>1 DEF ShapeInv, ShapeOk, BoxShape
    <3> QED
      BY <1>1, <2>1, <3>1 DEF ShapeOk, BoxShape
  <2>2. CASE u.box[b].text # ui.box[b].text
    <3>1. /\ w \in UiType /\ SameSelection(u, w) /\ BoxShape(w, b)
          /\ \A c \in Box \ {b} : w.box[c] = u.box[c]
      BY TriggeredDoes, TriggeredShape
    <3> HIDE DEF w
    <3>2. ShapeOk(w)
      BY <1>1, <3>1 DEF ShapeOk, BoxShape, SameSelection
    <3>3. v \in UiType /\ ShapeOk(v)
      BY <3>1, <3>2, SelectionClearedDoes, ClearedShape
    <3> QED
      BY <2>2, <3>3
  <2> QED
    BY <2>1, <2>2
<1>3. Watched(u, b) \in {x, y}
  BY DEF Watched
<1> HIDE DEF x
<1>4. ShapeOk(y)
  <2>1. y \in UiType /\ SameSelection(x, y)
    BY <1>2, OptionDroppedDoes
  <2>2. \A c \in Box : y.box[c].pending = x.box[c].pending /\ y.box[c].results = x.box[c].results /\ y.box[c].text = x.box[c].text
    BY <1>2 DEF UiType, BoxType
  <2> HIDE DEF y
  <2> QED
    BY <1>2, <2>1, <2>2 DEF ShapeOk, SameSelection
<1> QED
  BY <1>2, <1>3, <1>4

LEMMA FoundShape ==
  ASSUME PageInv, NEW b \in Box, NEW text \in Text
  PROVE  Found(b, text) \subseteq Selectable(b)
  BY EditorAssumption DEF PageInv, Found, Selectable

LEMMA ShapeIn ==
  ASSUME ShapeInv, NEW b \in Box
  PROVE  /\ ui \in UiType /\ ui.box[b] \in BoxType /\ ui.box \in [Box -> BoxType] /\ ui.form \in TargetForm
         /\ ui.approver \in Object \cup {None}
         /\ ui.snapshot # None => ui.snapshot.groups \subseteq Held \cup Other
         /\ ui.form.groups \subseteq Held \cup Other
         /\ ui.snapshot = None => ui.form = NoForm
         /\ ~Account => Untold(ui.form)
         /\ ui.box[b].pending \in {None, ui.box[b].text} /\ ui.box[b].results \subseteq Selectable(b)
  BY DEF ShapeInv, PageInv, ShapeOk, UiType

LEMMA TypeShape ==
  ASSUME ShapeInv, NEW b \in Box, Type(b)
  PROVE  ShapeOk(ui')
<1>1. PICK text \in Text \ {ui.box[b].text} :
        ui' = Watched([ui EXCEPT !.box[b] = [@ EXCEPT !.option = None, !.text = text]], b)
  BY DEF Type
<1> DEFINE x == [ui.box[b] EXCEPT !.option = None, !.text = text]
           u == [ui EXCEPT !.box[b] = x]
<1>2. x \in BoxType /\ x.text = text /\ x.results = ui.box[b].results /\ ui' = Watched(u, b)
  BY <1>1, ShapeIn DEF BoxType, UiType
<1> HIDE DEF x
<1>3. /\ u \in UiType /\ SameSelection(ui, u)
      /\ \A c \in Box : u.box[c] = IF c = b THEN x ELSE ui.box[c]
  BY <1>2, ShapeIn, SetBox
<1> HIDE DEF u
<1> QED
  BY <1>2, <1>3, ShapeIn, WatchedShape DEF SameSelection

\* A step within a box.
LEMMA WithinShape ==
  ASSUME ShapeInv, NEW b \in Box, NEW x \in BoxType, ui' = [ui EXCEPT !.box[b] = x],
         x.pending \in {None, x.text}, x.results \subseteq Selectable(b)
  PROVE  ShapeOk(ui')
<1> DEFINE u == [ui EXCEPT !.box[b] = x]
<1>1. /\ u \in UiType /\ SameSelection(ui, u)
      /\ \A c \in Box : u.box[c] = IF c = b THEN x ELSE ui.box[c]
  BY ShapeIn, SetBox
<1>2. ui' = u
  OBVIOUS
<1> HIDE DEF u
<1> QED
  BY <1>1, <1>2 DEF ShapeInv, ShapeOk, SameSelection

LEMMA StartSearchShape ==
  ASSUME ShapeInv, NEW b \in Box, StartSearch(b)
  PROVE  ShapeOk(ui')
<1> DEFINE x(text) == [ui.box[b] EXCEPT !.pending = None, !.flight[text] = @ + 1]
<1>1. PICK text \in Text : ui' = [ui EXCEPT !.box[b] = x(text)]
  BY ShapeIn DEF StartSearch, BoxType
<1>2. x(text) \in BoxType /\ x(text).pending = None /\ x(text).results = ui.box[b].results
  <2>1. ui.box[b].flight \in [Text -> Nat] /\ ui.box[b].flight[text] + 1 \in Nat
    BY ShapeIn DEF BoxType
  <2> QED
    BY ShapeIn, <2>1 DEF BoxType
<1> HIDE DEF x
<1> QED
  BY <1>1, <1>2, ShapeIn, WithinShape

LEMMA SearchAnsweredShape ==
  ASSUME ShapeInv, NEW b \in Box, SearchAnswered(b)
  PROVE  ShapeOk(ui')
<1> DEFINE landed(text) == [ui.box[b] EXCEPT !.flight[text] = @ - 1]
           taken(text, good) == [landed(text) EXCEPT !.results = IF good THEN Found(b, text) ELSE {}, !.loading = FALSE]
<1>1. PICK text \in {t \in Text : ui.box[b].flight[t] > 0}, good \in BOOLEAN :
        ui' = [ui EXCEPT !.box[b] = IF Wanted(ui.box[b], text) THEN taken(text, good) ELSE landed(text)]
  BY DEF SearchAnswered
<1>2. ui.box[b].flight[text] - 1 \in Nat /\ text \in Text
  BY <1>1, ShapeIn DEF BoxType
<1>3. /\ landed(text) \in BoxType /\ landed(text).text = ui.box[b].text
      /\ landed(text).pending = ui.box[b].pending /\ landed(text).results = ui.box[b].results
  BY <1>2, ShapeIn DEF BoxType
<1>4. Found(b, text) \subseteq Selectable(b) /\ Found(b, text) \subseteq Thing
  BY <1>2, FoundShape, FoundIn DEF ShapeInv
<1>5. /\ taken(text, good) \in BoxType /\ taken(text, good).text = ui.box[b].text
      /\ taken(text, good).pending = ui.box[b].pending /\ taken(text, good).results \subseteq Selectable(b)
  BY <1>3, <1>4 DEF BoxType
<1>6. PICK x \in {taken(text, good), landed(text)} : ui' = [ui EXCEPT !.box[b] = x]
  BY <1>1
<1>7. x \in BoxType /\ x.pending \in {None, x.text} /\ x.results \subseteq Selectable(b)
  BY <1>3, <1>5, <1>6, ShapeIn
<1> QED
  BY <1>6, <1>7, WithinShape

LEMMA CommittedShape ==
  ASSUME ShapeInv, NEW b \in Box, NEW o \in Thing
  PROVE  LET u == Committed(b, o) IN
         /\ u \in UiType /\ SameSelection(ui, u) /\ \A c \in Box \ {b} : u.box[c] = ui.box[c]
         /\ u.box[b] \in BoxType /\ u.box[b].pending = ui.box[b].pending /\ u.box[b].results = ui.box[b].results
<1>1. ui.box[b] \in BoxType /\ ui \in UiType
  BY ShapeIn
<1>2. Committed(b, o).box[b].pending = ui.box[b].pending
  BY <1>1 DEF Committed, UiType, BoxType
<1> QED
  BY <1>2, CommittedDoes DEF ShapeInv

LEMMA SelectApproverShape ==
  ASSUME ShapeInv, SelectApprover
  PROVE  ShapeOk(ui')
<1> DEFINE b == "approver"
<1>1. b \in Box /\ ui.box[b] \in BoxType /\ ui.box[b].results \subseteq Object
  BY ShapeIn DEF Box, Selectable
<1> DEFINE w(o) == [Committed(b, o) EXCEPT !.approver = o, !.username = o, !.box["approver"].results = {}]
<1>2. PICK o \in Thing : ui' = Watched(IF o \in ui.box[b].results THEN w(o) ELSE Committed(b, o), b)
  BY <1>1, BoxIn DEF SelectApprover, BoxType, ShapeInv
<1>3. PICK u : u = Committed(b, o)
  OBVIOUS
<1>4. /\ u \in UiType /\ SameSelection(ui, u) /\ \A c \in Box \ {b} : u.box[c] = ui.box[c]
      /\ u.box[b] \in BoxType /\ u.box[b].pending = ui.box[b].pending /\ u.box[b].results = ui.box[b].results
  BY <1>1, <1>3, CommittedShape
<1>5. CASE o \in ui.box[b].results
  <2>1. PICK v : v = [u EXCEPT !.approver = o, !.username = o, !.box["approver"].results = {}]
    OBVIOUS
  <2>2. /\ v \in UiType /\ v.approver = o /\ v.snapshot = u.snapshot /\ v.form = u.form
        /\ \A c \in Box \ {b} : v.box[c] = u.box[c]
        /\ v.box[b].pending = u.box[b].pending /\ v.box[b].results = {}
    BY <1>4, <2>1 DEF UiType, BoxType, Box
  <2>3. ui' = Watched(v, b)
    BY <1>2, <1>3, <1>5, <2>1
  <2> QED
    BY <1>1, <1>4, <1>5, <2>2, <2>3, ShapeIn, WatchedShape DEF SameSelection
<1>6. CASE o \notin ui.box[b].results
  <2>1. ui' = Watched(u, b)
    BY <1>2, <1>3, <1>6
  <2> QED
    BY <1>1, <1>4, <2>1, ShapeIn, WatchedShape DEF SameSelection
<1> QED
  BY <1>5, <1>6

LEMMA AddMembershipShape ==
  ASSUME ShapeInv, AddMembership
  PROVE  ShapeOk(ui')
<1> DEFINE b == "member"
<1>1. b \in Box /\ ui \in UiType /\ ui.box[b] \in BoxType /\ ui.box[b].results \subseteq Other /\ ui.form \in TargetForm
  BY ShapeIn DEF Box, Selectable
<1>2. PICK o \in Other :
        ui' = Watched([ui EXCEPT !.form.groups = @ \cup {o}, !.touched = @ \cup {o},
                                 !.box["member"] = [@ EXCEPT !.option = o, !.text = Short, !.results = {}]], b)
  BY <1>1 DEF AddMembership
<1> DEFINE x == [ui.box[b] EXCEPT !.option = o, !.text = Short, !.results = {}]
<1>3. x \in BoxType /\ x.results = {} /\ x.pending = ui.box[b].pending
  BY <1>1, TextIn DEF BoxType, Thing
<1>4. PICK u : u = [ui EXCEPT !.form.groups = @ \cup {o}, !.touched = @ \cup {o}, !.box["member"] = x]
  OBVIOUS
<1>5. ui' = Watched(u, b)
  BY <1>1, <1>2, <1>4 DEF UiType
<1> HIDE DEF x
<1>6. /\ u \in UiType /\ u.approver = ui.approver /\ u.snapshot = ui.snapshot
      /\ u.form.title = ui.form.title /\ u.form.enabled = ui.form.enabled /\ u.form.expiry = ui.form.expiry /\ u.form.groups = ui.form.groups \cup {o}
      /\ u.box[b] = x /\ \A c \in Box \ {b} : u.box[c] = ui.box[c]
  BY <1>1, <1>3, <1>4 DEF UiType, TargetForm, Membership, Thing, Box
<1>7. ui.snapshot # None
  BY DEF AddMembership
<1>8. ~Account => Untold(u.form)
  BY <1>1, <1>6, ShapeIn DEF Untold
<1> QED
  BY <1>1, <1>3, <1>5, <1>6, <1>7, <1>8, ShapeIn, WatchedShape

LEMMA SelectShape ==
  ASSUME ShapeInv, Select
  PROVE  ShapeOk(ui')
<1> DEFINE b == "target"
<1>1. b \in Box /\ ui.box[b] \in BoxType
  BY ShapeIn DEF Box
<1>2. PICK o \in Thing : ui' = Watched(Loading(Committed(b, o), o), b)
  BY <1>1 DEF Select, BoxType
<1>3. PICK u : u = Committed(b, o)
  OBVIOUS
<1>4. /\ u \in UiType /\ SameSelection(ui, u) /\ \A c \in Box \ {b} : u.box[c] = ui.box[c]
      /\ u.box[b] \in BoxType /\ u.box[b].pending = ui.box[b].pending /\ u.box[b].results = ui.box[b].results
  BY <1>1, <1>3, CommittedShape
<1>5. PICK v : v = Loading(u, o)
  OBVIOUS
<1>6. v \in UiType /\ v.box = u.box /\ SameSelection(u, v)
  BY <1>4, <1>5, LoadingDoes
<1>7. ui' = Watched(v, b)
  BY <1>2, <1>3, <1>5
<1> QED
  BY <1>1, <1>4, <1>6, <1>7, ShapeIn, WatchedShape DEF SameSelection

LEMMA BlurShape ==
  ASSUME ShapeInv, Blur
  PROVE  ShapeOk(ui')
<1>1. "target" \in Box /\ ui \in UiType /\ ui.box["target"] \in BoxType
  BY ShapeIn DEF Box
<1>2. PICK o \in Thing : ui' = Loading(ui, o)
  BY <1>1 DEF Blur, BoxType
<1>3. PICK v : v = Loading(ui, o)
  OBVIOUS
<1>4. v.box = ui.box /\ SameSelection(ui, v)
  BY <1>1, <1>3, LoadingDoes
<1> QED
  BY <1>2, <1>3, <1>4 DEF ShapeInv, ShapeOk, SameSelection

LEMMA AppliedShape ==
  ASSUME ShapeInv, NEW view \in Target, NEW u \in UiType, u.box = ui.box, u.approver = ui.approver,
         view # None, view.groups \subseteq Held \cup Other, ~Account => view.title = None /\ view.enabled = None /\ view.expiry = None,
         ui' = Watched(Applied(u, view), "target")
  PROVE  ShapeOk(ui')
<1> DEFINE b == "target"
           x == [u.box[b] EXCEPT !.results = {}, !.text = Label(view.of)]
           f == FormOf(view)
<1>1. b \in Box /\ u.box[b] \in BoxType
  BY DEF Box, UiType
<1>2. x \in BoxType /\ x.pending = ui.box[b].pending /\ x.results = {}
  <2>1. Label(view.of) \in Text
    BY TextIn DEF Target, Thing
  <2> QED
    BY <1>1, <2>1 DEF BoxType
<1>3. PICK v : v = Applied(u, view)
  OBVIOUS
<1>4. v = [u EXCEPT !.snapshot = view, !.form = f, !.box["target"] = x, !.raced = (u.chosen # view.of), !.touched = {}]
  BY <1>1, <1>3 DEF Applied, UiType
<1>5. f \in TargetForm /\ f.groups = view.groups /\ (~Account => Untold(f))
  BY FormOfType DEF ToLocal, Untold
<1> HIDE DEF x, f
<1>6. /\ v \in UiType /\ v.approver = u.approver /\ v.snapshot = view /\ v.form = f
      /\ v.box[b] = x /\ \A c \in Box \ {b} : v.box[c] = u.box[c]
  BY <1>2, <1>4, <1>5 DEF UiType, Box
<1> QED
  BY <1>1, <1>2, <1>3, <1>5, <1>6, ShapeIn, WatchedShape

LEMMA LoadFailedShape ==
  ASSUME ShapeInv, NEW u \in UiType, u.box = ui.box, SameSelection(ui, u),
         \/ Account /\ ui' = Watched(ClearedTarget(u), "target")
         \/ ~Account /\ ui' = Watched(ClearedGroup(u), "target")
  PROVE  ShapeOk(ui')
<1>1. "target" \in Box /\ u.form \in TargetForm /\ NoForm.groups = {} /\ Untold(NoForm)
  BY DEF Box, UiType, NoForm, Untold
<1>2. PICK v : /\ ui' = Watched(v, "target")
               /\ \/ v = [u EXCEPT !.snapshot = None, !.form = NoForm]
                  \/ ~Account /\ v = [u EXCEPT !.snapshot = None, !.form = [@ EXCEPT !.groups = {}]]
  BY DEF ClearedTarget, ClearedGroup
<1>3. ~Account => [u.form EXCEPT !.groups = {}] = NoForm
  BY <1>1, ShapeIn DEF NoForm, TargetForm, SameSelection, Untold
<1>4. v \in UiType /\ v.box = u.box /\ v.approver = u.approver /\ v.snapshot = None /\ v.form = NoForm
  <2>1. NoForm \in TargetForm
    BY DEF NoForm, TargetForm
  <2>2. \/ v = [u EXCEPT !.snapshot = None, !.form = NoForm]
    BY <1>2, <1>3 DEF UiType
  <2> QED
    BY <2>1, <2>2 DEF UiType
<1> QED
  BY <1>1, <1>2, <1>4, ShapeIn, WatchedShape DEF SameSelection

LEMMA LoadAnsweredShape ==
  ASSUME ShapeInv, AccountAnswered \/ GroupAnswered
  PROVE  ShapeOk(ui')
<1>1. PICK o \in Object :
        /\ ui.loads[o] > 0
        /\ LET u == [ui EXCEPT !.loads[o] = @ - 1] IN
           \/ Account /\ ui' = Watched(Applied(u, AccountView(o)), "target")
           \/ ~Account /\ ui' = Watched(Applied(u, GroupView(o)), "target")
           \/ Account /\ ui' = Watched(ClearedTarget(u), "target")
           \/ ~Account /\ ui' = Watched(ClearedGroup(u), "target")
  BY DEF AccountAnswered, GroupAnswered, LoadAnswered
<1>2. PICK u : u = [ui EXCEPT !.loads[o] = @ - 1]
  OBVIOUS
<1>3. /\ u \in UiType /\ u.box = ui.box /\ SameSelection(ui, u)
  BY <1>1, <1>2, Landed DEF ShapeInv
<1>4. AccountView(o) \in Target /\ GroupView(o) \in Target
  BY ViewsIn DEF ShapeInv
<1>5. /\ AccountView(o) # None /\ GroupView(o) # None
      /\ AccountView(o).groups = Held /\ GroupView(o).groups = Held /\ GroupView(o).title = None
      /\ GroupView(o).enabled = None /\ GroupView(o).expiry = None
  BY EditorAssumption DEF AccountView, GroupView, ShapeInv, PageInv
<1>6. CASE Account /\ ui' = Watched(Applied(u, AccountView(o)), "target")
  BY <1>3, <1>4, <1>5, <1>6, AppliedShape DEF SameSelection
<1>7. CASE ~Account /\ ui' = Watched(Applied(u, GroupView(o)), "target")
  BY <1>3, <1>4, <1>5, <1>7, AppliedShape DEF SameSelection
<1>8. CASE \/ Account /\ ui' = Watched(ClearedTarget(u), "target")
           \/ ~Account /\ ui' = Watched(ClearedGroup(u), "target")
  BY <1>3, <1>8, LoadFailedShape
<1> QED
  BY <1>1, <1>2, <1>6, <1>7, <1>8

\* The form beside the target is edited, or everything is sent.
LEMMA EditedShape ==
  ASSUME ShapeInv, ui'.box = ui.box, ui'.approver = ui.approver, ui'.snapshot = ui.snapshot, ui.snapshot # None,
         ui'.form.groups \subseteq Held \cup Other,
         ~Account => ui'.form.title = ui.form.title /\ ui'.form.enabled = ui.form.enabled /\ ui'.form.expiry = ui.form.expiry
  PROVE  ShapeOk(ui')
  BY DEF ShapeInv, ShapeOk, Untold

LEMMA EditFieldShape ==
  ASSUME ShapeInv, EditField
  PROVE  ShapeOk(ui')
<1>1. ui \in UiType /\ ui.form \in TargetForm /\ Account /\ ui.snapshot # None /\ ui.form.groups \subseteq Held \cup Other
  BY DEF EditField, ShapeInv, PageInv, UiType, ShapeOk
<1>2. PICK value, touched :
        \/ ui' = [ui EXCEPT !.form.title = value, !.touched = touched]
        \/ ui' = [ui EXCEPT !.form.enabled = value, !.touched = touched]
        \/ ui' = [ui EXCEPT !.form.expiry = value, !.touched = touched]
  BY DEF EditField
<1> DEFINE kept == ui'.box = ui.box /\ ui'.approver = ui.approver /\ ui'.snapshot = ui.snapshot /\ ui'.form.groups = ui.form.groups
<1>3. kept
  <2>1. CASE ui' = [ui EXCEPT !.form.title = value, !.touched = touched]
    BY <1>1, <2>1 DEF UiType, TargetForm
  <2>2. CASE ui' = [ui EXCEPT !.form.enabled = value, !.touched = touched]
    BY <1>1, <2>2 DEF UiType, TargetForm
  <2>3. CASE ui' = [ui EXCEPT !.form.expiry = value, !.touched = touched]
    BY <1>1, <2>3 DEF UiType, TargetForm
  <2> QED
    BY <1>2, <2>1, <2>2, <2>3
<1> QED
  BY <1>1, <1>3, EditedShape

LEMMA ToggleMembershipShape ==
  ASSUME ShapeInv, ToggleMembership
  PROVE  ShapeOk(ui')
<1>1. /\ ui \in UiType /\ ui.form \in TargetForm /\ ui.snapshot # None
      /\ ui.form.groups \subseteq Held \cup Other /\ ui.snapshot.groups \subseteq Held \cup Other
  BY DEF ToggleMembership, ShapeInv, PageInv, UiType, ShapeOk
<1> DEFINE toggled(g) == IF g \in ui.form.groups THEN ui.form.groups \ {g} ELSE ui.form.groups \cup {g}
<1>2. PICK g \in ui.snapshot.groups \cup ui.form.groups :
        ui' = [ui EXCEPT !.form.groups = toggled(g), !.touched = @ \cup {g}]
  BY <1>1 DEF ToggleMembership, UiType, TargetForm
<1>3. toggled(g) \subseteq Held \cup Other
  BY <1>1, <1>2
<1> HIDE DEF toggled
<1>4. /\ ui'.box = ui.box /\ ui'.approver = ui.approver /\ ui'.snapshot = ui.snapshot
      /\ ui'.form.title = ui.form.title /\ ui'.form.enabled = ui.form.enabled /\ ui'.form.expiry = ui.form.expiry /\ ui'.form.groups = toggled(g)
  BY <1>1, <1>2 DEF UiType, TargetForm
<1> QED
  BY <1>1, <1>3, <1>4, EditedShape

LEMMA SendShape ==
  ASSUME ShapeInv, SendAccountChange \/ SendGroupChange
  PROVE  ShapeOk(ui')
<1>1. ui \in UiType /\ ui.snapshot # None /\ ui.form.groups \subseteq Held \cup Other
  BY DEF SendAccountChange, SendGroupChange, ShapeInv, PageInv, ShapeOk
<1>2. PICK sent : ui' = [ui EXCEPT !.sent = sent]
  BY DEF SendAccountChange, SendGroupChange, Send
<1>3. ui'.box = ui.box /\ ui'.approver = ui.approver /\ ui'.snapshot = ui.snapshot /\ ui'.form = ui.form
  BY <1>1, <1>2 DEF UiType
<1> QED
  BY <1>1, <1>3, EditedShape

LEMMA ShapeInit == Init => ShapeInv
<1> SUFFICES ASSUME Init PROVE ShapeInv
  OBVIOUS
<1>1. /\ ui.approver = None /\ ui.snapshot = None /\ ui.form = NoForm
      /\ \A b \in Box : ui.box[b] = EmptyBox
  BY DEF Init
<1>2. EmptyBox.pending = None /\ EmptyBox.results = {} /\ NoForm.groups = {} /\ Untold(NoForm)
  BY DEF EmptyBox, NoForm, Untold
<1>3. ShapeOk(ui)
  BY <1>1, <1>2 DEF ShapeOk
<1> QED
  BY <1>3, PageInit DEF ShapeInv

LEMMA ShapeNext == ShapeInv /\ [Next]_vars => ShapeInv'
<1> SUFFICES ASSUME ShapeInv, [Next]_vars
             PROVE  ShapeInv'
  OBVIOUS
<1>1. PageInv' /\ scenario' = scenario
  <2>1. PageInv'
    BY PageNext DEF ShapeInv
  <2>2. scenario' = scenario
    BY DEF Next, vars, templateVars, TemplatesNext, ReadExisting, CheckName, Write, ReadRows, ReadGroups, ResolveReference,
      StoreRequest, FailCall, SaveAnswered, ListAnswered, SubmitAnswered, Refresh, OpenCreate, OpenEdit, Edit, Save, Close,
      OpenForm, TypeName, TypeSam, TypeUpn, ToggleGroup, SelectTemplate, Submit, Fill
  <2> QED
    BY <2>1, <2>2
<1>2. ShapeOk(ui')
  <2>1. CASE UNCHANGED ui
    BY <2>1 DEF ShapeInv, ShapeOk
  <2>2. CASE FormNext
    BY <2>2, TypeShape, StartSearchShape, SearchAnsweredShape, SelectApproverShape, SelectShape, BlurShape,
       LoadAnsweredShape, EditFieldShape, AddMembershipShape, ToggleMembershipShape, SendShape
    DEF FormNext, SelectTargetUser, SelectTargetGroup, BlurTargetUser, BlurTargetGroup, SelectGroup, SelectMember,
        ToggleCurrentGroup, ToggleCurrentMember
  <2> QED
    BY <2>1, <2>2 DEF Next, vars, formVars
<1> QED
  BY <1>1, <1>2 DEF ShapeInv, ShapeOk, Account

----------------------------------------------------------------------------
(* How many versions there are, whose names are whose, and who saves.       *)

\* The calls that may still write, for each of which a save was spent; and how
\* many versions a template can have by now.
IsWriting(k) == k.kind \in {"create", "update"} /\ k.stage \in {"sent", "based", "named"}
Writing == {c \in Slot : IsWriting(call[c])}
Bound == 1 + scenario.saves - left.saves - Cardinality(Writing)

ViewsWithin(views, n) == \A v \in views : v.version \in 1..n
CallWithin(k, n) ==
  /\ k.base \in 0..n /\ \A r \in k.read : r[2].version \in 1..n
  /\ ViewsWithin(k.answer, n)
VersionsWithin(n) ==
  /\ \A t \in Template : rows[t] # None => rows[t].version \in 1..n
  /\ \A c \in Slot : CallWithin(call[c], n)
  /\ \A a \in Admin : ViewsWithin(page[a].views, n)
  /\ ViewsWithin(form.views, n) /\ (form.template # None => form.template.version \in 1..n)

Purse == {"saves", "lists", "fills", "faults"}
SavesCounted ==
  /\ left \in [Purse -> Int] /\ left.saves \in Nat
  /\ IsFiniteSet(Writing) /\ left.saves + Cardinality(Writing) <= scenario.saves

\* Nobody has the name of another.
NamesDiffer ==
  \A t, u \in Template : t # u /\ rows[t] # None /\ rows[u] # None => rows[t].name # rows[u].name

\* A template that is yet to be created has no identifier, so that its name is
\* compared with all of them; and whose a call is.
Plain(k) ==
  /\ k.kind = "create" /\ k.stage \in {"sent", "named"} => k.id = None
  /\ k.stage = "idle" => k.by = None
  /\ k.kind = "submit" /\ k.stage # "idle" => k.by = Form

\* A page's button rests as long as a call that began with it is under way, of which
\* there is one at most.
Saves(k, a) == k.by = a /\ k.kind # "list"
SavingOk ==
  \A a \in Admin :
    /\ page[a].saving <=> \E c \in Slot : Saves(call[c], a)
    /\ \A c, d \in Slot : Saves(call[c], a) /\ Saves(call[d], a) => c = d

CountInv ==
  /\ TemplateInv
  /\ SavesCounted /\ VersionsWithin(Bound)
  /\ NamesDiffer /\ \A c \in Slot : Plain(call[c])
  /\ SavingOk

LEMMA SpendDoes ==
  ASSUME left \in [Purse -> Int], NEW what \in Purse, Spend(what)
  PROVE  /\ left' \in [Purse -> Int]
         /\ what # "saves" => left'.saves = left.saves
         /\ what = "saves" => left'.saves = left.saves - 1 /\ left.saves > 0
<1>1. left[what] - 1 \in Int
  OBVIOUS
<1>2. left' = [left EXCEPT ![what] = left[what] - 1]
  BY DEF Spend
<1>3. left' \in [Purse -> Int] /\ left'["saves"] = IF what = "saves" THEN left["saves"] - 1 ELSE left["saves"]
  BY <1>1, <1>2 DEF Purse
<1> QED
  BY <1>3 DEF Spend

LEMMA BoundIn ==
  ASSUME CountInv
  PROVE  /\ scenario \in Scenarios /\ scenario.saves \in Nat /\ left.saves \in Nat
         /\ Bound \in Nat /\ 1 <= Bound /\ Bound <= 1 + scenario.saves
         /\ IsFiniteSet(Writing) /\ Cardinality(Writing) \in Nat
<1>1. scenario \in Scenarios /\ scenario.saves \in Nat /\ left.saves \in Nat /\ IsFiniteSet(Writing)
  BY ScenariosAssumption DEF CountInv, TemplateInv, TemplatesShape, SavesCounted
<1>2. Cardinality(Writing) \in Nat /\ left.saves + Cardinality(Writing) <= scenario.saves
  BY <1>1, FS_CardinalityType DEF CountInv, SavesCounted
<1> QED
  BY <1>1, <1>2 DEF Bound

\* What is within a bound is within a greater one.
LEMMA ViewsHigher ==
  ASSUME NEW n \in Nat, NEW m \in Nat, n <= m, NEW views, ViewsWithin(views, n)
  PROVE  ViewsWithin(views, m)
  BY DEF ViewsWithin

LEMMA CallHigher ==
  ASSUME NEW n \in Nat, NEW m \in Nat, n <= m, NEW k, CallWithin(k, n)
  PROVE  CallWithin(k, m)
  BY ViewsHigher DEF CallWithin

LEMMA AllHigher ==
  ASSUME NEW n \in Nat, NEW m \in Nat, n <= m, VersionsWithin(n)
  PROVE  VersionsWithin(m)
  BY ViewsHigher, CallHigher DEF VersionsWithin

\* What becomes of the calls that may still write when the call of a slot is another.
LEMMA WritingKept ==
  ASSUME CountInv, NEW c \in Slot, NEW k, Put(c, k), IsWriting(k) <=> IsWriting(call[c])
  PROVE  Writing' = Writing
<1>1. call \in [Slot -> CallType]
  BY DEF CountInv, TemplateInv, TemplatesShape
<1> QED
  BY <1>1 DEF Put, Writing

LEMMA WritingEnds ==
  ASSUME CountInv, NEW c \in Slot, NEW k, Put(c, k), IsWriting(call[c]), ~IsWriting(k)
  PROVE  Writing' = Writing \ {c} /\ c \in Writing
<1>1. call \in [Slot -> CallType]
  BY DEF CountInv, TemplateInv, TemplatesShape
<1> QED
  BY <1>1 DEF Put, Writing

LEMMA WritingBegins ==
  ASSUME CountInv, NEW c \in Slot, NEW k, Put(c, k), ~IsWriting(call[c]), IsWriting(k)
  PROVE  Writing' = Writing \cup {c} /\ c \notin Writing
<1>1. call \in [Slot -> CallType]
  BY DEF CountInv, TemplateInv, TemplatesShape
<1> QED
  BY <1>1 DEF Put, Writing

\* No save was spent: the bound stays, or a call that may not write any more raises it.
LEMMA BoundLater ==
  ASSUME CountInv, scenario' = scenario, left' \in [Purse -> Int], left'.saves = left.saves,
         NEW c \in Slot, NEW k, Put(c, k), IsWriting(k) => IsWriting(call[c])
  PROVE  /\ SavesCounted' /\ Bound' \in Nat
         /\ Bound' = IF IsWriting(call[c]) /\ ~IsWriting(k) THEN Bound + 1 ELSE Bound
<1>1. /\ scenario.saves \in Nat /\ left.saves \in Nat /\ Bound \in Nat /\ IsFiniteSet(Writing)
      /\ Cardinality(Writing) \in Nat /\ left.saves + Cardinality(Writing) <= scenario.saves
  BY BoundIn DEF CountInv, SavesCounted
<1>2. CASE IsWriting(k) <=> IsWriting(call[c])
  <2>1. Writing' = Writing
    BY <1>2, WritingKept
  <2> QED
    BY <1>1, <1>2, <2>1 DEF SavesCounted, Bound
<1>3. CASE IsWriting(call[c]) /\ ~IsWriting(k)
  <2>1. Writing' = Writing \ {c} /\ c \in Writing
    BY <1>3, WritingEnds
  <2>2. IsFiniteSet(Writing') /\ Cardinality(Writing') = Cardinality(Writing) - 1
    BY <1>1, <2>1, FS_RemoveElement
  <2>3. Cardinality(Writing') \in Nat
    BY <2>2, FS_CardinalityType
  <2> QED
    BY <1>1, <1>3, <2>2, <2>3 DEF SavesCounted, Bound
<1> QED
  BY <1>2, <1>3

\* A step that changes one call, and pages and the form, but no row.
LEMMA CountLater ==
  ASSUME CountInv, TemplateInv', scenario' = scenario, rows' = rows, left' \in [Purse -> Int], left'.saves = left.saves,
         NEW c \in Slot, NEW k, Put(c, k), IsWriting(k) => IsWriting(call[c]),
         CallWithin(k, Bound), Plain(k),
         \A a \in Admin : ViewsWithin(page'[a].views, Bound),
         ViewsWithin(form'.views, Bound), form'.template # None => form'.template.version \in 1..Bound,
         SavingOk'
  PROVE  CountInv'
<1>1. SavesCounted' /\ Bound' \in Nat /\ Bound \in Nat /\ Bound <= Bound'
  BY BoundIn, BoundLater
<1>2. \A d \in Slot : call'[d] = IF d = c THEN k ELSE call[d]
  BY DEF Put, CountInv, TemplateInv, TemplatesShape
<1>3. \A d \in Slot : CallWithin(call'[d], Bound) /\ Plain(call'[d])
  BY <1>2 DEF CountInv, VersionsWithin
<1>4. \A t \in Template : rows'[t] # None => rows'[t].version \in 1..Bound
  BY DEF CountInv, VersionsWithin
<1>5. PICK m \in Nat : m = Bound'
  BY <1>1
<1>6. /\ \A t \in Template : rows'[t] # None => rows'[t].version \in 1..m
      /\ \A d \in Slot : CallWithin(call'[d], m)
      /\ \A a \in Admin : ViewsWithin(page'[a].views, m)
      /\ ViewsWithin(form'.views, m) /\ (form'.template # None => form'.template.version \in 1..m)
  BY <1>1, <1>3, <1>4, <1>5, ViewsHigher, CallHigher
<1>7. VersionsWithin(Bound)'
  BY <1>5, <1>6 DEF VersionsWithin, CallWithin, ViewsWithin
<1>8. NamesDiffer' /\ (\A d \in Slot : Plain(call[d]))'
  BY <1>3 DEF CountInv, NamesDiffer, Plain
<1> QED
  BY <1>1, <1>7, <1>8 DEF CountInv

LEMMA CountIn ==
  ASSUME CountInv, NEW c \in Slot
  PROVE  /\ TemplateInv /\ call[c] \in CallType /\ CallOk(call[c]) /\ CallWithin(call[c], Bound) /\ Plain(call[c])
         /\ left \in [Purse -> Int] /\ SavingOk /\ Bound \in Nat /\ 1 <= Bound
         /\ \A t \in Template : rows[t] # None => rows[t].version \in 1..Bound
         /\ \A a \in Admin : ViewsWithin(page[a].views, Bound)
         /\ ViewsWithin(form.views, Bound) /\ (form.template # None => form.template.version \in 1..Bound)
  BY BoundIn, CallIn DEF CountInv, SavesCounted, VersionsWithin

\* Who saves stays, when a call remains whose it is and what for.
LEMMA SavingKept ==
  ASSUME CountInv, NEW c \in Slot, NEW k, Put(c, k), \A a \in Admin : Saves(k, a) <=> Saves(call[c], a),
         \A a \in Admin : page'[a].saving = page[a].saving
  PROVE  SavingOk'
<1>1. \A d \in Slot : call'[d] = IF d = c THEN k ELSE call[d]
  BY DEF Put, CountInv, TemplateInv, TemplatesShape
<1>2. \A d \in Slot, a \in Admin : Saves(call'[d], a) <=> Saves(call[d], a)
  BY <1>1
<1>3. \A a \in Admin :
        /\ page'[a].saving <=> \E d \in Slot : Saves(call'[d], a)
        /\ \A d, e \in Slot : Saves(call'[d], a) /\ Saves(call'[e], a) => d = e
  BY <1>2 DEF CountInv, SavingOk
<1> QED
  BY <1>3 DEF SavingOk, Saves

\* A step of the API that writes nothing.
LEMMA ApiLater ==
  ASSUME CountInv, TemplateInv', UNCHANGED <<scenario, rows, page, form>>,
         left' \in [Purse -> Int], left'.saves = left.saves,
         NEW c \in Slot, NEW k, Put(c, k), k.kind = call[c].kind, k.by = call[c].by, k.stage # "idle", call[c].stage # "idle",
         k.kind = "create" => k.id = call[c].id /\ (k.stage \in {"sent", "named"} => call[c].stage \in {"sent", "named"}),
         k.stage \in {"sent", "based", "named"} => call[c].stage \in {"sent", "based", "named"},
         CallWithin(k, Bound)
  PROVE  CountInv'
<1>1. Plain(k)
  BY CountIn DEF Plain
<1>2. SavingOk'
  BY SavingKept DEF Saves
<1>3. IsWriting(k) => IsWriting(call[c])
  BY DEF IsWriting
<1> QED
  BY <1>1, <1>2, <1>3, CountIn, CountLater

LEMMA AnsweredWithin ==
  ASSUME CountInv, NEW c \in Slot, NEW ok, NEW views, ViewsWithin(views, Bound)
  PROVE  LET k == Answered(call[c], ok, views) IN
         /\ CallWithin(k, Bound) /\ k.kind = call[c].kind /\ k.by = call[c].by /\ k.id = call[c].id /\ k.stage \in {"done", "failed"}
<1>1. PICK k : k = Answered(call[c], ok, views)
  OBVIOUS
<1>2. /\ k.kind = call[c].kind /\ k.by = call[c].by /\ k.id = call[c].id /\ k.stage \in {"done", "failed"}
      /\ k.base = call[c].base /\ k.read = call[c].read /\ k.answer = views
  BY <1>1, CountIn DEF Answered, CallType
<1> QED
  BY <1>1, <1>2, CountIn DEF CallWithin

----------------------------------------------------------------------------
(* Every step keeps them.                                                   *)

LEMMA ReadExistingCount ==
  ASSUME CountInv, NEW c \in Slot, ReadExisting(c), TemplateInv'
  PROVE  CountInv'
<1>1. call[c].kind = "update" /\ call[c].stage = "sent" /\ call[c].id \in Template /\ rows[call[c].id] # None
  BY CountIn DEF ReadExisting, At, CallOk, CallType, Ids
<1>2. PICK k : Put(c, k) /\ k = [call[c] EXCEPT !.base = rows[call[c].id].version, !.stage = "based"]
  BY DEF ReadExisting
<1>3. /\ k.kind = call[c].kind /\ k.by = call[c].by /\ k.stage = "based" /\ k.base = rows[call[c].id].version
      /\ k.read = call[c].read /\ k.answer = call[c].answer
  BY <1>2, CountIn DEF CallType
<1>4. rows[call[c].id].version \in 1..Bound /\ Bound \in Nat
  BY <1>1, CountIn
<1>5. CallWithin(k, Bound)
  BY <1>3, <1>4, CountIn DEF CallWithin
<1> QED
  BY <1>1, <1>2, <1>3, <1>5, CountIn, ApiLater DEF ReadExisting

LEMMA CheckNameCount ==
  ASSUME CountInv, NEW c \in Slot, CheckName(c), TemplateInv'
  PROVE  CountInv'
<1>1. PICK k : Put(c, k) /\ (k = Answered(call[c], FALSE, {}) \/ k = [call[c] EXCEPT !.stage = "named"])
  BY DEF CheckName
<1>2. call[c].stage \in {"sent", "based"} /\ call[c].stage # "idle" /\ (call[c].stage = "based" => call[c].kind = "update")
  BY CountIn DEF CheckName, At, CallOk
<1>3. CASE k = Answered(call[c], FALSE, {})
  <2>1. CallWithin(k, Bound) /\ k.kind = call[c].kind /\ k.by = call[c].by /\ k.id = call[c].id /\ k.stage \in {"done", "failed"}
    BY <1>3, AnsweredWithin DEF ViewsWithin
  <2> QED
    BY <1>1, <1>2, <2>1, CountIn, ApiLater DEF CheckName
<1>4. CASE k = [call[c] EXCEPT !.stage = "named"]
  <2>1. /\ k.kind = call[c].kind /\ k.by = call[c].by /\ k.id = call[c].id /\ k.stage = "named"
        /\ k.base = call[c].base /\ k.read = call[c].read /\ k.answer = call[c].answer
    BY <1>4, CountIn DEF CallType
  <2>2. CallWithin(k, Bound)
    BY <2>1, CountIn DEF CallWithin
  <2> QED
    BY <1>1, <1>2, <2>1, <2>2, CountIn, ApiLater DEF CheckName
<1> QED
  BY <1>1, <1>3, <1>4

LEMMA WriteCount ==
  ASSUME CountInv, NEW c \in Slot, Write(c), TemplateInv'
  PROVE  CountInv'
<1> DEFINE k == call[c]
           i == k.input
<1>1. /\ k.stage = "named" /\ k.kind \in {"create", "update"} /\ k \in CallType /\ IsWriting(k) /\ i.name # None
      /\ rows \in [Template -> Row \cup {None}] /\ call \in [Slot -> CallType]
      /\ left' = left /\ scenario' = scenario /\ page' = page /\ form' = form
  BY CountIn DEF Write, CallOk, IsWriting, TemplateInv, TemplatesShape
<1>2. CASE Taken(i.name, k.id)
  <2>1. PICK j : Put(c, j) /\ j = Answered(k, FALSE, {})
    BY <1>2 DEF Write
  <2>2. CallWithin(j, Bound) /\ j.kind = k.kind /\ j.by = k.by /\ j.id = k.id /\ j.stage \in {"done", "failed"}
    BY <2>1, AnsweredWithin DEF ViewsWithin
  <2>3. rows' = rows
    BY <1>2 DEF Write
  <2> QED
    BY <1>1, <2>1, <2>2, <2>3, CountIn, ApiLater
<1>3. CASE ~Taken(i.name, k.id)
  <2>place. PICK id, version :
          /\ id = IF k.kind = "create" THEN CHOOSE t \in Template \ Existing : TRUE ELSE k.id
          /\ version = IF k.kind = "create" THEN 1 ELSE NextVersion(k)
    OBVIOUS
  <2>new. PICK row, j :
          /\ row = [name |-> i.name, active |-> i.active, suffix |-> i.suffix, version |-> version]
          /\ j = [k EXCEPT !.id = id, !.stage = "written"]
    OBVIOUS
  <2>written. rows' = [rows EXCEPT ![id] = row] /\ Put(c, j)
    BY <1>3, <2>place, <2>new DEF Write
  <2>1. /\ id = IF k.kind = "create" THEN CHOOSE t \in Template \ Existing : TRUE ELSE k.id
        /\ version = IF k.kind = "create" THEN 1 ELSE NextVersion(k)
        /\ row = [name |-> i.name, active |-> i.active, suffix |-> i.suffix, version |-> version]
        /\ j = [k EXCEPT !.id = id, !.stage = "written"]
        /\ rows' = [rows EXCEPT ![id] = row] /\ Put(c, j)
    BY <2>place, <2>new, <2>written
  <2>calls. \A d \in Slot : call'[d] = IF d = c THEN j ELSE call[d]
    BY <1>1, <2>written DEF Put
  <2>2. id \in Template /\ (k.kind = "create" => id \notin Existing /\ k.id = None) /\ (k.kind = "update" => id = k.id)
    <3>1. CASE k.kind = "create"
      <4>1. Template \ Existing # {}
        BY <3>1 DEF Write, Existing
      <4> QED
        BY <1>1, <2>1, <3>1, <4>1, CountIn DEF Plain
    <3>2. CASE k.kind = "update"
      BY <1>1, <2>1, <3>2, CountIn DEF CallOk, CallType, Ids
    <3> QED
      BY <1>1, <3>1, <3>2
  <2>3. /\ j.kind = k.kind /\ j.by = k.by /\ j.stage = "written" /\ j.base = k.base /\ j.read = k.read /\ j.answer = k.answer
        /\ row.version = version /\ row.name = i.name
    BY <1>1, <2>1 DEF CallType
  <2>4. ~IsWriting(j)
    BY <2>3 DEF IsWriting
  <2>5. SavesCounted' /\ Bound \in Nat /\ Bound' = Bound + 1
    BY <1>1, <2>1, <2>4, CountIn, BoundLater
  <2>6. version \in 1..(Bound + 1)
    <3>1. k.base \in 0..Bound
      BY CountIn DEF CallWithin
    <3> QED
      BY <2>1, <2>5, <3>1, CountIn DEF NextVersion
  <2>7. VersionsWithin(Bound)'
    <3>1. PICK m \in Nat : m = Bound' /\ Bound <= m
      BY <2>5
    <3>2. VersionsWithin(m)
      BY <2>5, <3>1, AllHigher DEF CountInv
    <3>3. \A d \in Slot : call'[d] = IF d = c THEN j ELSE call[d]
      BY <2>calls
    <3>4. CallWithin(j, m)
      BY <2>3, <3>2 DEF VersionsWithin, CallWithin
    <3>5. \A d \in Slot : CallWithin(call'[d], m)
      BY <3>2, <3>3, <3>4 DEF VersionsWithin
    <3>6. \A t \in Template : rows'[t] # None => rows'[t].version \in 1..m
      BY <1>1, <2>1, <2>2, <2>3, <2>5, <2>6, <3>1, <3>2 DEF VersionsWithin
    <3>7. VersionsWithin(m)'
      BY <1>1, <3>2, <3>5, <3>6 DEF VersionsWithin, CallWithin, ViewsWithin
    <3> QED
      BY <3>1, <3>5, <3>6, <3>7, <1>1, <3>2 DEF VersionsWithin, CallWithin, ViewsWithin
  <2>8. NamesDiffer'
    <3>1. \A t \in Template : rows'[t] = IF t = id THEN row ELSE rows[t]
      BY <1>1, <2>1, <2>2
    <3>2. \A t \in Template \ {id} : rows[t] # None => rows[t].name # i.name
      <4>1. \A t \in Existing \ {k.id} : rows[t].name # i.name
        BY <1>3 DEF Taken
      <4>2. k.id \notin Template \ {id}
        BY <1>1, <2>2, TemplatesAssumption
      <4> QED
        BY <4>1, <4>2 DEF Existing
    <3>3. \A t, u \in Template : t # u /\ rows[t] # None /\ rows[u] # None => rows[t].name # rows[u].name
      BY DEF CountInv, NamesDiffer
    <3> HIDE DEF k, i
    <3>4. \A t, u \in Template : t # u /\ rows'[t] # None /\ rows'[u] # None => rows'[t].name # rows'[u].name
      BY <2>3, <3>1, <3>2, <3>3
    <3> QED
      BY <3>4 DEF NamesDiffer
  <2>9. (\A d \in Slot : Plain(call[d]))'
    <3>2. Plain(j)
      BY <1>1, <2>3 DEF Plain
    <3>3. \A d \in Slot : Plain(call'[d])
      BY <2>calls, <3>2 DEF CountInv
    <3> QED
      BY <3>3 DEF Plain
  <2>10. SavingOk'
    <3>1. (\A a \in Admin : Saves(j, a) <=> Saves(call[c], a)) /\ (\A a \in Admin : page'[a].saving = page[a].saving)
      BY <1>1, <2>3 DEF Saves
    <3> QED
      BY <2>1, <3>1, SavingKept
  <2> HIDE DEF k, i
  <2> QED
    BY <2>5, <2>7, <2>8, <2>9, <2>10 DEF CountInv
<1> QED
  BY <1>2, <1>3

LEMMA ReadRowsCount ==
  ASSUME CountInv, NEW c \in Slot, ReadRows(c), TemplateInv'
  PROVE  CountInv'
<1>1. call[c] \in CallType /\ CallOk(call[c]) /\ (call[c].stage = "written" => call[c].id \in Template /\ rows[call[c].id] # None)
  BY CountIn DEF CallOk, CallType, Ids
<1>2. PICK ids \in SUBSET Existing :
        Put(c, [call[c] EXCEPT !.read = {<<t, rows[t]>> : t \in ids}, !.stage = "read"])
  <2>1. call[c].stage = "written" => {call[c].id} \subseteq Existing
    BY <1>1 DEF Existing
  <2> QED
    BY <2>1 DEF ReadRows, Existing
<1> DEFINE R == {<<t, rows[t]>> : t \in ids}
<1>3. \A r \in R : r[2].version \in 1..Bound
  BY CountIn DEF Existing
<1>4. PICK k : Put(c, k) /\ k = [call[c] EXCEPT !.read = R, !.stage = "read"]
  BY <1>2
<1> HIDE DEF R
<1>5. /\ k.kind = call[c].kind /\ k.by = call[c].by /\ k.id = call[c].id /\ k.stage = "read"
      /\ k.base = call[c].base /\ k.read = R /\ k.answer = call[c].answer
  BY <1>1, <1>4 DEF CallType
<1>6. CallWithin(k, Bound)
  BY <1>3, <1>5, CountIn DEF CallWithin
<1>7. call[c].stage # "idle"
  BY DEF ReadRows, At
<1> QED
  BY <1>4, <1>5, <1>6, <1>7, CountIn, ApiLater DEF ReadRows

LEMMA ReadGroupsCount ==
  ASSUME CountInv, NEW c \in Slot, ReadGroups(c), TemplateInv'
  PROVE  CountInv'
<1> DEFINE V == {View(r[1], r[2]) : r \in call[c].read}
<1>1. PICK k : Put(c, k) /\ k = Answered(call[c], TRUE, V)
  BY DEF ReadGroups
<1>2. ViewsWithin(V, Bound)
  BY CountIn DEF CallWithin, ViewsWithin, View
<1> HIDE DEF V
<1>3. CallWithin(k, Bound) /\ k.kind = call[c].kind /\ k.by = call[c].by /\ k.id = call[c].id /\ k.stage \in {"done", "failed"}
  BY <1>1, <1>2, AnsweredWithin
<1> QED
  BY <1>1, <1>3, CountIn, ApiLater DEF ReadGroups

LEMMA ResolveReferenceCount ==
  ASSUME CountInv, NEW c \in Slot, ResolveReference(c), TemplateInv'
  PROVE  CountInv'
<1>1. call[c].kind = "submit" /\ call[c].stage = "sent"
  BY DEF ResolveReference, At
<1>2. PICK k, ref : /\ Put(c, k)
                    /\ \/ k = Answered(call[c], FALSE, {})
                       \/ k = [call[c] EXCEPT !.stage = "resolved"]
                       \/ k = [call[c] EXCEPT !.stage = "resolved", !.ref = ref]
  BY DEF ResolveReference
<1>3. CallWithin(k, Bound) /\ k.kind = call[c].kind /\ k.by = call[c].by /\ k.stage # "idle"
  <2>1. CASE k = Answered(call[c], FALSE, {})
    <3>1. CallWithin(k, Bound) /\ k.kind = call[c].kind /\ k.by = call[c].by /\ k.stage \in {"done", "failed"}
      BY <2>1, AnsweredWithin DEF ViewsWithin
    <3> QED
      BY <3>1
  <2>2. CASE k # Answered(call[c], FALSE, {})
    <3>1. /\ k.kind = call[c].kind /\ k.by = call[c].by /\ k.stage # "idle"
          /\ k.base = call[c].base /\ k.read = call[c].read /\ k.answer = call[c].answer
      BY <1>2, <2>2, CountIn DEF CallType
    <3> QED
      BY <3>1, CountIn DEF CallWithin
  <2> QED
    BY <2>1, <2>2
<1> QED
  BY <1>1, <1>2, <1>3, CountIn, ApiLater DEF ResolveReference

LEMMA StoreRequestCount ==
  ASSUME CountInv, NEW c \in Slot, StoreRequest(c), TemplateInv'
  PROVE  CountInv'
<1>1. PICK k : Put(c, k) /\ k = Answered(call[c], TRUE, {})
  BY DEF StoreRequest
<1>2. CallWithin(k, Bound) /\ k.kind = call[c].kind /\ k.by = call[c].by /\ k.id = call[c].id /\ k.stage \in {"done", "failed"}
  BY <1>1, AnsweredWithin DEF ViewsWithin
<1>3. call[c].stage = "resolved" /\ call[c].stage # "idle"
  BY DEF StoreRequest, At
<1> QED
  BY <1>1, <1>2, <1>3, CountIn, ApiLater DEF StoreRequest

LEMMA FailCallCount ==
  ASSUME CountInv, NEW c \in Slot, FailCall(c), TemplateInv'
  PROVE  CountInv'
<1>1. PICK k : Put(c, k) /\ k = Answered(call[c], FALSE, {})
  BY DEF FailCall
<1>2. CallWithin(k, Bound) /\ k.kind = call[c].kind /\ k.by = call[c].by /\ k.id = call[c].id /\ k.stage \in {"done", "failed"}
  BY <1>1, AnsweredWithin DEF ViewsWithin
<1>3. left' \in [Purse -> Int] /\ left'.saves = left.saves
  BY CountIn, SpendDoes DEF FailCall, Purse
<1> QED
  BY <1>1, <1>2, <1>3, CountIn, ApiLater DEF FailCall

\* A new call carries no version.
LEMMA RequestedDoes ==
  ASSUME NEW kind, NEW by, NEW id, NEW input
  PROVE  LET k == Requested(kind, by, id, input) IN
         /\ k.kind = kind /\ k.by = by /\ k.id = id /\ k.stage = "sent"
         /\ k.base = 0 /\ k.read = {} /\ k.answer = {}
  BY DEF Requested, Idle

LEMMA EmptyWithin ==
  ASSUME NEW k, k.base = 0, k.read = {}, k.answer = {}, CountInv
  PROVE  CallWithin(k, Bound)
  BY BoundIn DEF CallWithin, ViewsWithin

\* The pages and the form show what they showed.
Unseen ==
  /\ \A a \in Admin : page'[a].views = page[a].views
  /\ form'.views = form.views /\ form'.template = form.template

LEMMA UnseenWithin ==
  ASSUME CountInv, Unseen
  PROVE  /\ \A a \in Admin : ViewsWithin(page'[a].views, Bound)
         /\ ViewsWithin(form'.views, Bound) /\ (form'.template # None => form'.template.version \in 1..Bound)
  BY DEF CountInv, VersionsWithin, Unseen

\* A call that saves nothing begins.
LEMMA AskLater ==
  ASSUME CountInv, TemplateInv', UNCHANGED <<scenario, rows, page>>,
         left' \in [Purse -> Int], left'.saves = left.saves, Unseen,
         NEW c \in Slot, call[c].stage = "idle", NEW k, Put(c, k),
         k.kind \in {"list", "submit"}, k.kind = "submit" => k.by = Form, k.stage = "sent",
         k.base = 0, k.read = {}, k.answer = {}
  PROVE  CountInv'
<1>1. call[c].by = None
  BY CountIn DEF Plain
<1>2. \A a \in Admin : Saves(k, a) <=> Saves(call[c], a)
  BY <1>1, TemplatesAssumption DEF Saves
<1>3. SavingOk'
  BY <1>2, SavingKept
<1>4. Plain(k) /\ ~IsWriting(k)
  BY DEF Plain, IsWriting
<1>5. CallWithin(k, Bound)
  BY EmptyWithin
<1> QED
  BY <1>3, <1>4, <1>5, UnseenWithin, CountLater

LEMMA ListCount ==
  ASSUME CountInv, TemplateInv', NEW by, Spend("lists"), Ask("list", by, None, Empty), UNCHANGED <<scenario, rows, page, form>>
  PROVE  CountInv'
<1>1. PICK c, k : c \in Slot /\ call[c].stage = "idle" /\ Put(c, k) /\ k = Requested("list", by, None, Empty)
  BY DEF Ask
<1>2. k.kind = "list" /\ k.stage = "sent" /\ k.base = 0 /\ k.read = {} /\ k.answer = {}
  BY <1>1, RequestedDoes
<1>3. left' \in [Purse -> Int] /\ left'.saves = left.saves
  BY SpendDoes DEF CountInv, SavesCounted, Purse
<1>4. Unseen
  BY DEF Unseen
<1> QED
  BY <1>1, <1>2, <1>3, <1>4, AskLater

LEMMA SubmitCount ==
  ASSUME CountInv, Submit, TemplateInv'
  PROVE  CountInv'
<1>1. PICK c, id, input, k :
        /\ c \in Slot /\ call[c].stage = "idle" /\ Put(c, k)
        /\ k = [Requested("submit", Form, id, input) EXCEPT !.view = form.template]
  BY DEF Submit
<1>2. k.kind = "submit" /\ k.by = Form /\ k.stage = "sent" /\ k.base = 0 /\ k.read = {} /\ k.answer = {}
  BY <1>1 DEF Requested, Idle
<1>3. UNCHANGED <<scenario, rows, page, left>> /\ form' = [form EXCEPT !.submitting = TRUE]
  BY DEF Submit
<1>4. Unseen
  BY <1>3, PartsOk DEF CountInv, Unseen, FormType
<1>5. left' \in [Purse -> Int] /\ left'.saves = left.saves
  BY <1>3 DEF CountInv, SavesCounted
<1> QED
  BY <1>1, <1>2, <1>3, <1>4, <1>5, AskLater

\* A save was spent for a call that may write.
LEMMA SaveCount ==
  ASSUME CountInv, NEW a \in Admin, Save(a), TemplateInv'
  PROVE  CountInv'
<1>1. PICK kind \in {"create", "update"} : kind = IF page[a].editing = None THEN "create" ELSE "update"
  OBVIOUS
<1>2. PICK c, k :
        /\ c \in Slot /\ call[c].stage = "idle" /\ Put(c, k) /\ k = Requested(kind, a, page[a].editing, page[a].form)
  BY <1>1 DEF Save, Ask
<1>3. /\ k.kind = kind /\ k.by = a /\ k.id = page[a].editing /\ k.stage = "sent"
      /\ k.base = 0 /\ k.read = {} /\ k.answer = {}
  BY <1>2, RequestedDoes
<1>4. CallWithin(k, Bound)
  BY <1>3, EmptyWithin
<1>5. ~IsWriting(call[c]) /\ IsWriting(k) /\ Plain(k) /\ call[c].by = None /\ Bound \in Nat
  BY <1>1, <1>2, <1>3, CountIn DEF IsWriting, Plain
<1>6. UNCHANGED <<scenario, rows, form>> /\ Spend("saves") /\ ~page[a].saving /\ page' = [page EXCEPT ![a].saving = TRUE]
  BY DEF Save
<1>7. page \in [Admin -> PageType] /\ call \in [Slot -> CallType]
  BY PartsOk DEF CountInv
<1>8. left' \in [Purse -> Int] /\ left'.saves = left.saves - 1 /\ left.saves > 0
  BY <1>6, SpendDoes DEF CountInv, SavesCounted, Purse
<1>9. SavesCounted' /\ Bound' = Bound
  <2>1. Writing' = Writing \cup {c} /\ c \notin Writing
    BY <1>2, <1>5, WritingBegins
  <2>2. IsFiniteSet(Writing') /\ Cardinality(Writing') = Cardinality(Writing) + 1
    BY <2>1, BoundIn, FS_AddElement
  <2>3. /\ left.saves \in Nat /\ Cardinality(Writing) \in Nat /\ scenario.saves \in Nat
        /\ left.saves + Cardinality(Writing) <= scenario.saves
    BY BoundIn DEF CountInv, SavesCounted
  <2> QED
    BY <1>6, <1>8, <2>2, <2>3 DEF SavesCounted, Bound
<1>10. \A d \in Slot : call'[d] = IF d = c THEN k ELSE call[d]
  BY <1>2, <1>7 DEF Put
<1>11. /\ \A b \in Admin : page'[b].views = page[b].views
       /\ \A b \in Admin : page'[b].saving = IF b = a THEN TRUE ELSE page[b].saving
  BY <1>6, <1>7 DEF PageType
<1>12. VersionsWithin(Bound)'
  <2>1. PICK n : n = Bound
    OBVIOUS
  <2>2. VersionsWithin(n)
    BY <2>1 DEF CountInv
  <2>3. /\ \A d \in Slot : CallWithin(call'[d], n)
        /\ \A b \in Admin : ViewsWithin(page'[b].views, n)
        /\ \A t \in Template : rows'[t] # None => rows'[t].version \in 1..n
        /\ ViewsWithin(form'.views, n) /\ (form'.template # None => form'.template.version \in 1..n)
    BY <1>4, <1>6, <1>10, <1>11, <2>1, <2>2 DEF VersionsWithin
  <2>4. n = Bound'
    BY <1>9, <2>1
  <2> QED
    BY <2>3, <2>4 DEF VersionsWithin, CallWithin, ViewsWithin
<1>13. NamesDiffer' /\ (\A d \in Slot : Plain(call[d]))'
  <2>1. \A d \in Slot : Plain(call'[d])
    BY <1>5, <1>10 DEF CountInv
  <2> QED
    BY <1>6, <2>1 DEF CountInv, NamesDiffer, Plain
<1>14. SavingOk'
  <2>1. \A d \in Slot : ~Saves(call[d], a)
    BY <1>6 DEF CountInv, SavingOk
  <2>2. \A b \in Admin \ {a}, d \in Slot : Saves(call'[d], b) <=> Saves(call[d], b)
    BY <1>3, <1>5, <1>10, TemplatesAssumption DEF Saves
  <2>3. \A d \in Slot : Saves(call'[d], a) <=> d = c
    BY <1>3, <1>10, <2>1 DEF Saves
  <2>4. \A b \in Admin :
          /\ page'[b].saving <=> \E d \in Slot : Saves(call'[d], b)
          /\ \A d, e \in Slot : Saves(call'[d], b) /\ Saves(call'[e], b) => d = e
    <3> SUFFICES ASSUME NEW b \in Admin
                 PROVE  /\ page'[b].saving <=> \E d \in Slot : Saves(call'[d], b)
                        /\ \A d, e \in Slot : Saves(call'[d], b) /\ Saves(call'[e], b) => d = e
      OBVIOUS
    <3>1. CASE b = a
      BY <1>2, <1>11, <2>3, <3>1
    <3>2. CASE b # a
      BY <1>11, <2>2, <3>2 DEF CountInv, SavingOk
    <3> QED
      BY <3>1, <3>2
  <2> QED
    BY <2>4 DEF SavingOk, Saves
<1> QED
  BY <1>9, <1>12, <1>13, <1>14 DEF CountInv

\* A page that is edited: no call begins or ends.
LEMMA DrawnLater ==
  ASSUME CountInv, TemplateInv', UNCHANGED <<scenario, rows, call>>, left' \in [Purse -> Int], left'.saves = left.saves,
         \A a \in Admin : ViewsWithin(page'[a].views, Bound) /\ page'[a].saving = page[a].saving,
         ViewsWithin(form'.views, Bound), form'.template # None => form'.template.version \in 1..Bound
  PROVE  CountInv'
<1>1. Writing' = Writing /\ Bound' = Bound
  BY DEF Writing, Bound
<1>2. SavesCounted'
  BY <1>1 DEF CountInv, SavesCounted
<1>3. PICK n : n = Bound
  OBVIOUS
<1>4. VersionsWithin(Bound)'
  <2>1. /\ \A t \in Template : rows'[t] # None => rows'[t].version \in 1..n
        /\ \A d \in Slot : CallWithin(call'[d], n)
        /\ \A a \in Admin : ViewsWithin(page'[a].views, n)
        /\ ViewsWithin(form'.views, n) /\ (form'.template # None => form'.template.version \in 1..n)
    BY <1>3 DEF CountInv, VersionsWithin
  <2>2. n = Bound'
    BY <1>1, <1>3
  <2> QED
    BY <2>1, <2>2 DEF VersionsWithin, CallWithin, ViewsWithin
<1>5. NamesDiffer' /\ (\A d \in Slot : Plain(call[d]))'
  BY DEF CountInv, NamesDiffer, Plain
<1>6. SavingOk'
  <2>1. \A a \in Admin :
          /\ page'[a].saving <=> \E d \in Slot : Saves(call'[d], a)
          /\ \A d, e \in Slot : Saves(call'[d], a) /\ Saves(call'[e], a) => d = e
    BY DEF CountInv, SavingOk
  <2> QED
    BY <2>1 DEF SavingOk, Saves
<1> QED
  BY <1>2, <1>4, <1>5, <1>6 DEF CountInv

LEMMA DrawerCount ==
  ASSUME CountInv, NEW a \in Admin, OpenCreate(a) \/ OpenEdit(a) \/ Edit(a) \/ Close(a), TemplateInv'
  PROVE  CountInv'
<1>1. UNCHANGED <<scenario, rows, call, form, left>>
  BY DEF OpenCreate, OpenEdit, Edit, Close
<1>2. page \in [Admin -> PageType]
  BY PartsOk DEF CountInv
<1>3. PICK editing, content :
        \/ page' = [page EXCEPT ![a].open = TRUE, ![a].editing = editing, ![a].form = content]
        \/ page' = [page EXCEPT ![a].form = content]
        \/ page' = [page EXCEPT ![a].open = FALSE]
  BY DEF OpenCreate, OpenEdit, Edit, Close
<1>4. \A b \in Admin : page'[b].views = page[b].views /\ page'[b].saving = page[b].saving
  BY <1>2, <1>3 DEF PageType
<1>5. /\ \A b \in Admin : ViewsWithin(page'[b].views, Bound) /\ page'[b].saving = page[b].saving
      /\ ViewsWithin(form'.views, Bound) /\ (form'.template # None => form'.template.version \in 1..Bound)
      /\ left' \in [Purse -> Int] /\ left'.saves = left.saves
  BY <1>1, <1>4 DEF CountInv, VersionsWithin, SavesCounted
<1> QED
  BY <1>1, <1>5, DrawnLater

\* The form is edited: a template is one of those it shows.
LEMMA FilledCount ==
  ASSUME CountInv, NEW f \in FormType, Fill(f), f.views = form.views,
         f.template \in form.views \cup {form.template, None}, TemplateInv'
  PROVE  CountInv'
<1>1. UNCHANGED <<scenario, rows, call, page>>
  BY DEF Fill
<1>2. left' \in [Purse -> Int] /\ left'.saves = left.saves
  BY SpendDoes DEF Fill, CountInv, SavesCounted, Purse
<1>3. form'.views = f.views /\ form'.template = f.template
  BY DEF Fill, Followed, FormType
<1>4. /\ ViewsWithin(form'.views, Bound) /\ (form'.template # None => form'.template.version \in 1..Bound)
      /\ \A a \in Admin : ViewsWithin(page'[a].views, Bound) /\ page'[a].saving = page[a].saving
  BY <1>1, <1>3 DEF CountInv, VersionsWithin, ViewsWithin
<1> QED
  BY <1>1, <1>2, <1>4, DrawnLater

LEMMA TypedCount ==
  ASSUME CountInv, TypeName \/ TypeSam \/ TypeUpn \/ ToggleGroup, TemplateInv'
  PROVE  CountInv'
<1>1. form \in FormType
  BY PartsOk DEF CountInv
<1>2. PICK given, sam, groups, f :
        /\ given \in Name \cup {None} /\ sam \in {Typed, None} /\ groups \in SUBSET Group /\ Fill(f)
        /\ \/ f = [form EXCEPT !.given = given]
           \/ f = [form EXCEPT !.sam = sam, !.manual = @ \cup {"sam"}]
           \/ f = [form EXCEPT !.upn = Typed, !.manual = @ \cup {"upn"}]
           \/ f = [form EXCEPT !.groups = groups]
  <2>1. CASE TypeName
    BY <2>1 DEF TypeName
  <2>2. CASE TypeSam
    BY <2>2 DEF TypeSam
  <2>3. CASE TypeUpn
    BY <2>3 DEF TypeUpn
  <2>4. CASE ToggleGroup
    <3>1. PICK g \in Group : Fill([form EXCEPT !.groups = IF g \in @ THEN @ \ {g} ELSE @ \cup {g}])
      BY <2>4 DEF ToggleGroup
    <3>2. PICK groups : groups = IF g \in form.groups THEN form.groups \ {g} ELSE form.groups \cup {g}
      OBVIOUS
    <3>3. groups \in SUBSET Group
      BY <1>1, <3>2 DEF FormType
    <3>4. Fill([form EXCEPT !.groups = groups])
      BY <3>1, <3>2
    <3> QED
      BY <3>3, <3>4
  <2> QED
    BY <2>1, <2>2, <2>3, <2>4
<1>3. f \in FormType /\ f.views = form.views /\ f.template = form.template
  BY <1>1, <1>2 DEF FormType
<1> QED
  BY <1>2, <1>3, FilledCount

\* A slot that is free, and who saves when a call that kept a button at rest ends.
LEMMA IdleWithin ==
  ASSUME CountInv
  PROVE  Plain(Idle) /\ ~IsWriting(Idle) /\ CallWithin(Idle, Bound) /\ \A a \in Admin : ~Saves(Idle, a)
<1>1. Idle.stage = "idle" /\ Idle.by = None /\ Idle.kind = None /\ Idle.base = 0 /\ Idle.read = {} /\ Idle.answer = {}
  BY DEF Idle
<1>2. CallWithin(Idle, Bound)
  BY <1>1, EmptyWithin
<1> QED
  BY <1>1, <1>2, TemplatesAssumption DEF Plain, IsWriting, Saves

LEMMA SavingEnds ==
  ASSUME CountInv, NEW c \in Slot, Put(c, Idle), call[c].kind # "list",
         \A b \in Admin : page'[b].saving = IF b = call[c].by THEN FALSE ELSE page[b].saving
  PROVE  SavingOk'
<1>1. \A d \in Slot : call'[d] = IF d = c THEN Idle ELSE call[d]
  BY PartsOk DEF CountInv, Put
<1>2. \A b \in Admin : ~Saves(Idle, b)
  BY IdleWithin
<1>3. ASSUME NEW b \in Admin
      PROVE  /\ page'[b].saving <=> \E d \in Slot : Saves(call'[d], b)
             /\ \A d, e \in Slot : Saves(call'[d], b) /\ Saves(call'[e], b) => d = e
  <2>1. CASE b = call[c].by
    <3>1. Saves(call[c], b)
      BY <2>1 DEF Saves
    <3>2. \A d \in Slot : Saves(call[d], b) => d = c
      BY <3>1 DEF CountInv, SavingOk
    <3>3. \A d \in Slot : ~Saves(call'[d], b)
      BY <1>1, <1>2, <3>2
    <3> QED
      BY <2>1, <3>3
  <2>2. CASE b # call[c].by
    <3>1. ~Saves(call[c], b)
      BY <2>2 DEF Saves
    <3>2. \A d \in Slot : Saves(call'[d], b) <=> Saves(call[d], b)
      BY <1>1, <1>2, <3>1
    <3> QED
      BY <2>2, <3>2 DEF CountInv, SavingOk
  <2> QED
    BY <2>1, <2>2
<1> QED
  BY <1>3 DEF SavingOk, Saves

LEMMA SelectTemplateCount ==
  ASSUME CountInv, SelectTemplate, TemplateInv'
  PROVE  CountInv'
<1>1. form \in FormType /\ FormOk(form) /\ form.sam \in Name \cup {Typed, None}
  BY PartsOk DEF CountInv, FormType
<1>2. PICK template \in form.views \cup {None} : Fill(TemplateApplied(form, template))
  BY DEF SelectTemplate
<1>3. PICK groups, upn :
        /\ groups = IF template = None THEN {} ELSE template.content.groups
        /\ upn = IF form.sam = None THEN form.upn ELSE Suggested(form.sam, template)
  OBVIOUS
<1>4. template \in ViewType \cup {None}
  BY <1>1, <1>2 DEF FormType
<1>5. groups \in SUBSET Group
  BY <1>3, <1>4 DEF ViewType, Content
<1>6. upn \in UPN \cup {Typed, None}
  <2>1. Suggested(form.sam, template) \in UPN \cup {None} /\ form.upn \in UPN \cup {Typed, None}
    BY <1>1, <1>4, SuggestedType DEF FormType
  <2> QED
    BY <1>3, <2>1
<1>7. PICK f : f = [form EXCEPT !.template = template, !.groups = groups, !.upn = upn, !.manual = @ \ {"upn"}]
  OBVIOUS
<1>8. f \in FormType /\ f.views = form.views /\ f.template = template
  BY <1>1, <1>4, <1>5, <1>6, <1>7 DEF FormType
<1>9. f = TemplateApplied(form, template)
  BY <1>3, <1>7 DEF TemplateApplied
<1> QED
  BY <1>2, <1>8, <1>9, FilledCount

\* A save that was answered asks for the templates, on its own page's behalf.
LEMMA SaveAnsweredCount ==
  ASSUME CountInv, NEW c \in Slot, SaveAnswered(c), TemplateInv'
  PROVE  CountInv'
<1> DEFINE a == call[c].by
<1>1. /\ call[c].kind \in {"create", "update"} /\ call[c].stage \in {"done", "failed"} /\ a \in Admin \cup {Form, None}
      /\ UNCHANGED <<scenario, rows, form, left>> /\ page \in [Admin -> PageType] /\ call \in [Slot -> CallType]
  BY CountIn, PartsOk DEF SaveAnswered, CallType
<1>2. left' \in [Purse -> Int] /\ left'.saves = left.saves
  BY <1>1 DEF CountInv, SavesCounted
<1>3. CASE call[c].stage = "done"
  <2>1. page' = [page EXCEPT ![a].open = FALSE]
    BY <1>3 DEF SaveAnswered
  <2>2. PICK k : Put(c, k) /\ k = Requested("reload", a, None, Empty)
    BY <1>3 DEF SaveAnswered
  <2>3. k.kind = "reload" /\ k.by = a /\ k.stage = "sent" /\ k.base = 0 /\ k.read = {} /\ k.answer = {}
    BY <2>2, RequestedDoes
  <2>4. \A b \in Admin : page'[b].saving = page[b].saving /\ page'[b].views = page[b].views
    BY <1>1, <2>1 DEF PageType
  <2>5. SavingOk'
    <3>1. \A b \in Admin : Saves(k, b) <=> Saves(call[c], b)
      BY <1>1, <2>3 DEF Saves
    <3> QED
      BY <2>2, <2>4, <3>1, SavingKept
  <2>6. Plain(k) /\ ~IsWriting(k) /\ CallWithin(k, Bound) /\ Unseen
    BY <1>1, <2>3, <2>4, EmptyWithin DEF Plain, IsWriting, Unseen
  <2> QED
    BY <1>1, <1>2, <2>2, <2>5, <2>6, UnseenWithin, CountLater
<1>4. CASE call[c].stage = "failed"
  <2>1. page' = [page EXCEPT ![a].saving = FALSE] /\ Put(c, Idle)
    BY <1>4 DEF SaveAnswered
  <2>2. \A b \in Admin : page'[b].views = page[b].views /\ page'[b].saving = IF b = a THEN FALSE ELSE page[b].saving
    BY <1>1, <2>1 DEF PageType
  <2>3. SavingOk'
    BY <1>1, <2>1, <2>2, SavingEnds
  <2>4. Plain(Idle) /\ ~IsWriting(Idle) /\ CallWithin(Idle, Bound) /\ Unseen
    BY <1>1, <2>2, IdleWithin DEF Unseen
  <2> QED
    BY <1>1, <1>2, <2>1, <2>3, <2>4, UnseenWithin, CountLater
<1> QED
  BY <1>1, <1>3, <1>4

LEMMA ListAnsweredCount ==
  ASSUME CountInv, NEW c \in Slot, ListAnswered(c), TemplateInv'
  PROVE  CountInv'
<1> DEFINE a == call[c].by
           views == call[c].answer
<1>1. /\ call[c].kind \in {"list", "reload"} /\ a \in Admin \cup {Form, None} /\ Put(c, Idle)
      /\ UNCHANGED <<scenario, rows, left>> /\ page \in [Admin -> PageType] /\ form \in FormType
  BY CountIn, PartsOk DEF ListAnswered, CallType
<1> PICK saving \in BOOLEAN : saving = (page[a].saving /\ call[c].kind = "list")
  OBVIOUS
<1>2. left' \in [Purse -> Int] /\ left'.saves = left.saves /\ ViewsWithin(views, Bound)
  BY <1>1, CountIn DEF CallWithin
<1>3. Plain(Idle) /\ ~IsWriting(Idle) /\ CallWithin(Idle, Bound)
  BY IdleWithin
<1>4. /\ \A b \in Admin : /\ page'[b].views \in {views, page[b].views}
                          /\ page'[b].saving = IF b = a THEN saving ELSE page[b].saving
      /\ form'.views \in {views, form.views} /\ form'.template = form.template
  <2>1. CASE a = Form
    <3>1. form' = [form EXCEPT !.views = views] /\ page' = page
      BY <2>1 DEF ListAnswered
    <3>2. \A b \in Admin : b # a
      BY <2>1, TemplatesAssumption
    <3> QED
      BY <1>1, <3>1, <3>2 DEF FormType
  <2>2. CASE a # Form
    <3>1. page' = [page EXCEPT ![a].views = views, ![a].saving = @ /\ call[c].kind = "list"]
      BY <2>2 DEF ListAnswered
    <3>2. form' = form
      BY <2>2 DEF ListAnswered
    <3>3. a \in Admin => page' = [page EXCEPT ![a] = [page[a] EXCEPT !.views = views, !.saving = saving]]
      BY <1>1, <3>1 DEF PageType
    <3>4. a \notin Admin => page' = page
      BY <1>1, <3>1
    <3>5. CASE a \in Admin
      <4>1. PICK p : page' = [page EXCEPT ![a] = p] /\ p = [page[a] EXCEPT !.views = views, !.saving = saving]
        BY <3>3, <3>5
      <4>2. p.views = views /\ p.saving = saving
        BY <1>1, <3>5, <4>1 DEF PageType
      <4>3. \A b \in Admin : page'[b] = IF b = a THEN p ELSE page[b]
        BY <1>1, <4>1
      <4>4. \A b \in Admin : b # a => page'[b] = page[b]
        BY <4>3
      <4>5. \A b \in Admin : b = a => page'[b].views = views /\ page'[b].saving = saving
        BY <4>2, <4>3
      <4> QED
        BY <3>2, <4>4, <4>5
    <3>6. CASE a \notin Admin
      <4>1. \A b \in Admin : b # a /\ page'[b] = page[b]
        BY <3>4, <3>6
      <4> QED
        BY <3>2, <4>1
    <3> QED
      BY <3>5, <3>6
  <2> QED
    BY <2>1, <2>2
<1>5. SavingOk'
  <2>1. CASE call[c].kind = "list"
    <3>1. \A b \in Admin : Saves(Idle, b) <=> Saves(call[c], b)
      BY <2>1, IdleWithin DEF Saves
    <3>2. a \in Admin => saving = page[a].saving
      <4>1. a \in Admin => page[a].saving \in BOOLEAN
        BY <1>1 DEF PageType
      <4>2. a \in Admin => (saving <=> page[a].saving)
        BY <2>1
      <4> QED
        BY <4>1, <4>2
    <3>3. \A b \in Admin : page'[b].saving = page[b].saving
      BY <1>4, <3>2
    <3> QED
      BY <1>1, <3>1, <3>3, SavingKept
  <2>2. CASE call[c].kind = "reload"
    <3>1. \A b \in Admin : page'[b].saving = IF b = a THEN FALSE ELSE page[b].saving
      <4>1. saving = FALSE
        BY <2>2
      <4> QED
        BY <1>4, <4>1
    <3> QED
      BY <1>1, <2>2, <3>1, SavingEnds
  <2> QED
    BY <1>1, <2>1, <2>2
<1>6. /\ \A b \in Admin : ViewsWithin(page'[b].views, Bound)
      /\ ViewsWithin(form'.views, Bound) /\ (form'.template # None => form'.template.version \in 1..Bound)
  BY <1>2, <1>4, CountIn
<1> QED
  BY <1>1, <1>2, <1>3, <1>5, <1>6, CountLater

LEMMA SubmitAnsweredCount ==
  ASSUME CountInv, NEW c \in Slot, SubmitAnswered(c), TemplateInv'
  PROVE  CountInv'
<1>1. /\ call[c].by = Form /\ Put(c, Idle) /\ UNCHANGED <<scenario, rows, page, left>>
      /\ form' = [form EXCEPT !.submitting = FALSE] /\ form \in FormType
  BY CountIn, PartsOk DEF SubmitAnswered, At, Plain
<1>2. Plain(Idle) /\ ~IsWriting(Idle) /\ CallWithin(Idle, Bound) /\ \A b \in Admin : ~Saves(Idle, b)
  BY IdleWithin
<1>3. SavingOk'
  <2>1. \A b \in Admin : ~Saves(call[c], b)
    BY <1>1, TemplatesAssumption DEF Saves
  <2> QED
    BY <1>1, <1>2, <2>1, SavingKept
<1>4. Unseen
  BY <1>1 DEF Unseen, FormType
<1>5. left' \in [Purse -> Int] /\ left'.saves = left.saves
  BY <1>1, CountIn
<1> QED
  BY <1>1, <1>2, <1>3, <1>4, <1>5, UnseenWithin, CountLater

LEMMA CountInit == Init => CountInv
<1> SUFFICES ASSUME Init PROVE CountInv
  OBVIOUS
<1>1. TemplateInv
  BY TemplateInit
<1>2. scenario.saves \in Nat /\ scenario.lists \in Nat /\ scenario.fills \in Nat /\ scenario.faults \in Nat
  BY ScenariosAssumption DEF Init, TemplatesInit
<1>3. /\ left = [saves |-> scenario.saves, lists |-> scenario.lists, fills |-> scenario.fills, faults |-> scenario.faults]
      /\ call = [c \in Slot |-> Idle]
      /\ \A a \in Admin : page[a].views = {} /\ page[a].saving = FALSE
      /\ form.views = {} /\ form.template = None
  BY DEF Init, TemplatesInit
<1>4. left \in [Purse -> Int] /\ left.saves = scenario.saves
  BY <1>2, <1>3 DEF Purse
<1>5. Idle.stage = "idle" /\ Idle.by = None /\ Idle.kind = None /\ Idle.base = 0 /\ Idle.read = {} /\ Idle.answer = {}
  BY DEF Idle
<1>6. Writing = {}
  BY <1>3, <1>5 DEF Writing, IsWriting
<1>7. IsFiniteSet(Writing) /\ Cardinality(Writing) = 0
  BY <1>6, FS_EmptySet
<1>8. SavesCounted /\ Bound = 1
  BY <1>2, <1>4, <1>7 DEF SavesCounted, Bound
<1>9. VersionsWithin(1) /\ NamesDiffer
  <2>1. PICK row : row = [name |-> scenario.start.name, active |-> scenario.start.active,
                          suffix |-> scenario.start.suffix, version |-> 1]
    OBVIOUS
  <2>2. PICK id \in Template : rows = [t \in Template |-> IF t = id THEN row ELSE None]
    BY <2>1 DEF Init, TemplatesInit
  <2>3. row.version = 1 /\ \A t \in Template : rows[t] = IF t = id THEN row ELSE None
    BY <2>1, <2>2
  <2> QED
    BY <1>3, <1>5, <2>3 DEF VersionsWithin, CallWithin, ViewsWithin, NamesDiffer
<1>10. SavingOk /\ \A c \in Slot : Plain(call[c])
  <2>1. (\A c \in Slot : call[c] = Idle) /\ \A c \in Slot, a \in Admin : ~Saves(call[c], a)
    BY <1>3, <1>5, TemplatesAssumption DEF Saves
  <2>2. SavingOk
    BY <1>3, <2>1 DEF SavingOk
  <2>3. Plain(Idle)
    BY <1>5 DEF Plain
  <2> QED
    BY <2>1, <2>2, <2>3
<1>11. VersionsWithin(Bound)
  BY <1>8, <1>9
<1> QED
  BY <1>1, <1>8, <1>9, <1>10, <1>11 DEF CountInv

LEMMA CountNext == CountInv /\ [Next]_vars => CountInv'
<1> SUFFICES ASSUME CountInv, [Next]_vars
             PROVE  CountInv'
  OBVIOUS
<1>1. TemplateInv'
  BY TemplateNext DEF CountInv
<1>2. CASE UNCHANGED templateVars
  BY <1>1, <1>2, DrawnLater DEF templateVars, CountInv, SavesCounted, VersionsWithin
<1>3. CASE TemplatesNext
  <2>1. CASE \E c \in Slot :
               \/ ReadExisting(c) \/ CheckName(c) \/ Write(c) \/ ReadRows(c) \/ ReadGroups(c)
               \/ ResolveReference(c) \/ StoreRequest(c) \/ FailCall(c)
               \/ SaveAnswered(c) \/ ListAnswered(c) \/ SubmitAnswered(c)
    BY <1>1, <2>1, ReadExistingCount, CheckNameCount, WriteCount, ReadRowsCount, ReadGroupsCount, ResolveReferenceCount,
       StoreRequestCount, FailCallCount, SaveAnsweredCount, ListAnsweredCount, SubmitAnsweredCount
  <2>2. CASE \E a \in scenario.admins :
               Refresh(a) \/ OpenCreate(a) \/ OpenEdit(a) \/ Edit(a) \/ Save(a) \/ Close(a)
    <3>1. scenario.admins \subseteq Admin
      BY ScenariosAssumption DEF CountInv, TemplateInv, TemplatesShape
    <3>2. \A a \in Admin : Refresh(a) => CountInv'
      BY <1>1, ListCount DEF Refresh
    <3> QED
      BY <1>1, <2>2, <3>1, <3>2, DrawerCount, SaveCount
  <2>3. CASE OpenForm \/ TypeName \/ TypeSam \/ TypeUpn \/ ToggleGroup \/ SelectTemplate \/ Submit
    <3>1. OpenForm => CountInv'
      BY <1>1, ListCount DEF OpenForm
    <3> QED
      BY <1>1, <2>3, <3>1, TypedCount, SelectTemplateCount, SubmitCount
  <2> QED
    BY <1>3, <2>1, <2>2, <2>3 DEF TemplatesNext
<1> QED
  BY <1>2, <1>3 DEF Next, vars

\* However typing, searching, loading and choosing fall between each other on the
\* form, and the saves of administrators on the templates: the search that waits is
\* for the text that is there, without a target there is nothing to be changed
\* (useDirectoryTypeahead.ts, useAccountChangeEditor.ts, useGroupChangeEditor.ts);
\* no two templates have one name, no version is ever counted up without a save,
\* and a page's button rests exactly as long as a save of it, or the list that
\* follows it, is under way (user-creation-templates.service.ts, user-templates.vue).
THEOREM FormsTypeCorrect == Spec => []TypeOK
<1>1. ShapeInv /\ CountInv => TypeOK
  <2> SUFFICES ASSUME ShapeInv, CountInv PROVE TypeOK
    OBVIOUS
  <2>1. TemplatesTypeOK
    <3>1. \A v \in ViewType : v.version \in 1..Bound => ViewOk(v)
      BY BoundIn DEF ViewType, ViewOk
    <3>2. scenario \in Scenarios /\ rows \in [Template -> Row \cup {None}]
      BY DEF CountInv, TemplateInv, TemplatesShape
    <3>3. \A t \in Template : rows[t] # None =>
            /\ rows[t].version \in 1..(1 + scenario.saves) /\ rows[t].name \in Name
            /\ \A u \in Template \ {t} : rows[u] # None => rows[u].name # rows[t].name
      <4>1. \A t \in Template : rows[t] # None => rows[t].version \in 1..(1 + scenario.saves)
        BY BoundIn DEF CountInv, VersionsWithin
      <4>2. \A t \in Template : rows[t] # None => rows[t].name \in Name
        BY <3>2 DEF Row
      <4> QED
        BY <4>1, <4>2 DEF CountInv, NamesDiffer
    <3>4. \A c \in Slot :
            /\ call[c].stage \in {"idle", "sent", "based", "named", "written", "read", "resolved", "done", "failed"}
            /\ \A v \in call[c].answer : ViewOk(v)
      <4> SUFFICES ASSUME NEW c \in Slot
                   PROVE  /\ call[c].stage \in {"idle", "sent", "based", "named", "written", "read", "resolved", "done", "failed"}
                          /\ \A v \in call[c].answer : ViewOk(v)
        OBVIOUS
      <4>1. call[c] \in CallType /\ CallWithin(call[c], Bound)
        BY CountIn
      <4> QED
        BY <3>1, <4>1 DEF CallType, CallWithin, ViewsWithin
    <3>5. \A a \in Admin :
            /\ \A v \in page[a].views : ViewOk(v)
            /\ page[a].saving <=> \E c \in Slot : call[c].by = a /\ call[c].kind # "list"
      <4>1. \A a \in Admin : page[a].views \subseteq ViewType /\ ViewsWithin(page[a].views, Bound)
        BY PartsOk DEF CountInv, VersionsWithin, PageType
      <4>2. \A a \in Admin : \A v \in page[a].views : ViewOk(v)
        BY <3>1, <4>1 DEF ViewsWithin
      <4> QED
        BY <4>2 DEF CountInv, SavingOk, Saves
    <3>6. ViewOk(form.template) /\ form.manual \subseteq {"sam", "upn"}
      <4>1. form \in FormType /\ (form.template # None => form.template.version \in 1..Bound)
        BY PartsOk DEF CountInv, VersionsWithin
      <4> QED
        BY <3>1, <4>1 DEF FormType, ViewOk
    <3> QED
      BY <3>2, <3>3, <3>4, <3>5, <3>6 DEF TemplatesTypeOK
  <2>2. \A b \in Box :
          LET x == ui.box[b] IN
          /\ x.text \in Text /\ x.pending \in Text \cup {None} /\ x.results \subseteq Object \cup Other
          /\ x.option \in Object \cup Other \cup {None}
          /\ x.pending # None => x.pending = x.text
    BY ShapeIn DEF BoxType, Thing
  <2>3. /\ ui.approver \in Object \cup {None} /\ ui.username \in Object \cup {None}
        /\ ui.snapshot # None => ui.snapshot.of \in Object /\ ui.form.groups \subseteq Held \cup Other
        /\ ui.snapshot = None => ui.form = NoForm
    BY DEF ShapeInv, ShapeOk, PageInv, Agrees, UiType, Target
  <2> QED
    BY <2>1, <2>2, <2>3 DEF TypeOK
<1> QED
  BY <1>1, ShapeInit, ShapeNext, CountInit, CountNext, PTL DEF Spec
=============================================================================
