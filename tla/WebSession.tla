----------------------------- MODULE WebSession -----------------------------
(***************************************************************************)
(* The session of a browser tab (web/app: composables/useAuth.ts,          *)
(* composables/useApi.ts, middleware, pages/login.vue, layouts) against    *)
(* the API of UserSessions.                                                *)
(*                                                                         *)
(* A tab holds a token and the profile of a user, and mirrors both in the  *)
(* browser's storage, which all tabs share and a tab reads once, when it   *)
(* is opened.  Answers may arrive after the session that asked has ended   *)
(* or has been replaced.                                                   *)
(***************************************************************************)
EXTENDS UserSessions

VARIABLES
  tab,      \* the tabs: page, token, user, and whether the session was checked
  storage,  \* localStorage: token and user
  stale,    \* history: an answer was taken that was for another session
  superseded \* history: so was one to a check whose navigation was not awaited

webVars == <<tab, storage, stale, superseded>>
vars == <<apiVars, webVars>>

AppPage == {"requests", "settings"}
Page == AppPage \cup {"login", "opening", "closed"}

\* None is no page, no token and no profile.
ASSUME NoneAssumption ==
  None \notin Page \cup [sub : User, exp : Nat, wrote : Nat] \cup [id : User, roles : SUBSET Role]

Closed == [page |-> "closed", token |-> None, user |-> None, resolved |-> FALSE]

TokenOk(token) ==
  token = None \/ (token.sub \in User /\ token.exp \in 0..(scenario.horizon + Ttl) /\ token.wrote \in 0..scenario.horizon)
UserOk(user) == user = None \/ (user.id \in User /\ user.roles \subseteq Role)

TypeOK ==
  /\ scenario \in Scenarios
  /\ now \in 0..scenario.horizon /\ changes \in 0..scenario.changes /\ faults \in 0..scenario.faults
  /\ member \in [Person -> SUBSET Mapped]
  /\ \A u \in User : users[u].roles \subseteq Role /\ users[u].since <= users[u].at
  /\ \A c \in Call :
       LET k == call[c] IN
       /\ k.tab \in Tab \cup {None} /\ k.user \in User \cup {None} /\ TokenOk(k.token)
       /\ k.stage \in {"idle", "sent", "resolving", "resolved", "written", "answered"}
       /\ TokenOk(k.answer.token) /\ UserOk(k.answer.user)
       \* A user that a token names has rows, so nobody is served without a role.
       /\ k.answer.user # None => k.answer.user.roles # {}
  /\ \A t \in Tab : tab[t].page \in Page /\ TokenOk(tab[t].token) /\ UserOk(tab[t].user)
  /\ TokenOk(storage.token) /\ UserOk(storage.user)

Init ==
  /\ ApiInit
  /\ tab = [t \in Tab |-> Closed]
  /\ storage = [token |-> None, user |-> None]
  /\ stale = FALSE /\ superseded = FALSE

----------------------------------------------------------------------------
(* What a tab does with its session.                                        *)

\* logout.
LoggedOut(s) == [s EXCEPT !.token = None, !.user = None, !.resolved = FALSE]
Emptied == [token |-> None, user |-> None]

\* Mutant: the profile of the session before is kept.
SignedInKeepingUser(s, answer) ==
  [s EXCEPT !.token = answer.token, !.user = IF @ = None THEN answer.user ELSE @, !.resolved = TRUE]

\* setSession.
SignedIn(s, answer) == [s EXCEPT !.token = answer.token, !.user = answer.user, !.resolved = TRUE]

\* Mutant: the session is not asked about a route's roles.
EnteredAnyway(s, page) == IF s.token = None \/ s.user = None THEN "login" ELSE page

\* canAccessRoute, for the pages of this model.
CanAccess(roles, page) == page = "settings" => "administrator" \in roles

\* The end of the middleware auth, and the middleware access.
Entered(s, page) ==
  IF s.token = None \/ s.user = None THEN "login"
  ELSE IF CanAccess(s.user.roles, page) THEN page ELSE "requests"

\* ensureSession answers without a call.
Known(s) == s.token = None \/ (s.resolved /\ s.user # None)

Free == {c \in scenario.calls : ~InFlight(c)}

\* The calls of a tab that still carry a navigation, without it: a newer one
\* takes its place.
Superseded(t) ==
  [c \in Call |-> IF call[c].tab = t /\ call[c].goal \in AppPage THEN [call[c] EXCEPT !.goal = None] ELSE call[c]]

\* The tab leaves its page, or asks first whether its session is good.
Navigated(t, s, page, calls) ==
  IF Known(s)
  THEN tab' = [tab EXCEPT ![t] = [s EXCEPT !.page = Entered(s, page)]] /\ call' = calls
  ELSE /\ tab' = [tab EXCEPT ![t] = s]
       /\ \E c \in {d \in scenario.calls : calls[d].stage = "idle"} :
            call' = [calls EXCEPT ![c] = Requested("me", t, None, s.token, page, None)]

\* What is left of a tab's calls when it is closed: a login goes on in the API.
Abandoned(t) ==
  [c \in Call |-> CASE call[c].tab # t -> call[c]
                    [] call[c].tab = t /\ call[c].kind = "login" /\ call[c].stage # "answered" -> [call[c] EXCEPT !.tab = None]
                    [] OTHER -> Idle]

\* A tab is opened, or reloaded, on a page of the application.
Open(t) ==
  /\ t \in scenario.tabs
  /\ tab[t].page = "closed" \/ scenario.reloads
  /\ \E page \in AppPage :
       Navigated(t, [Closed EXCEPT !.page = "opening", !.token = storage.token, !.user = storage.user], page, Abandoned(t))
  /\ UNCHANGED <<scenario, now, member, changes, held, users, faults, storage, stale, superseded>>

\* ...or on the page for signing in, which looks for a session that is good.
OpenLogin(t) ==
  LET s == [Closed EXCEPT !.page = "login", !.token = storage.token, !.user = storage.user] IN
  /\ t \in scenario.tabs
  /\ tab[t].page = "closed" \/ scenario.reloads
  /\ tab' = [tab EXCEPT ![t] = s]
  /\ IF s.token = None THEN call' = Abandoned(t)
     ELSE \E c \in Free :
            call' = [Abandoned(t) EXCEPT ![c] = Requested("me", t, None, s.token, "login", None)]
  /\ UNCHANGED <<scenario, now, member, changes, held, users, faults, storage, stale, superseded>>

\* A link is followed.
Navigate(t) ==
  /\ tab[t].page \in AppPage
  /\ \E page \in AppPage \ {tab[t].page} : Navigated(t, tab[t], page, Superseded(t))
  /\ UNCHANGED <<scenario, now, member, changes, held, users, faults, storage, stale, superseded>>

SignIn(t) ==
  /\ tab[t].page = "login"
  /\ \E c \in Free, u \in scenario.who : Put(c, Requested("login", t, u, None, None, None))
  /\ UNCHANGED <<scenario, now, member, changes, held, users, faults, webVars>>

\* A page calls the API; the page for administrators needs their role.
Ask(t) ==
  /\ tab[t].page \in AppPage
  /\ \E c \in Free :
       Put(c, Requested("api", t, None, tab[t].token, None, IF tab[t].page = "settings" THEN "administrator" ELSE None))
  /\ UNCHANGED <<scenario, now, member, changes, held, users, faults, webVars>>

\* As history: the calls that are in flight when the browser's session changes.
Outdated(calls) ==
  [c \in Call |-> IF calls[c].stage = "idle" THEN calls[c] ELSE [calls[c] EXCEPT !.late = TRUE]]

SignOut(t) ==
  /\ tab[t].page \in AppPage
  /\ tab' = [tab EXCEPT ![t] = [LoggedOut(tab[t]) EXCEPT !.page = "login"]]
  /\ storage' = Emptied
  /\ call' = Outdated(Superseded(t))
  /\ UNCHANGED <<scenario, now, member, changes, held, users, faults, stale, superseded>>

----------------------------------------------------------------------------
(* Answers.                                                                 *)

Arrived(c, kind) == call[c].stage = "answered" /\ call[c].kind = kind
Without(c) == [call EXCEPT ![c] = Idle]

\* An answer on behalf of another session than the tab's or the storage's.
Stale(c) == call[c].late \/ call[c].token # tab[call[c].tab].token \/ call[c].token # storage.token

\* login, and on to the requests.
LoginAnswered(c) ==
  LET t == call[c].tab
      answer == call[c].answer
  IN
  /\ Arrived(c, "login")
  /\ IF answer.status = 200
     THEN /\ tab' = [tab EXCEPT ![t] = [SignedIn(tab[t], answer) EXCEPT !.page = "requests"]]
          /\ storage' = [token |-> answer.token, user |-> answer.user]
          /\ call' = Outdated(Without(c))
     ELSE UNCHANGED <<tab, storage>> /\ call' = Without(c)
  /\ UNCHANGED <<scenario, now, member, changes, held, users, faults, stale, superseded>>

\* The end of ensureSession.  Only a good answer changes anything: request()
\* has rewrapped any other by the time that ensureSession looks for a 401 in it,
\* so that the caller meets a failure, and goes on with the profile at hand.
Checked(s, answer) ==
  IF answer.status = 200 THEN [s EXCEPT !.user = answer.user, !.resolved = TRUE] ELSE s

\* ensureSession, and what its caller does next: the middleware completes its
\* navigation, with the profile at hand after a failure; the page for signing in
\* goes to the requests, but not after a failure.
MeAnswered(c) ==
  LET t == call[c].tab
      answer == call[c].answer
      good == answer.status = 200
      s == Checked(tab[t], answer)
      page == CASE call[c].goal \in AppPage -> Entered(s, call[c].goal)
                [] call[c].goal = "login" /\ good -> Entered(s, "requests")
                [] OTHER -> s.page
  IN
  /\ Arrived(c, "me")
  /\ tab' = [tab EXCEPT ![t] = [s EXCEPT !.page = page]]
  /\ storage' = IF good THEN [storage EXCEPT !.user = answer.user] ELSE storage
  /\ stale' = (stale \/ (good /\ Stale(c)))
  /\ superseded' = (superseded \/ (good /\ call[c].goal = None))
  /\ call' = Without(c)
  /\ UNCHANGED <<scenario, now, member, changes, held, users, faults>>

\* useApi: without a session, back to signing in.
ApiAnswered(c) ==
  LET t == call[c].tab IN
  /\ Arrived(c, "api")
  /\ IF call[c].answer.status = 401
     THEN /\ tab' = [tab EXCEPT ![t] = [LoggedOut(tab[t]) EXCEPT !.page = "login"]]
          /\ storage' = Emptied
          /\ stale' = (stale \/ Stale(c)) /\ UNCHANGED superseded
          /\ call' = Outdated([Superseded(t) EXCEPT ![c] = Idle])
     ELSE UNCHANGED webVars /\ call' = Without(c)
  /\ UNCHANGED <<scenario, now, member, changes, held, users, faults>>

Next ==
  \/ ApiNext /\ UNCHANGED webVars
  \/ \E t \in scenario.tabs : Open(t) \/ OpenLogin(t) \/ Navigate(t) \/ SignIn(t) \/ Ask(t) \/ SignOut(t)
  \/ \E c \in scenario.calls : LoginAnswered(c) \/ MeAnswered(c) \/ ApiAnswered(c)

Spec == Init /\ [][Next]_vars

----------------------------------------------------------------------------
\* Whose token it is, that user is shown, in a tab and in the storage, unless an
\* answer for one session was taken in another: reloads, other tabs and failing
\* calls do not mix two users.
SessionIsOneUsers ==
  ~stale =>
    /\ \A t \in Tab : tab[t].token # None /\ tab[t].user # None => tab[t].user.id = tab[t].token.sub
    /\ storage.token = None <=> storage.user = None
    /\ storage.token # None => storage.user.id = storage.token.sub

\* Leaving: the tab waits for the check that ends in another page.
Leaving(t) == \E c \in Call : call[c].tab = t /\ call[c].goal \in AppPage

\* A page of the application is shown with a session, unless an answer for
\* another one was taken; and the page for administrators to those whom the tab
\* takes for one, unless the tab is leaving it or the answer to a check was taken
\* that no navigation waited for any more: whatever order checks, answers and
\* navigations come in.
PageSuitsUser ==
  ~stale =>
    \A t \in Tab :
      tab[t].page \in AppPage =>
        /\ tab[t].token # None /\ tab[t].user # None
        /\ tab[t].page = "settings" =>
             Leaving(t) \/ superseded \/ CanAccess(tab[t].user.roles, "settings")
=============================================================================
