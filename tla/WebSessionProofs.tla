-------------------------- MODULE WebSessionProofs --------------------------
(***************************************************************************)
(* Theorems about UserSessions and WebSession, for any directory, any      *)
(* number of tabs, calls, failing calls and changing groups, and any life  *)
(* of tokens.                                                              *)
(*                                                                         *)
(* The invariant says of every call in flight, and of every token wherever *)
(* it is kept, what makes the roles it is served with its account's own.   *)
(* Its parts take the rows, the memberships and the time as parameters, so *)
(* that what a step leaves alone follows from one fact: rows get newer,    *)
(* memberships are remembered, and time goes on (Later).                   *)
(***************************************************************************)
EXTENDS WebSession, TLAPS

Token == [sub : User, exp : Nat, wrote : Nat]
View == [id : User, roles : SUBSET Role]
Row == [roles : SUBSET Role, since : Nat, at : Nat]
Kind == {"login", "name", "me", "api", None}
Stage == {"idle", "sent", "resolving", "resolved", "written", "answered"}

CallType ==
  [kind : Kind, tab : Tab \cup {None}, user : User \cup {None}, token : Token \cup {None},
   goal : AppPage \cup {"login", None}, needs : Role \cup {None}, stage : Stage, asked : Nat,
   roles : SUBSET Role, since : Nat, at : Nat, rows : Nat, late : BOOLEAN,
   answer : [status : Nat, token : Token \cup {None}, user : View \cup {None}]]
TabType == [page : Page, token : Token \cup {None}, user : View \cup {None}, resolved : BOOLEAN]

\* The account held each of these roles at some time from since to at.
Backed(u, roles, since, at, h) ==
  u \in Person => \A r \in roles \ {"requester"} : \E t \in since..at : <<r, t>> \in h[u]

\* A token is a user's who has rows, which are not older than its login.
TokenIn(token, us, n) ==
  token = None \/ (/\ token \in Token
                   /\ token.exp <= n + Ttl
                   /\ token.wrote <= us[token.sub].at
                   /\ us[token.sub].roles # {})

\* RolesEndWithTheToken for one call.
ServedWell(k, h) ==
  k.stage = "answered" /\ k.kind \in {"me", "api"} /\ k.answer.status = 200 =>
    /\ k.at < k.token.exp /\ k.rows >= k.token.wrote
    /\ Backed(k.token.sub, k.roles, k.since, k.at, h)

\* What is known of a call at each stage of a login.
Resolves(k, us, h, n) ==
  /\ k.stage = "sent" /\ k.kind \in {"login", "name"} => k.user \in User
  /\ k.stage = "resolving" => k.user \in Person
  /\ k.stage \in {"resolving", "resolved"} =>
       /\ k.kind \in {"login", "name"} /\ k.user \in User
       /\ k.since <= n /\ k.roles # {}
       /\ Backed(k.user, k.roles, k.since, n, h)
  /\ k.stage = "written" =>
       /\ k.kind = "login" /\ k.user \in User
       /\ k.at <= us[k.user].at /\ us[k.user].roles # {}

CallOk(k, us, h, n) ==
  /\ k \in CallType
  /\ TokenIn(k.token, us, n)
  /\ TokenIn(k.answer.token, us, n)
  /\ k.answer.user # None => k.answer.user.roles # {}
  /\ Resolves(k, us, h, n)
  /\ ServedWell(k, h)

CallsOk(calls, us, h, n) ==
  /\ calls \in [Call -> CallType]
  /\ \A c \in Call : CallOk(calls[c], us, h, n)

RowsOk(us, h, n) ==
  /\ us \in [User -> Row]
  /\ \A u \in User : /\ us[u].since <= us[u].at /\ us[u].at <= n
                     /\ Backed(u, us[u].roles, us[u].since, us[u].at, h)

\* Rows get newer, and are not lost; memberships are remembered; time goes on.
Later(us, h, n, us2, h2, n2) ==
  /\ n \in Nat /\ n2 \in Nat /\ n <= n2
  /\ us \in [User -> Row] /\ us2 \in [User -> Row]
  /\ \A u \in User : us[u].at <= us2[u].at /\ (us[u].roles # {} => us2[u].roles # {})
  /\ \A p \in Person : h[p] \subseteq h2[p]

Clocks ==
  /\ scenario \in Scenarios
  /\ now \in 0..scenario.horizon /\ changes \in 0..scenario.changes /\ faults \in 0..scenario.faults
Directory ==
  /\ member \in [Person -> SUBSET Mapped]
  /\ \A p \in Person : \A r \in member[p] : <<r, now>> \in held[p]
Tabs ==
  /\ tab \in [Tab -> TabType]
  /\ \A t \in Tab : TokenIn(tab[t].token, users, now)
  /\ storage \in [token : Token \cup {None}, user : View \cup {None}]
  /\ TokenIn(storage.token, users, now)

IInv ==
  /\ Clocks
  /\ Directory
  /\ RowsOk(users, held, now)
  /\ CallsOk(call, users, held, now)
  /\ Tabs

----------------------------------------------------------------------------
(* Lemmas about one call.                                                   *)

LEMMA ClocksAreNumbers ==
  ASSUME Clocks
  PROVE  /\ scenario.horizon \in Nat /\ scenario.changes \in Nat /\ scenario.faults \in Nat
         /\ now \in Nat
         /\ scenario.calls \subseteq Call /\ scenario.tabs \subseteq Tab
         /\ scenario.who \subseteq User /\ scenario.named \subseteq User
BY ScenariosAssumption DEF Clocks

\* A role once held in time stays so.
LEMMA BackedLater ==
  ASSUME NEW u, NEW roles, NEW since \in Nat, NEW at \in Nat, NEW at2 \in Nat, NEW h, NEW h2,
         Backed(u, roles, since, at, h), at <= at2,
         \A p \in Person : h[p] \subseteq h2[p]
  PROVE  Backed(u, roles, since, at2, h2)
BY DEF Backed

LEMMA TokenLater ==
  ASSUME NEW token, NEW us, NEW h, NEW n, NEW us2, NEW h2, NEW n2,
         TokenIn(token, us, n), Later(us, h, n, us2, h2, n2)
  PROVE  TokenIn(token, us2, n2)
BY SessionAssumption DEF TokenIn, Later, Token, Row

LEMMA CallLater ==
  ASSUME NEW k, NEW us, NEW h, NEW n, NEW us2, NEW h2, NEW n2,
         CallOk(k, us, h, n), Later(us, h, n, us2, h2, n2)
  PROVE  CallOk(k, us2, h2, n2)
<1>1. TokenIn(k.token, us2, n2) /\ TokenIn(k.answer.token, us2, n2)
  BY TokenLater DEF CallOk
<1>2. Resolves(k, us2, h2, n2)
  <2>1. ASSUME k.stage \in {"resolving", "resolved"}
        PROVE  Backed(k.user, k.roles, k.since, n2, h2)
    BY <2>1, BackedLater DEF CallOk, Resolves, CallType, Later
  <2> QED BY <2>1 DEF CallOk, Resolves, CallType, Later, Row
<1>3. ServedWell(k, h2)
  <2>1. k.since \in Nat /\ k.at \in Nat BY DEF CallOk, CallType
  <2> QED BY <2>1, BackedLater DEF CallOk, ServedWell, Later
<1> QED BY <1>1, <1>2, <1>3 DEF CallOk

LEMMA CallsLater ==
  ASSUME NEW calls, NEW us, NEW h, NEW n, NEW us2, NEW h2, NEW n2,
         CallsOk(calls, us, h, n), Later(us, h, n, us2, h2, n2)
  PROVE  CallsOk(calls, us2, h2, n2)
BY CallLater DEF CallsOk

LEMMA IdleOk == ASSUME NEW us, NEW h, NEW n PROVE CallOk(Idle, us, h, n)
<1>1. Idle \in CallType BY DEF Idle, NoAnswer, CallType, Kind, Stage
<1> QED BY <1>1 DEF CallOk, Idle, NoAnswer, TokenIn, Resolves, ServedWell

LEMMA RequestedOk ==
  ASSUME NEW us, NEW h, NEW n,
         NEW kind \in {"login", "name", "me", "api"}, NEW t \in Tab \cup {None},
         NEW u \in User \cup {None}, kind \in {"login", "name"} => u \in User,
         NEW token \in Token \cup {None}, TokenIn(token, us, n),
         NEW goal \in AppPage \cup {"login", None}, NEW needs \in Role \cup {None}
  PROVE  CallOk(Requested(kind, t, u, token, goal, needs), us, h, n)
<1> DEFINE k == Requested(kind, t, u, token, goal, needs)
<1>1. k \in CallType BY DEF Requested, Idle, NoAnswer, CallType, Kind, Stage
<1>2. /\ k.kind = kind /\ k.user = u /\ k.token = token /\ k.stage = "sent"
      /\ k.answer = NoAnswer
  BY DEF Requested, Idle
<1> QED BY <1>1, <1>2 DEF CallOk, NoAnswer, TokenIn, Resolves, ServedWell

\* What a tab does to its calls: none of it concerns their roles.
LEMMA RelabelledOk ==
  ASSUME NEW k, NEW us, NEW h, NEW n, CallOk(k, us, h, n)
  PROVE  /\ CallOk([k EXCEPT !.late = TRUE], us, h, n)
         /\ CallOk([k EXCEPT !.goal = None], us, h, n)
         /\ CallOk([k EXCEPT !.tab = None], us, h, n)
<1>1. k \in CallType BY DEF CallOk
<1>2. /\ [k EXCEPT !.late = TRUE] \in CallType
      /\ [k EXCEPT !.goal = None] \in CallType
      /\ [k EXCEPT !.tab = None] \in CallType
  BY <1>1 DEF CallType
<1>3. ASSUME NEW j \in CallType,
             /\ j.kind = k.kind /\ j.user = k.user /\ j.token = k.token /\ j.stage = k.stage
             /\ j.roles = k.roles /\ j.since = k.since /\ j.at = k.at /\ j.rows = k.rows /\ j.answer = k.answer
      PROVE  CallOk(j, us, h, n)
  BY <1>3 DEF CallOk, Resolves, ServedWell
<1> QED BY <1>1, <1>2, <1>3 DEF CallType

LEMMA AnsweredType ==
  ASSUME NEW k \in CallType, NEW s \in Nat, NEW token \in Token \cup {None}, NEW view \in View \cup {None}
  PROVE  /\ Answered(k, s, token, view) \in CallType
         /\ Answered(k, s, token, view).stage = "answered"
         /\ Answered(k, s, token, view).answer = [status |-> s, token |-> token, user |-> view]
         /\ \A f \in {"kind", "user", "token", "roles", "since", "at", "rows"} : Answered(k, s, token, view)[f] = k[f]
<1> DEFINE answer == [status |-> s, token |-> token, user |-> view]
<1>1. answer \in [status : Nat, token : Token \cup {None}, user : View \cup {None}]
  OBVIOUS
<1>2. Answered(k, s, token, view) = [k EXCEPT !.stage = "answered", !.answer = answer]
  BY DEF Answered
<1> HIDE DEF answer
<1>3. [k EXCEPT !.stage = "answered", !.answer = answer] \in CallType
  BY <1>1 DEF CallType, Stage
<1> QED BY <1>1, <1>2, <1>3 DEF CallType, answer

\* A call that is turned down.
LEMMA RefusedOk ==
  ASSUME NEW k, NEW us, NEW h, NEW n, CallOk(k, us, h, n), NEW s \in Nat, s # 200
  PROVE  CallOk(Answered(k, s, None, None), us, h, n)
<1> DEFINE a == Answered(k, s, None, None)
<1>1. a \in CallType BY DEF CallOk, CallType, Answered, Stage
<1>2. /\ a.stage = "answered" /\ a.token = k.token /\ a.answer.status = s
      /\ a.answer.token = None /\ a.answer.user = None
  BY DEF CallOk, CallType, Answered
<1> QED BY <1>1, <1>2 DEF CallOk, TokenIn, Resolves, ServedWell

\* ...or answered, when somebody waits.
LEMMA AnswerOk ==
  ASSUME NEW us, NEW h, NEW n, NEW c \in Call, CallsOk(call, us, h, n),
         NEW s \in Nat, NEW token, NEW view, Answer(c, s, token, view),
         CallOk(Answered(call[c], s, token, view), us, h, n)
  PROVE  CallsOk(call', us, h, n)
BY IdleOk DEF Answer, Put, CallsOk, CallOk

----------------------------------------------------------------------------
(* Lemmas about all calls.                                                  *)

LEMMA PutOk ==
  ASSUME NEW us, NEW h, NEW n, NEW calls, CallsOk(calls, us, h, n),
         NEW c, NEW k, CallOk(k, us, h, n)
  PROVE  CallsOk([calls EXCEPT ![c] = k], us, h, n)
BY DEF CallsOk, CallOk

LEMMA OutdatedOk ==
  ASSUME NEW us, NEW h, NEW n, NEW calls, CallsOk(calls, us, h, n)
  PROVE  CallsOk(Outdated(calls), us, h, n)
<1>1. ASSUME NEW c \in Call PROVE CallOk(Outdated(calls)[c], us, h, n)
  BY RelabelledOk DEF Outdated, CallsOk
<1> QED BY <1>1 DEF Outdated, CallsOk, CallOk

LEMMA SupersededOk ==
  ASSUME NEW us, NEW h, NEW n, NEW t, CallsOk(call, us, h, n)
  PROVE  CallsOk(Superseded(t), us, h, n)
<1>1. ASSUME NEW c \in Call PROVE CallOk(Superseded(t)[c], us, h, n)
  BY RelabelledOk DEF Superseded, CallsOk
<1> QED BY <1>1 DEF Superseded, CallsOk, CallOk

LEMMA AbandonedOk ==
  ASSUME NEW us, NEW h, NEW n, NEW t, CallsOk(call, us, h, n)
  PROVE  CallsOk(Abandoned(t), us, h, n)
<1>1. ASSUME NEW c \in Call PROVE CallOk(Abandoned(t)[c], us, h, n)
  BY RelabelledOk, IdleOk DEF Abandoned, CallsOk
<1> QED BY <1>1 DEF Abandoned, CallsOk, CallOk

----------------------------------------------------------------------------
(* The invariant.                                                           *)

LEMMA IInvInit == Init => IInv
<1> SUFFICES ASSUME Init PROVE IInv
  OBVIOUS
<1> USE ScenariosAssumption, SessionAssumption DEF Init, ApiInit
<1>1. Clocks BY DEF Clocks
<1>2. Directory BY DEF Directory, Members
<1>3. RowsOk(users, held, now) BY DEF RowsOk, NoUser, Row, Backed
<1>4. CallsOk(call, users, held, now) BY IdleOk DEF CallsOk, CallOk
<1>5. Tabs BY DEF Tabs, TabType, Closed, TokenIn, Page, AppPage
<1> QED BY <1>1, <1>2, <1>3, <1>4, <1>5 DEF IInv

\* A step of the API that changes nothing but calls.
LEMMA CallStep ==
  ASSUME IInv, UNCHANGED <<scenario, now, member, changes, held, users, webVars>>,
         faults' \in 0..scenario.faults, CallsOk(call', users, held, now)
  PROVE  IInv'
BY DEF IInv, Clocks, Directory, RowsOk, CallsOk, Tabs, webVars

\* Time and the directory go on.
LEMMA DirectoryStep ==
  ASSUME IInv, Tick \/ ChangeGroups, UNCHANGED webVars
  PROVE  IInv'
<1>1. Clocks'
  BY ClocksAreNumbers DEF IInv, Clocks, Tick, ChangeGroups
<1>2. /\ now \in Nat /\ now' \in Nat /\ now <= now'
      /\ users' = users /\ call' = call
      /\ \A p \in Person : held'[p] = held[p] \cup Members(member', now')[p]
  BY ClocksAreNumbers DEF IInv, Tick, ChangeGroups, Remember
<1>3. Directory'
  <2>1. member' \in [Person -> SUBSET Mapped]
    BY DEF IInv, Directory, Tick, ChangeGroups
  <2> QED BY <1>2, <2>1 DEF Directory, Members
<1>4. Later(users, held, now, users', held', now')
  BY <1>2 DEF Later, IInv, RowsOk, Row
<1>5. RowsOk(users', held', now')
  <2>1. ASSUME NEW u \in User PROVE Backed(u, users[u].roles, users[u].since, users[u].at, held')
    BY <1>2, BackedLater DEF IInv, RowsOk, Row
  <2> QED BY <1>2, <2>1 DEF IInv, RowsOk, Row
<1>6. CallsOk(call', users', held', now')
  BY <1>2, <1>4, CallsLater DEF IInv
<1>7. Tabs'
  BY <1>4, TokenLater DEF IInv, Tabs, webVars
<1> QED BY <1>1, <1>3, <1>5, <1>6, <1>7 DEF IInv

LEMMA NameApproverStep ==
  ASSUME IInv, NEW c \in scenario.calls, NameApprover(c), UNCHANGED webVars PROVE IInv'
<1>1. PICK u \in scenario.named : call' = [call EXCEPT ![c] = Requested("name", None, u, None, None, None)]
  BY DEF NameApprover, Put
<1>2. CallOk(Requested("name", None, u, None, None, None), users, held, now)
  BY RequestedOk, ClocksAreNumbers DEF IInv, TokenIn
<1>3. CallsOk(call', users, held, now)
  BY <1>1, <1>2, PutOk DEF IInv
<1> QED BY <1>3, CallStep DEF NameApprover, IInv, Clocks

LEMMA FindAccountStep ==
  ASSUME IInv, NEW c \in scenario.calls, FindAccount(c), UNCHANGED webVars PROVE IInv'
<1> DEFINE k == call[c]
           local == k.user = LocalAdmin
           j == [k EXCEPT !.since = now, !.stage = IF local THEN "resolved" ELSE "resolving",
                          !.roles = IF local THEN LocalRoles ELSE {"requester"}]
<1>1. k \in CallType /\ CallOk(k, users, held, now) /\ now \in Nat
  BY ClocksAreNumbers DEF IInv, CallsOk
<1>2. k.kind \in {"login", "name"} /\ k.stage = "sent" /\ k.user \in User
  BY <1>1 DEF FindAccount, CallOk, Resolves
<1>3. j \in CallType
  BY <1>1 DEF CallType, Stage, LocalRoles, Role
<1>4. /\ j.kind = k.kind /\ j.user = k.user /\ j.token = k.token /\ j.answer = k.answer /\ j.since = now
      /\ j.stage = (IF local THEN "resolved" ELSE "resolving")
      /\ j.roles = (IF local THEN LocalRoles ELSE {"requester"})
  BY <1>1 DEF CallType
<1>5. Backed(j.user, j.roles, now, now, held)
  BY <1>4, SessionAssumption DEF Backed
<1>6. CallOk(j, users, held, now)
  BY <1>1, <1>2, <1>3, <1>4, <1>5 DEF CallOk, Resolves, ServedWell, User, LocalRoles
<1>7. CallsOk(call', users, held, now)
  BY <1>6, PutOk DEF FindAccount, Put, IInv
<1> QED BY <1>7, CallStep DEF FindAccount, IInv, Clocks

\* What the directory says now has been remembered with this time.
LEMMA AskRoleStep ==
  ASSUME IInv, NEW c \in scenario.calls, AskRole(c), UNCHANGED webVars PROVE IInv'
<1> DEFINE k == call[c]
           r == RolesToAsk[k.asked + 1]
           roles == IF MemberOfAny(k.user, r) THEN k.roles \cup {r} ELSE k.roles
           j == [k EXCEPT !.asked = @ + 1, !.roles = roles]
<1>1. k \in CallType /\ CallOk(k, users, held, now) /\ now \in Nat
  BY ClocksAreNumbers DEF IInv, CallsOk
<1>2. /\ k.stage = "resolving" /\ k.user \in Person /\ k.since <= now /\ k.since \in Nat /\ k.roles # {}
      /\ k.kind \in {"login", "name"} /\ k.user \in User
      /\ Backed(k.user, k.roles, k.since, now, held)
  BY <1>1 DEF AskRole, CallOk, Resolves, CallType
<1>3. roles \subseteq Role /\ roles # {}
  BY <1>1, <1>2, SessionAssumption DEF MemberOfAny, IInv, Directory, CallType, Role
<1>4. Backed(k.user, roles, k.since, now, held)
  BY <1>1, <1>2 DEF MemberOfAny, IInv, Directory, Backed
<1>5. ASSUME NEW asked \in Nat, NEW known \in SUBSET Role
      PROVE  [k EXCEPT !.asked = asked, !.roles = known] \in CallType
  BY <1>1 DEF CallType
<1>6. j \in CallType
  <2>1. k.asked + 1 \in Nat BY <1>1 DEF CallType
  <2>2. j = [k EXCEPT !.asked = k.asked + 1, !.roles = roles] BY <1>1 DEF CallType
  <2> QED BY <1>3, <1>5, <2>1, <2>2
<1>7. /\ j.kind = k.kind /\ j.user = k.user /\ j.token = k.token /\ j.answer = k.answer /\ j.since = k.since
      /\ j.stage = "resolving" /\ j.roles = roles
  BY <1>1, <1>2 DEF CallType
<1>8. CallOk(j, users, held, now)
  BY <1>1, <1>2, <1>3, <1>4, <1>6, <1>7 DEF CallOk, Resolves, ServedWell
<1>9. CallsOk(call', users, held, now)
  <2>1. call' = [call EXCEPT ![c] = j] BY DEF AskRole, Put
  <2> QED BY <1>8, <2>1, PutOk DEF IInv
<1> QED BY <1>9, CallStep DEF AskRole, IInv, Clocks

LEMMA HaveRolesStep ==
  ASSUME IInv, NEW c \in scenario.calls, HaveRoles(c), UNCHANGED webVars PROVE IInv'
<1> DEFINE k == call[c]
           j == [k EXCEPT !.stage = "resolved"]
<1>0. c \in Call BY ClocksAreNumbers DEF IInv
<1>1. k \in CallType /\ CallOk(k, users, held, now)
  BY <1>0 DEF IInv, CallsOk
<1>2. CASE k.kind = "name" /\ "approver" \notin k.roles
  <2>1. Answer(c, 400, None, None) BY <1>2 DEF HaveRoles
  <2>2. CallOk(Answered(k, 400, None, None), users, held, now) BY <1>1, RefusedOk
  <2>3. CallsOk(call', users, held, now) BY <1>0, <2>1, <2>2, AnswerOk DEF IInv
  <2> QED BY <2>3, CallStep DEF HaveRoles, IInv, Clocks
<1>3. CASE ~(k.kind = "name" /\ "approver" \notin k.roles)
  <2>1. j \in CallType BY <1>1 DEF CallType, Stage
  <2>2. /\ j.kind = k.kind /\ j.user = k.user /\ j.token = k.token /\ j.answer = k.answer /\ j.since = k.since
        /\ j.stage = "resolved" /\ j.roles = k.roles
    BY <1>1 DEF CallType
  <2>3. CallOk(j, users, held, now)
    BY <1>1, <2>1, <2>2 DEF CallOk, Resolves, ServedWell, HaveRoles
  <2>4. call' = [call EXCEPT ![c] = j]
    BY <1>3 DEF HaveRoles, Put
  <2>5. CallsOk(call', users, held, now)
    BY <2>3, <2>4, PutOk DEF IInv
  <2> QED BY <2>5, CallStep DEF HaveRoles, IInv, Clocks
<1> QED BY <1>2, <1>3

LEMMA IssueTokenStep ==
  ASSUME IInv, NEW c \in scenario.calls, IssueToken(c), UNCHANGED webVars PROVE IInv'
<1> DEFINE k == call[c]
           token == [sub |-> k.user, exp |-> now + Ttl, wrote |-> k.at]
           view == Profile(k.user, users[k.user].roles)
           a == Answered(k, 200, token, view)
<1>0. c \in Call /\ now \in Nat BY ClocksAreNumbers DEF IInv
<1>1. k \in CallType /\ CallOk(k, users, held, now)
  BY <1>0 DEF IInv, CallsOk
<1>2. /\ k.kind = "login" /\ k.user \in User /\ k.at \in Nat
      /\ k.at <= users[k.user].at /\ users[k.user].roles # {} /\ users[k.user] \in Row
  BY <1>1 DEF IssueToken, CallOk, Resolves, CallType, IInv, RowsOk
<1>3. token \in Token /\ view \in View /\ TokenIn(token, users, now)
  BY <1>0, <1>2, SessionAssumption DEF Token, View, Profile, Row, TokenIn
<1>4. /\ a \in CallType
      /\ a.kind = k.kind /\ a.stage = "answered" /\ a.token = k.token
      /\ a.answer = [status |-> 200, token |-> token, user |-> view]
  BY <1>1, <1>3, AnsweredType
<1>5. view.roles # {} BY <1>2 DEF Profile
<1>6. CallOk(a, users, held, now)
  <2> HIDE DEF a, token, view
  <2> QED BY <1>1, <1>2, <1>3, <1>4, <1>5 DEF CallOk, Resolves, ServedWell
<1>7. Answer(c, 200, token, view) BY DEF IssueToken
<1>8. CallsOk(call', users, held, now)
  BY <1>0, <1>6, <1>7, AnswerOk DEF IInv
<1> QED BY <1>8, CallStep DEF IssueToken, IInv, Clocks

\* The rows that a token's user has now were written by its login or later.
LEMMA ServeStep ==
  ASSUME IInv, NEW c \in scenario.calls, Serve(c), UNCHANGED webVars PROVE IInv'
<1> DEFINE k == call[c]
           caller == Caller(k.token)
           served == [k EXCEPT !.roles = caller.roles, !.since = caller.since, !.at = now, !.rows = caller.at]
           a == Answered(served, 200, None, Profile(k.token.sub, caller.roles))
<1>0. c \in Call /\ now \in Nat BY ClocksAreNumbers DEF IInv
<1>1. k \in CallType /\ CallOk(k, users, held, now)
  BY <1>0 DEF IInv, CallsOk
<1>2. CASE caller = None
  <2>1. call' = [call EXCEPT ![c] = Answered(k, 401, None, None)]
    <3>1. call' = [call EXCEPT ![c] = CASE caller = None -> Answered(k, 401, None, None)
                                        [] caller # None /\ ~Permits(caller.roles, k.needs) -> Answered(k, 403, None, None)
                                        [] OTHER -> a]
      BY DEF Serve, Put
    <3> HIDE DEF caller, a
    <3> QED BY <1>2, <3>1
  <2>2. CallOk(Answered(k, 401, None, None), users, held, now)
    BY <1>1, RefusedOk
  <2>3. CallsOk(call', users, held, now)
    BY <2>1, <2>2, PutOk DEF IInv
  <2> QED BY <2>3, CallStep DEF Serve, IInv, Clocks
<1>3. CASE caller # None /\ ~Permits(caller.roles, k.needs)
  <2>1. call' = [call EXCEPT ![c] = Answered(k, 403, None, None)]
    BY <1>3 DEF Serve, Put
  <2>2. CallOk(Answered(k, 403, None, None), users, held, now)
    BY <1>1, RefusedOk
  <2>3. CallsOk(call', users, held, now)
    BY <2>1, <2>2, PutOk DEF IInv
  <2> QED BY <2>3, CallStep DEF Serve, IInv, Clocks
<1>4. CASE caller # None /\ Permits(caller.roles, k.needs)
  <2>1. /\ k.token \in Token /\ k.token.exp > now /\ caller = users[k.token.sub]
        /\ k.token.wrote <= caller.at /\ caller.roles # {} /\ k.token.sub \in User
    BY <1>1, <1>4 DEF Caller, Valid, CallOk, TokenIn, Token
  <2>2. /\ caller \in Row /\ caller.at <= now
        /\ Backed(k.token.sub, caller.roles, caller.since, caller.at, held)
    BY <2>1 DEF IInv, RowsOk
  <2>3. Backed(k.token.sub, caller.roles, caller.since, now, held)
    BY <1>0, <2>2, BackedLater DEF Row
  <2>4. served \in CallType
    BY <1>0, <1>1, <2>2 DEF CallType, Row
  <2>5. /\ served.kind = k.kind /\ served.token = k.token /\ served.roles = caller.roles
        /\ served.since = caller.since /\ served.at = now /\ served.rows = caller.at
    BY <1>1 DEF CallType
  <2>6. Profile(k.token.sub, caller.roles) \in View
    BY <2>1, <2>2 DEF Profile, View, Row
  <2>8. /\ a \in CallType
        /\ a.stage = "answered" /\ a.kind = k.kind /\ a.token = k.token /\ a.roles = caller.roles
        /\ a.since = caller.since /\ a.at = now /\ a.rows = caller.at
        /\ a.answer = [status |-> 200, token |-> None, user |-> Profile(k.token.sub, caller.roles)]
    <3> HIDE DEF served, caller
    <3> QED BY <2>4, <2>5, <2>6, AnsweredType
  <2>9. ServedWell(a, held)
    BY <2>1, <2>2, <2>3, <2>8, <1>0 DEF ServedWell, Token, Row
  <2>10. CallOk(a, users, held, now)
    <3>1. TokenIn(None, users, now) BY DEF TokenIn
    <3>2. Profile(k.token.sub, caller.roles).roles # {} BY <2>1 DEF Profile
    <3> HIDE DEF a, served, caller
    <3> QED BY <1>1, <2>8, <2>9, <3>1, <3>2 DEF CallOk, Resolves
  <2>11. call' = [call EXCEPT ![c] = a]
    BY <1>4 DEF Serve, Put
  <2>12. CallsOk(call', users, held, now)
    BY <2>10, <2>11, PutOk DEF IInv
  <2> QED BY <2>12, CallStep DEF Serve, IInv, Clocks
<1> QED BY <1>2, <1>3, <1>4

LEMMA FailCallStep ==
  ASSUME IInv, NEW c \in scenario.calls, FailCall(c), UNCHANGED webVars PROVE IInv'
<1>0. c \in Call BY ClocksAreNumbers DEF IInv
<1>1. PICK s \in {401, 500} : Answer(c, s, None, None)
  BY DEF FailCall
<1>2. CallOk(Answered(call[c], s, None, None), users, held, now)
  BY <1>0, RefusedOk DEF IInv, CallsOk
<1>3. CallsOk(call', users, held, now)
  <2>1. s \in Nat OBVIOUS
  <2> QED BY <1>0, <1>1, <1>2, <2>1, AnswerOk DEF IInv
<1>4. faults' \in 0..scenario.faults
  BY ClocksAreNumbers DEF FailCall, IInv, Clocks
<1> QED BY <1>3, <1>4, CallStep DEF FailCall

\* New rows are written now, and hold what their resolution found.
LEMMA UpsertUserStep ==
  ASSUME IInv, NEW c \in scenario.calls, UpsertUser(c), UNCHANGED webVars PROVE IInv'
<1> DEFINE k == call[c]
           row == [roles |-> k.roles, since |-> k.since, at |-> now]
           j == [k EXCEPT !.stage = "written", !.at = now]
           a == Answered(k, 200, None, None)
<1>0. c \in Call /\ now \in Nat BY ClocksAreNumbers DEF IInv
<1>1. k \in CallType /\ CallOk(k, users, held, now)
  BY <1>0 DEF IInv, CallsOk
<1>2. /\ k.stage = "resolved" /\ k.kind \in {"login", "name"} /\ k.user \in User
      /\ k.since <= now /\ k.roles # {} /\ Backed(k.user, k.roles, k.since, now, held)
  BY <1>1 DEF UpsertUser, CallOk, Resolves
<1>3. users' = [users EXCEPT ![k.user] = row]
  BY DEF UpsertUser, ReplacedRoles
<1>4. row \in Row BY <1>0, <1>1 DEF Row, CallType
<1>5. RowsOk(users', held, now)
  BY <1>0, <1>2, <1>3, <1>4 DEF IInv, RowsOk
<1>6. Later(users, held, now, users', held, now)
  BY <1>0, <1>2, <1>3, <1>4, <1>5 DEF IInv, RowsOk, Later, Row
<1>7. CallsOk(call, users', held, now) /\ CallOk(k, users', held, now)
  BY <1>0, <1>6, CallsLater DEF IInv, CallsOk
<1>8. ASSUME k.kind = "name" PROVE CallsOk(call', users', held, now)
  <2>1. /\ a \in CallType
        /\ a.kind = "name" /\ a.stage = "answered" /\ a.token = k.token
        /\ a.answer = [status |-> 200, token |-> None, user |-> None]
    BY <1>1, <1>8, AnsweredType
  <2>2. TokenIn(None, users', now) BY DEF TokenIn
  <2>3. CallOk(a, users', held, now)
    <3> HIDE DEF a
    <3> QED BY <1>7, <2>1, <2>2 DEF CallOk, Resolves, ServedWell
  <2>4. Answer(c, 200, None, None) BY <1>8 DEF UpsertUser
  <2> QED BY <1>0, <1>7, <2>3, <2>4, AnswerOk
<1>9. ASSUME k.kind # "name" PROVE CallsOk(call', users', held, now)
  <2>1. j \in CallType BY <1>0, <1>1 DEF CallType, Stage
  <2>2. /\ j.kind = k.kind /\ j.stage = "written" /\ j.token = k.token /\ j.answer = k.answer
        /\ j.user = k.user /\ j.at = now
    BY <1>1 DEF CallType
  <2>3. users'[k.user].at = now /\ users'[k.user].roles # {}
    BY <1>2, <1>3 DEF IInv, RowsOk
  <2>4. CallOk(j, users', held, now)
    BY <1>0, <1>2, <1>7, <1>9, <2>1, <2>2, <2>3 DEF CallOk, Resolves, ServedWell
  <2>5. call' = [call EXCEPT ![c] = j]
    BY <1>9 DEF UpsertUser, Put
  <2> QED BY <1>7, <2>4, <2>5, PutOk
<1>10. CallsOk(call', users', held, now) BY <1>8, <1>9
<1>11. UNCHANGED <<scenario, now, member, changes, held, faults, tab, storage>>
  BY DEF UpsertUser, webVars
<1>12. Tabs'
  BY <1>6, <1>11, TokenLater DEF IInv, Tabs
<1> QED BY <1>5, <1>10, <1>11, <1>12 DEF IInv, Clocks, Directory, RowsOk, CallsOk

----------------------------------------------------------------------------
(* The steps of a tab.                                                      *)

\* What the tabs and the storage keep of the invariant.
TabsOk(tabs) ==
  /\ tabs \in [Tab -> TabType]
  /\ \A t \in Tab : TokenIn(tabs[t].token, users, now)
StoreOk(s) ==
  /\ s \in [token : Token \cup {None}, user : View \cup {None}]
  /\ TokenIn(s.token, users, now)

LEMMA TabPutOk ==
  ASSUME TabsOk(tab), NEW t, NEW s, t \in Tab => s \in TabType /\ TokenIn(s.token, users, now)
  PROVE  TabsOk([tab EXCEPT ![t] = s])
BY DEF TabsOk

\* A step of the browser.
LEMMA WebStep ==
  ASSUME IInv, UNCHANGED <<scenario, now, member, changes, held, users, faults>>,
         CallsOk(call', users, held, now), TabsOk(tab'), StoreOk(storage')
  PROVE  IInv'
BY DEF IInv, Clocks, Directory, RowsOk, CallsOk, Tabs, TabsOk, StoreOk

LEMMA EnteredIsPage ==
  ASSUME NEW s, NEW page \in AppPage PROVE Entered(s, page) \in Page
BY DEF Entered, AppPage, Page

LEMMA NavigatedOk ==
  ASSUME IInv, NEW t \in Tab, NEW s \in TabType, TokenIn(s.token, users, now), NEW page \in AppPage,
         NEW calls, CallsOk(calls, users, held, now), Navigated(t, s, page, calls)
  PROVE  TabsOk(tab') /\ CallsOk(call', users, held, now)
<1>1. TabsOk(tab) BY DEF IInv, Tabs, TabsOk
<1>2. CASE Known(s)
  <2> DEFINE e == [s EXCEPT !.page = Entered(s, page)]
  <2>1. e \in TabType /\ e.token = s.token BY EnteredIsPage DEF TabType
  <2>2. tab' = [tab EXCEPT ![t] = e] /\ call' = calls BY <1>2 DEF Navigated
  <2> HIDE DEF e
  <2> QED BY <1>1, <2>1, <2>2, TabPutOk
<1>3. CASE ~Known(s)
  <2>1. tab' = [tab EXCEPT ![t] = s] BY <1>3 DEF Navigated
  <2>2. PICK c \in scenario.calls : call' = [calls EXCEPT ![c] = Requested("me", t, None, s.token, page, None)]
    BY <1>3 DEF Navigated
  <2>3. CallOk(Requested("me", t, None, s.token, page, None), users, held, now)
    <3>1. s.token \in Token \cup {None} BY DEF TabType
    <3> QED BY <3>1, RequestedOk
  <2>4. CallsOk(call', users, held, now) BY <2>2, <2>3, PutOk
  <2> QED BY <1>1, <2>1, <2>4, TabPutOk
<1> QED BY <1>2, <1>3

\* A tab that is opened takes over what is in the storage.
LEMMA OpenedOk ==
  ASSUME IInv, NEW page \in Page
  PROVE  /\ [Closed EXCEPT !.page = page, !.token = storage.token, !.user = storage.user] \in TabType
         /\ [Closed EXCEPT !.page = page, !.token = storage.token, !.user = storage.user].token = storage.token
         /\ TokenIn(storage.token, users, now) /\ storage.token \in Token \cup {None}
<1>1. storage \in [token : Token \cup {None}, user : View \cup {None}] /\ TokenIn(storage.token, users, now)
  BY DEF IInv, Tabs
<1> QED BY <1>1 DEF Closed, TabType

LEMMA OpenStep ==
  ASSUME IInv, NEW t \in scenario.tabs, Open(t) PROVE IInv'
<1> DEFINE s == [Closed EXCEPT !.page = "opening", !.token = storage.token, !.user = storage.user]
<1>0. t \in Tab BY ClocksAreNumbers DEF IInv
<1>1. s \in TabType /\ TokenIn(s.token, users, now)
  <2>1. "opening" \in Page BY DEF Page
  <2> QED BY <2>1, OpenedOk
<1>2. PICK page \in AppPage : Navigated(t, s, page, Abandoned(t))
  BY DEF Open
<1>3. CallsOk(Abandoned(t), users, held, now) BY AbandonedOk DEF IInv
<1>4. TabsOk(tab') /\ CallsOk(call', users, held, now)
  <2> HIDE DEF s
  <2> QED BY <1>0, <1>1, <1>2, <1>3, NavigatedOk
<1> QED BY <1>4, WebStep DEF Open, IInv, Tabs, StoreOk

LEMMA OpenLoginStep ==
  ASSUME IInv, NEW t \in scenario.tabs, OpenLogin(t) PROVE IInv'
<1> DEFINE s == [Closed EXCEPT !.page = "login", !.token = storage.token, !.user = storage.user]
<1>0. t \in Tab /\ TabsOk(tab) BY ClocksAreNumbers DEF IInv, Tabs, TabsOk
<1>1. s \in TabType /\ s.token = storage.token /\ TokenIn(s.token, users, now) /\ s.token \in Token \cup {None}
  <2>1. "login" \in Page BY DEF Page
  <2> QED BY <2>1, OpenedOk
<1>2. tab' = [tab EXCEPT ![t] = s] BY DEF OpenLogin
<1>3. TabsOk(tab')
  <2> HIDE DEF s
  <2> QED BY <1>0, <1>1, <1>2, TabPutOk
<1>4. CallsOk(Abandoned(t), users, held, now) BY AbandonedOk DEF IInv
<1>5. CallsOk(call', users, held, now)
  <2>1. CASE s.token = None BY <1>4, <2>1 DEF OpenLogin
  <2>2. CASE s.token # None
    <3>1. PICK c \in Free : call' = [Abandoned(t) EXCEPT ![c] = Requested("me", t, None, s.token, "login", None)]
      BY <2>2 DEF OpenLogin
    <3> HIDE DEF s
    <3>2. CallOk(Requested("me", t, None, s.token, "login", None), users, held, now)
      BY <1>0, <1>1, RequestedOk
    <3> QED BY <1>4, <3>1, <3>2, PutOk
  <2> QED BY <2>1, <2>2
<1> QED BY <1>3, <1>5, WebStep DEF OpenLogin, IInv, Tabs, StoreOk

LEMMA NavigateStep ==
  ASSUME IInv, NEW t \in scenario.tabs, Navigate(t) PROVE IInv'
<1>0. t \in Tab BY ClocksAreNumbers DEF IInv
<1>1. tab[t] \in TabType /\ TokenIn(tab[t].token, users, now) BY <1>0 DEF IInv, Tabs
<1>2. PICK page \in AppPage : Navigated(t, tab[t], page, Superseded(t)) BY DEF Navigate
<1>3. CallsOk(Superseded(t), users, held, now) BY SupersededOk DEF IInv
<1>4. TabsOk(tab') /\ CallsOk(call', users, held, now)
  BY <1>0, <1>1, <1>2, <1>3, NavigatedOk
<1> QED BY <1>4, WebStep DEF Navigate, IInv, Tabs, StoreOk

LEMMA SignInStep ==
  ASSUME IInv, NEW t \in scenario.tabs, SignIn(t) PROVE IInv'
<1>0. t \in Tab BY ClocksAreNumbers DEF IInv
<1>1. PICK c \in Free, u \in scenario.who : call' = [call EXCEPT ![c] = Requested("login", t, u, None, None, None)]
  BY DEF SignIn, Put
<1>2. CallOk(Requested("login", t, u, None, None, None), users, held, now)
  <2>1. u \in User /\ TokenIn(None, users, now) BY ClocksAreNumbers DEF IInv, TokenIn
  <2> QED BY <1>0, <2>1, RequestedOk
<1>3. CallsOk(call', users, held, now) BY <1>1, <1>2, PutOk DEF IInv
<1> QED BY <1>3, CallStep DEF SignIn, IInv, Clocks

LEMMA AskStep ==
  ASSUME IInv, NEW t \in scenario.tabs, Ask(t) PROVE IInv'
<1> DEFINE needs == IF tab[t].page = "settings" THEN "administrator" ELSE None
<1>0. t \in Tab BY ClocksAreNumbers DEF IInv
<1>1. needs \in Role \cup {None} BY DEF Role
<1>2. tab[t].token \in Token \cup {None} /\ TokenIn(tab[t].token, users, now)
  BY <1>0 DEF IInv, Tabs, TabType
<1>3. PICK c \in Free : call' = [call EXCEPT ![c] = Requested("api", t, None, tab[t].token, None, needs)]
  BY DEF Ask, Put
<1>4. CallOk(Requested("api", t, None, tab[t].token, None, needs), users, held, now)
  <2> HIDE DEF needs
  <2> QED BY <1>0, <1>1, <1>2, RequestedOk
<1>5. CallsOk(call', users, held, now)
  <2> HIDE DEF needs
  <2> QED BY <1>3, <1>4, PutOk DEF IInv
<1> QED BY <1>5, CallStep DEF Ask, IInv, Clocks

\* Without a session there is nothing to know of it.
LEMMA LoggedOutOk ==
  ASSUME TabsOk(tab), NEW t
  PROVE  /\ TabsOk([tab EXCEPT ![t] = [LoggedOut(tab[t]) EXCEPT !.page = "login"]])
         /\ StoreOk(Emptied)
<1> DEFINE s == [LoggedOut(tab[t]) EXCEPT !.page = "login"]
<1>1. ASSUME t \in Tab PROVE s \in TabType /\ TokenIn(s.token, users, now)
  BY <1>1 DEF TabsOk, TabType, LoggedOut, Page, TokenIn
<1>2. TabsOk([tab EXCEPT ![t] = s])
  <2> HIDE DEF s
  <2> QED BY <1>1, TabPutOk
<1> QED BY <1>2 DEF Emptied, StoreOk, TokenIn

LEMMA SignOutStep ==
  ASSUME IInv, NEW t \in scenario.tabs, SignOut(t) PROVE IInv'
<1>1. TabsOk(tab) BY DEF IInv, Tabs, TabsOk
<1>2. TabsOk(tab') /\ StoreOk(storage') BY <1>1, LoggedOutOk DEF SignOut
<1>3. CallsOk(Superseded(t), users, held, now) BY SupersededOk DEF IInv
<1>4. CallsOk(call', users, held, now) BY <1>3, OutdatedOk DEF SignOut
<1> QED BY <1>2, <1>4, WebStep DEF SignOut

\* What an answer carries.
LEMMA AnswerIn ==
  ASSUME IInv, NEW c \in Call
  PROVE  /\ call[c].answer.token \in Token \cup {None} /\ TokenIn(call[c].answer.token, users, now)
         /\ call[c].answer.user \in View \cup {None}
         /\ call[c].goal \in AppPage \cup {"login", None}
         /\ call[c].tab \in Tab \cup {None}
         /\ CallsOk(Without(c), users, held, now)
<1>1. CallsOk(Without(c), users, held, now)
  BY IdleOk, PutOk DEF IInv, Without
<1> QED BY <1>1 DEF IInv, CallsOk, CallOk, CallType

LEMMA LoginAnsweredStep ==
  ASSUME IInv, NEW c \in scenario.calls, LoginAnswered(c) PROVE IInv'
<1> DEFINE t == call[c].tab
           answer == call[c].answer
           s == [SignedIn(tab[t], answer) EXCEPT !.page = "requests"]
<1>0. c \in Call /\ TabsOk(tab) /\ StoreOk(storage)
  BY ClocksAreNumbers DEF IInv, Tabs, TabsOk, StoreOk
<1>1. CASE answer.status = 200
  <2>1. ASSUME t \in Tab PROVE s \in TabType /\ TokenIn(s.token, users, now)
    BY <1>0, <2>1, AnswerIn DEF TabsOk, TabType, SignedIn, Page, AppPage
  <2>2. tab' = [tab EXCEPT ![t] = s] BY <1>1 DEF LoginAnswered
  <2>3. TabsOk(tab')
    <3> HIDE DEF s, t
    <3> QED BY <1>0, <2>1, <2>2, TabPutOk
  <2>4. StoreOk(storage')
    BY <1>0, <1>1, AnswerIn DEF LoginAnswered, StoreOk
  <2>5. CallsOk(call', users, held, now)
    BY <1>0, <1>1, AnswerIn, OutdatedOk DEF LoginAnswered
  <2> QED BY <2>3, <2>4, <2>5, WebStep DEF LoginAnswered
<1>2. CASE answer.status # 200
  <2>1. CallsOk(call', users, held, now) BY <1>0, <1>2, AnswerIn DEF LoginAnswered
  <2>2. UNCHANGED <<tab, storage>> BY <1>2 DEF LoginAnswered
  <2> QED BY <1>0, <2>1, <2>2, WebStep DEF LoginAnswered
<1> QED BY <1>1, <1>2

LEMMA MeAnsweredStep ==
  ASSUME IInv, NEW c \in scenario.calls, MeAnswered(c) PROVE IInv'
<1> DEFINE t == call[c].tab
           answer == call[c].answer
           good == answer.status = 200
           s == Checked(tab[t], answer)
           page == CASE call[c].goal \in AppPage -> Entered(s, call[c].goal)
                     [] call[c].goal = "login" /\ good -> Entered(s, "requests")
                     [] OTHER -> s.page
           e == [s EXCEPT !.page = page]
<1>0. c \in Call /\ TabsOk(tab) /\ StoreOk(storage)
  BY ClocksAreNumbers DEF IInv, Tabs, TabsOk, StoreOk
<1>1. ASSUME t \in Tab PROVE e \in TabType /\ TokenIn(e.token, users, now)
  <2>1. s \in TabType /\ s.token = tab[t].token
    <3>1. tab[t] \in TabType BY <1>0, <1>1 DEF TabsOk
    <3>2. CASE good
      <4>1. answer.user \in View \cup {None} BY <1>0, AnswerIn
      <4>2. s = [tab[t] EXCEPT !.user = answer.user, !.resolved = TRUE] BY <3>2 DEF Checked
      <4> HIDE DEF answer, s, t
      <4> QED BY <3>1, <4>1, <4>2 DEF TabType
    <3>3. CASE ~good BY <3>1, <3>3 DEF Checked
    <3> QED BY <3>2, <3>3
  <2>2. page \in Page
    <3>1. s.page \in Page BY <2>1 DEF TabType
    <3>2. "requests" \in AppPage /\ "login" \notin AppPage BY DEF AppPage
    <3>3. Entered(s, "requests") \in Page BY <3>2, EnteredIsPage
    <3>4. ASSUME call[c].goal \in AppPage PROVE Entered(s, call[c].goal) \in Page BY <3>4, EnteredIsPage
    <3> HIDE DEF s, good
    <3> QED BY <3>1, <3>2, <3>3, <3>4
  <2> HIDE DEF s, page
  <2>3. e \in TabType /\ e.token = s.token BY <2>1, <2>2 DEF TabType
  <2> QED BY <1>0, <1>1, <2>1, <2>3 DEF TabsOk
<1>2. tab' = [tab EXCEPT ![t] = e] BY DEF MeAnswered
<1>3. TabsOk(tab')
  <2> HIDE DEF e, t
  <2> QED BY <1>0, <1>1, <1>2, TabPutOk
<1>4. StoreOk(storage') BY <1>0, AnswerIn DEF MeAnswered, StoreOk
<1>5. CallsOk(call', users, held, now) BY <1>0, AnswerIn DEF MeAnswered
<1> QED BY <1>3, <1>4, <1>5, WebStep DEF MeAnswered

LEMMA ApiAnsweredStep ==
  ASSUME IInv, NEW c \in scenario.calls, ApiAnswered(c) PROVE IInv'
<1>0. c \in Call /\ TabsOk(tab) /\ StoreOk(storage)
  BY ClocksAreNumbers DEF IInv, Tabs, TabsOk, StoreOk
<1>1. CASE call[c].answer.status = 401
  <2> DEFINE t == call[c].tab
  <2>0. tab' = [tab EXCEPT ![t] = [LoggedOut(tab[t]) EXCEPT !.page = "login"]] /\ storage' = Emptied
    BY <1>1 DEF ApiAnswered
  <2>1. TabsOk(tab') /\ StoreOk(storage')
    <3> HIDE DEF t
    <3> QED BY <1>0, <2>0, LoggedOutOk
  <2>2. CallsOk([Superseded(call[c].tab) EXCEPT ![c] = Idle], users, held, now)
    BY SupersededOk, IdleOk, PutOk DEF IInv
  <2>3. CallsOk(call', users, held, now) BY <1>1, <2>2, OutdatedOk DEF ApiAnswered
  <2> QED BY <2>1, <2>3, WebStep DEF ApiAnswered
<1>2. CASE call[c].answer.status # 401
  <2>1. UNCHANGED <<tab, storage>> /\ CallsOk(call', users, held, now)
    BY <1>0, <1>2, AnswerIn DEF ApiAnswered, webVars
  <2> QED BY <1>0, <2>1, WebStep DEF ApiAnswered
<1> QED BY <1>1, <1>2

----------------------------------------------------------------------------
LEMMA IInvNext == IInv /\ [Next]_vars => IInv'
<1> SUFFICES ASSUME IInv, [Next]_vars PROVE IInv'
  OBVIOUS
<1>1. CASE UNCHANGED vars
  BY <1>1 DEF vars, apiVars, webVars, IInv, Clocks, Directory, RowsOk, CallsOk, Tabs
<1>2. ASSUME ApiNext, UNCHANGED webVars PROVE IInv'
  <2>1. ASSUME Tick \/ ChangeGroups PROVE IInv' BY <1>2, <2>1, DirectoryStep
  <2>2. ASSUME NEW c \in scenario.calls,
               \/ NameApprover(c) \/ FindAccount(c) \/ AskRole(c) \/ HaveRoles(c) \/ UpsertUser(c)
               \/ IssueToken(c) \/ Serve(c) \/ FailCall(c)
        PROVE  IInv'
    BY <1>2, <2>2, NameApproverStep, FindAccountStep, AskRoleStep, HaveRolesStep, UpsertUserStep,
       IssueTokenStep, ServeStep, FailCallStep
  <2> QED BY <1>2, <2>1, <2>2 DEF ApiNext
<1>3. ASSUME NEW t \in scenario.tabs, Open(t) \/ OpenLogin(t) \/ Navigate(t) \/ SignIn(t) \/ Ask(t) \/ SignOut(t)
      PROVE  IInv'
  BY <1>3, OpenStep, OpenLoginStep, NavigateStep, SignInStep, AskStep, SignOutStep
<1>4. ASSUME NEW c \in scenario.calls, LoginAnswered(c) \/ MeAnswered(c) \/ ApiAnswered(c)
      PROVE  IInv'
  BY <1>4, LoginAnsweredStep, MeAnsweredStep, ApiAnsweredStep
<1> QED BY <1>1, <1>2, <1>3, <1>4 DEF Next

LEMMA TokenInIsOk ==
  ASSUME IInv, NEW token, TokenIn(token, users, now)
  PROVE  TokenOk(token)
<1>1. /\ scenario.horizon \in Nat /\ now \in Nat /\ now <= scenario.horizon
  BY ClocksAreNumbers DEF IInv, Clocks
<1>2. ASSUME token # None PROVE users[token.sub] \in Row /\ users[token.sub].at <= now
  BY <1>2 DEF TokenIn, Token, IInv, RowsOk
<1> QED BY <1>1, <1>2, SessionAssumption DEF TokenIn, Token, TokenOk, Row

LEMMA IInvIsTyped == IInv => TypeOK
<1> SUFFICES ASSUME IInv PROVE TypeOK
  OBVIOUS
<1>1. ASSUME NEW u \in User PROVE users[u].roles \subseteq Role /\ users[u].since <= users[u].at
  BY DEF IInv, RowsOk, Row
<1>2. ASSUME NEW c \in Call
      PROVE  LET k == call[c] IN
             /\ k.tab \in Tab \cup {None} /\ k.user \in User \cup {None} /\ TokenOk(k.token)
             /\ k.stage \in Stage
             /\ TokenOk(k.answer.token) /\ UserOk(k.answer.user)
             /\ k.answer.user # None => k.answer.user.roles # {}
  <2>1. CallOk(call[c], users, held, now) BY DEF IInv, CallsOk
  <2>2. TokenOk(call[c].token) /\ TokenOk(call[c].answer.token)
    BY <2>1, TokenInIsOk DEF CallOk
  <2> QED BY <2>1, <2>2 DEF CallOk, CallType, UserOk, View
<1>3. ASSUME NEW t \in Tab
      PROVE  tab[t].page \in Page /\ TokenOk(tab[t].token) /\ UserOk(tab[t].user)
  <2>1. TokenOk(tab[t].token) BY TokenInIsOk DEF IInv, Tabs
  <2> QED BY <2>1 DEF IInv, Tabs, TabType, UserOk, View
<1>4. TokenOk(storage.token) /\ UserOk(storage.user)
  <2>1. TokenOk(storage.token) BY TokenInIsOk DEF IInv, Tabs
  <2> QED BY <2>1 DEF IInv, Tabs, UserOk, View
<1> QED BY <1>1, <1>2, <1>3, <1>4 DEF TypeOK, IInv, Clocks, Directory, Stage

LEMMA IInvServesWell == IInv => RolesEndWithTheToken
BY DEF IInv, CallsOk, CallOk, ServedWell, Backed, RolesEndWithTheToken

\* Calls, tokens, profiles, tabs and the storage are of their types, and no
\* profile without a role is ever answered, however many calls and tabs there
\* are.
THEOREM TypeCorrect == Spec => []TypeOK
BY IInvInit, IInvNext, IInvIsTyped, PTL DEF Spec

\* Whatever the interleaving of logins, approver look-ups, changes of groups and
\* calls, and however many there are: a call is served with roles that its
\* account held no earlier than the resolution that wrote its rows, with rows no
\* older than its login, and before its token ends.
THEOREM RolesAreTheAccounts == Spec => []RolesEndWithTheToken
BY IInvInit, IInvNext, IInvServesWell, PTL DEF Spec

----------------------------------------------------------------------------
(* What the tabs make of the answers.  On top of what calls are served      *)
(* with, a good answer is about the user of the token which asked or which  *)
(* it brings, and a call that will end in a page is a check of a tab which  *)
(* waits for it (Consistent).                                               *)

Own(token, user) == token # None /\ user # None => user.id = token.sub

Consistent(k) ==
  /\ k.goal \in AppPage => k.kind = "me" /\ k.stage # "idle" /\ k.tab \in Tab
  /\ k.stage = "answered" /\ k.answer.status = 200 =>
       /\ k.kind = "login" => /\ k.answer.token # None /\ k.answer.user # None
                              /\ Own(k.answer.token, k.answer.user)
       /\ k.kind = "me" => k.token # None /\ k.answer.user # None /\ Own(k.token, k.answer.user)

TabInv ==
  /\ IInv
  /\ \A c \in Call : Consistent(call[c])
  /\ SessionIsOneUsers
  /\ PageSuitsUser

\* From calls to later, no tab but t stops waiting for a page.
Keeps(calls, later, t) ==
  \A c \in Call :
    /\ Consistent(later[c])
    /\ calls[c].goal \in AppPage /\ calls[c].tab # t => later[c].goal = calls[c].goal /\ later[c].tab = calls[c].tab

----------------------------------------------------------------------------
(* Lemmas about calls.                                                      *)

LEMMA IdleConsistent == Consistent(Idle)
  BY NoneAssumption DEF Consistent, Idle, NoAnswer, Page

LEMMA RequestedConsistent ==
  ASSUME NEW kind, NEW t, NEW u, NEW token, NEW goal, NEW needs,
         goal \in AppPage => kind = "me" /\ t \in Tab
  PROVE  Consistent(Requested(kind, t, u, token, goal, needs))
  BY DEF Consistent, Requested, Idle, NoAnswer

LEMMA CallFields ==
  ASSUME IInv, NEW c \in Call
  PROVE  call \in [Call -> CallType] /\ call[c] \in CallType /\ call[c].goal \in AppPage \cup {"login", None}
  BY DEF IInv, CallsOk, CallType

\* A slot that a call is put in was free, or the call is the same and goes on.
LEMMA PutKeeps ==
  ASSUME NEW calls, \A d \in Call : Consistent(calls[d]), calls \in [Call -> CallType],
         NEW c \in Call, NEW k, Consistent(k), NEW t,
         calls[c].goal \in AppPage => calls[c].tab = t \/ (k.goal = calls[c].goal /\ k.tab = calls[c].tab)
  PROVE  Keeps(calls, [calls EXCEPT ![c] = k], t)
  BY DEF Keeps

LEMMA SupersededKeeps ==
  ASSUME IInv, \A c \in Call : Consistent(call[c]), NEW t
  PROVE  Keeps(call, Superseded(t), t) /\ Superseded(t) \in [Call -> CallType]
<1>1. ASSUME NEW c \in Call, call[c].tab = t, call[c].goal \in AppPage
      PROVE  Consistent([call[c] EXCEPT !.goal = None])
  <2>1. call[c] \in CallType /\ Consistent(call[c])
    BY CallFields
  <2> QED
    BY <1>1, <2>1 DEF Consistent, CallType
<1>2. Superseded(t) \in [Call -> CallType]
  BY SupersededOk DEF IInv, CallsOk
<1> QED
  BY <1>1, <1>2 DEF Keeps, Superseded

LEMMA AbandonedKeeps ==
  ASSUME IInv, \A c \in Call : Consistent(call[c]), NEW t
  PROVE  Keeps(call, Abandoned(t), t) /\ Abandoned(t) \in [Call -> CallType]
<1>1. ASSUME NEW c \in Call, call[c].kind = "login", call[c].stage # "answered"
      PROVE  Consistent([call[c] EXCEPT !.tab = None])
  <2>1. call[c] \in CallType /\ Consistent(call[c])
    BY CallFields
  <2> QED
    BY <1>1, <2>1 DEF Consistent, CallType
<1>2. Abandoned(t) \in [Call -> CallType]
  BY AbandonedOk DEF IInv, CallsOk
<1> QED
  BY <1>1, <1>2, IdleConsistent DEF Keeps, Abandoned

LEMMA OutdatedKeeps ==
  ASSUME NEW calls \in [Call -> CallType], NEW later \in [Call -> CallType], NEW t, Keeps(calls, later, t)
  PROVE  Keeps(calls, Outdated(later), t)
<1>1. ASSUME NEW c \in Call
      PROVE  /\ Outdated(later)[c].goal = later[c].goal /\ Outdated(later)[c].tab = later[c].tab
             /\ Consistent(Outdated(later)[c])
  <2>1. later[c] \in CallType /\ Consistent(later[c])
    BY DEF Keeps
  <2> QED
    BY <2>1 DEF Outdated, Consistent, CallType
<1> QED
  BY <1>1 DEF Keeps

\* An answer to a call that somebody waits for.
LEMMA AnswerKeeps ==
  ASSUME IInv, \A d \in Call : Consistent(call[d]), NEW c \in Call, NEW t,
         NEW s \in Nat, NEW token \in Token \cup {None}, NEW view \in View \cup {None}, Answer(c, s, token, view),
         s = 200 => /\ call[c].kind = "login" => token # None /\ view # None /\ Own(token, view)
                    /\ call[c].kind = "me" => call[c].token # None /\ view # None /\ Own(call[c].token, view)
  PROVE  Keeps(call, call', t)
<1> DEFINE a == Answered(call[c], s, token, view)
<1>1. call \in [Call -> CallType] /\ call[c] \in CallType /\ Consistent(call[c])
  BY CallFields
<1>2. a.stage = "answered" /\ a.answer = [status |-> s, token |-> token, user |-> view]
      /\ a.kind = call[c].kind /\ a.token = call[c].token
  BY <1>1, AnsweredType
<1>3. a.goal = call[c].goal /\ a.tab = call[c].tab
  BY <1>1 DEF Answered, CallType
<1> HIDE DEF a
<1>4. Consistent(a)
  BY <1>1, <1>2, <1>3 DEF Consistent
<1>5. CASE call[c].tab = None
  <2>1. call' = [call EXCEPT ![c] = Idle] /\ call[c].goal \notin AppPage
    BY <1>1, <1>5, SessionAssumption DEF Answer, Put, Consistent
  <2> QED
    BY <1>1, <2>1, IdleConsistent, PutKeeps
<1>6. CASE call[c].tab # None
  <2>1. call' = [call EXCEPT ![c] = a]
    BY <1>6 DEF Answer, Put, a
  <2> QED
    BY <1>1, <1>3, <1>4, <2>1, PutKeeps
<1> QED
  BY <1>5, <1>6

----------------------------------------------------------------------------
(* The API answers, and forgets no tab that waits.                          *)

\* A call that goes on without an answer.
LEMMA GoesOnKeeps ==
  ASSUME IInv, \A d \in Call : Consistent(call[d]), NEW c \in Call, NEW j, call' = [call EXCEPT ![c] = j], NEW t,
         j.kind = call[c].kind, j.tab = call[c].tab, j.goal = call[c].goal,
         j.stage \notin {"idle", "answered"}
  PROVE  Keeps(call, call', t)
<1>1. call \in [Call -> CallType] /\ Consistent(call[c])
  BY CallFields
<1>2. Consistent(j)
  BY <1>1 DEF Consistent
<1> QED
  BY <1>1, <1>2, PutKeeps

LEMMA LoginKeeps ==
  ASSUME IInv, \A d \in Call : Consistent(call[d]), NEW c \in Call, NEW t,
         FindAccount(c) \/ AskRole(c) \/ HaveRoles(c) \/ UpsertUser(c)
  PROVE  Keeps(call, call', t)
<1> DEFINE k == call[c]
<1>1. k \in CallType
  BY CallFields
<1>2. CASE FindAccount(c)
  <2> DEFINE j == [k EXCEPT !.since = now, !.stage = IF k.user = LocalAdmin THEN "resolved" ELSE "resolving",
                            !.roles = IF k.user = LocalAdmin THEN LocalRoles ELSE {"requester"}]
  <2>1. call' = [call EXCEPT ![c] = j]
    BY <1>2 DEF FindAccount, Put
  <2>2. j.kind = k.kind /\ j.tab = k.tab /\ j.goal = k.goal /\ j.stage \in {"resolved", "resolving"}
    BY <1>1 DEF CallType
  <2> HIDE DEF j
  <2> QED
    BY <2>1, <2>2, GoesOnKeeps
<1>3. CASE AskRole(c)
  <2> DEFINE r == RolesToAsk[k.asked + 1]
             j == [k EXCEPT !.asked = @ + 1, !.roles = IF MemberOfAny(k.user, r) THEN @ \cup {r} ELSE @]
  <2>1. call' = [call EXCEPT ![c] = j] /\ k.stage = "resolving"
    BY <1>3 DEF AskRole, Put
  <2>2. j.kind = k.kind /\ j.tab = k.tab /\ j.goal = k.goal /\ j.stage = k.stage
    BY <1>1 DEF CallType
  <2> HIDE DEF j
  <2> QED
    BY <2>1, <2>2, GoesOnKeeps
<1>4. CASE HaveRoles(c)
  <2>1. CASE Answer(c, 400, None, None)
    BY <2>1, AnswerKeeps
  <2>2. CASE call' = [call EXCEPT ![c] = [k EXCEPT !.stage = "resolved"]]
    <3>1. /\ [k EXCEPT !.stage = "resolved"].kind = k.kind /\ [k EXCEPT !.stage = "resolved"].tab = k.tab
          /\ [k EXCEPT !.stage = "resolved"].goal = k.goal /\ [k EXCEPT !.stage = "resolved"].stage = "resolved"
      BY <1>1 DEF CallType
    <3> QED
      BY <2>2, <3>1, GoesOnKeeps
  <2> QED
    BY <1>4, <2>1, <2>2 DEF HaveRoles, Put
<1>5. CASE UpsertUser(c)
  <2>1. CASE k.kind = "name"
    <3>1. Answer(c, 200, None, None)
      BY <1>5, <2>1 DEF UpsertUser
    <3> QED
      BY <2>1, <3>1, AnswerKeeps
  <2>2. CASE k.kind # "name"
    <3> DEFINE j == [k EXCEPT !.stage = "written", !.at = now]
    <3>1. call' = [call EXCEPT ![c] = j]
      BY <1>5, <2>2 DEF UpsertUser, Put
    <3>2. j.kind = k.kind /\ j.tab = k.tab /\ j.goal = k.goal /\ j.stage = "written"
      BY <1>1 DEF CallType
    <3> HIDE DEF j
    <3> QED
      BY <3>1, <3>2, GoesOnKeeps
  <2> QED
    BY <2>1, <2>2
<1> QED
  BY <1>2, <1>3, <1>4, <1>5

\* The token that a login issues and the profile it tells are its user's.
LEMMA IssueKeeps ==
  ASSUME IInv, \A d \in Call : Consistent(call[d]), NEW c \in Call, NEW t, IssueToken(c)
  PROVE  Keeps(call, call', t)
<1> DEFINE k == call[c]
           token == [sub |-> k.user, exp |-> now + Ttl, wrote |-> k.at]
           view == Profile(k.user, users[k.user].roles)
<1>1. k \in CallType /\ CallOk(k, users, held, now) /\ now \in Nat
  BY ClocksAreNumbers DEF IInv, CallsOk
<1>2. k.kind = "login" /\ k.user \in User /\ k.at \in Nat /\ users[k.user] \in Row
  BY <1>1 DEF IssueToken, CallOk, Resolves, CallType, IInv, RowsOk
<1>3. token \in Token /\ view \in View /\ view.id = token.sub
  BY <1>1, <1>2, SessionAssumption DEF Token, View, Profile, Row
<1>4. token # None /\ view # None
  BY <1>3, NoneAssumption DEF Token, View
<1>5. Answer(c, 200, token, view)
  BY DEF IssueToken
<1> HIDE DEF token, view
<1> QED
  BY <1>2, <1>3, <1>4, <1>5, AnswerKeeps DEF Own

\* A call is served for the user whom its token names.
LEMMA ServeKeeps ==
  ASSUME IInv, \A d \in Call : Consistent(call[d]), NEW c \in Call, NEW t, Serve(c)
  PROVE  Keeps(call, call', t)
<1> DEFINE k == call[c]
           caller == Caller(k.token)
           served == [k EXCEPT !.roles = caller.roles, !.since = caller.since, !.at = now, !.rows = caller.at]
           view == Profile(k.token.sub, caller.roles)
<1>1. k \in CallType /\ CallOk(k, users, held, now) /\ now \in Nat /\ Consistent(k) /\ call \in [Call -> CallType]
  BY ClocksAreNumbers, CallFields DEF IInv, CallsOk
<1>2. k.kind \in {"me", "api"} /\ k.stage = "sent"
  BY DEF Serve
<1>3. CASE caller = None \/ ~Permits(caller.roles, k.needs)
  <2>1. PICK s \in {401, 403} : call' = [call EXCEPT ![c] = Answered(k, s, None, None)]
    <3>1. call' = [call EXCEPT ![c] = CASE caller = None -> Answered(k, 401, None, None)
                                        [] caller # None /\ ~Permits(caller.roles, k.needs) -> Answered(k, 403, None, None)
                                        [] OTHER -> Answered(served, 200, None, view)]
      BY DEF Serve, Put
    <3>2. caller = None => call' = [call EXCEPT ![c] = Answered(k, 401, None, None)]
      <4> HIDE DEF caller, served, view
      <4> QED
        BY <3>1
    <3>3. caller # None => call' = [call EXCEPT ![c] = Answered(k, 403, None, None)]
      <4> HIDE DEF caller, served, view
      <4> QED
        BY <1>3, <3>1
    <3> QED
      BY <3>2, <3>3
  <2> DEFINE a == Answered(k, s, None, None)
  <2>2. s \in Nat /\ s # 200 /\ k \in CallType
    BY <1>1
  <2>3. a.stage = "answered" /\ a.answer = [status |-> s, token |-> None, user |-> None] /\ a.kind = k.kind
    BY <2>2, AnsweredType
  <2>4. a.goal = k.goal /\ a.tab = k.tab
    BY <1>1 DEF Answered, CallType
  <2>5. call' = [call EXCEPT ![c] = a]
    BY <2>1
  <2> HIDE DEF a
  <2>6. Consistent(a)
    BY <1>1, <1>2, <2>2, <2>3, <2>4 DEF Consistent
  <2> QED
    BY <1>1, <2>4, <2>5, <2>6, PutKeeps
<1>4. CASE caller # None /\ Permits(caller.roles, k.needs)
  <2>1. k.token \in Token /\ k.token.sub \in User /\ caller = users[k.token.sub] /\ caller \in Row
    BY <1>1, <1>4 DEF Caller, Valid, CallOk, TokenIn, Token, IInv, RowsOk
  <2>2. served \in CallType /\ served.kind = k.kind /\ served.token = k.token /\ served.tab = k.tab /\ served.goal = k.goal
    BY <1>1, <2>1 DEF CallType, Row
  <2>3. view \in View /\ view.id = k.token.sub
    BY <2>1 DEF Profile, View, Row
  <2>4. k.token # None /\ view # None /\ Own(k.token, view)
    BY <2>1, <2>3, NoneAssumption DEF Token, View, Own
  <2>5. call' = [call EXCEPT ![c] = Answered(served, 200, None, view)]
    BY <1>4 DEF Serve, Put
  <2> DEFINE a == Answered(served, 200, None, view)
  <2> HIDE DEF served, view, caller
  <2>6. a.stage = "answered" /\ a.answer = [status |-> 200, token |-> None, user |-> view] /\ a.kind = k.kind /\ a.token = k.token
    <3>1. view \in View \cup {None} /\ None \in Token \cup {None} /\ 200 \in Nat
      BY <2>3
    <3> QED
      BY <2>2, <3>1, AnsweredType
  <2>7. a.goal = k.goal /\ a.tab = k.tab
    BY <2>2 DEF Answered, CallType
  <2>8. call' = [call EXCEPT ![c] = a]
    BY <2>5
  <2> HIDE DEF a
  <2>9. Consistent(a)
    BY <1>1, <1>2, <2>4, <2>6, <2>7 DEF Consistent
  <2> QED
    BY <1>1, <2>7, <2>8, <2>9, PutKeeps
<1> QED
  BY <1>3, <1>4

LEMMA ApiKeeps ==
  ASSUME TabInv, ApiNext, NEW t
  PROVE  Keeps(call, call', t)
<1>0. IInv /\ (\A d \in Call : Consistent(call[d])) /\ scenario.calls \subseteq Call /\ call \in [Call -> CallType]
  BY ClocksAreNumbers DEF TabInv, IInv, CallsOk
<1>1. CASE Tick \/ ChangeGroups
  BY <1>0, <1>1 DEF Tick, ChangeGroups, Keeps
<1>2. ASSUME NEW c \in scenario.calls, NameApprover(c) PROVE Keeps(call, call', t)
  <2>1. PICK u \in scenario.named : call' = [call EXCEPT ![c] = Requested("name", None, u, None, None, None)]
    BY <1>2 DEF NameApprover, Put
  <2>2. Consistent(Requested("name", None, u, None, None, None))
    BY RequestedConsistent, NoneAssumption DEF Page
  <2>3. call[c].goal \notin AppPage
    BY <1>0, <1>2 DEF NameApprover, InFlight, Consistent
  <2> QED
    BY <1>0, <2>1, <2>2, <2>3, PutKeeps
<1>3. ASSUME NEW c \in scenario.calls, FailCall(c) PROVE Keeps(call, call', t)
  <2>1. PICK s \in {401, 500} : Answer(c, s, None, None)
    BY <1>3 DEF FailCall
  <2>2. s \in Nat /\ s # 200 /\ c \in Call /\ None \in Token \cup {None} /\ None \in View \cup {None}
    BY <1>0
  <2> QED
    BY <1>0, <2>1, <2>2, AnswerKeeps
<1> QED
  BY <1>0, <1>1, <1>2, <1>3, LoginKeeps, IssueKeeps, ServeKeeps DEF ApiNext

----------------------------------------------------------------------------
(* The tabs.                                                                *)

\* PageSuitsUser of one tab, given whether it is leaving its page.
Suits(s, leaving, behind) ==
  s.page \in AppPage =>
    /\ s.token # None /\ s.user # None
    /\ s.page = "settings" => leaving \/ behind \/ CanAccess(s.user.roles, "settings")

StorageOwn ==
  /\ storage.token = None <=> storage.user = None
  /\ Own(storage.token, storage.user)

LEMMA Parts ==
  /\ SessionIsOneUsers <=> (~stale => StorageOwn /\ \A t \in Tab : Own(tab[t].token, tab[t].user))
  /\ PageSuitsUser <=> (~stale => \A t \in Tab : Suits(tab[t], Leaving(t), superseded))
<1>1. SessionIsOneUsers <=> (~stale => StorageOwn /\ \A t \in Tab : Own(tab[t].token, tab[t].user))
  BY Zenon DEF SessionIsOneUsers, StorageOwn, Own
<1>2. PageSuitsUser <=> (~stale => \A t \in Tab : Suits(tab[t], Leaving(t), superseded))
  BY Zenon DEF PageSuitsUser, Suits
<1> QED
  BY <1>1, <1>2

\* A step that puts e in the place of tab t.
LEMMA TabStep ==
  ASSUME TabInv, IInv', NEW t, NEW e, tab' = [tab EXCEPT ![t] = e], Keeps(call, call', t),
         stale => stale', superseded => superseded',
         ~stale' => StorageOwn',
         ~stale' /\ t \in Tab => Own(e.token, e.user) /\ Suits(e, Leaving(t)', superseded')
  PROVE  TabInv'
<1>1. tab \in [Tab -> TabType]
  BY DEF TabInv, IInv, Tabs
<1>2. \A u \in Tab \ {t} : tab'[u] = tab[u] /\ (Leaving(u) => Leaving(u)')
  BY <1>1 DEF Leaving, Keeps
<1>3. t \in Tab => tab'[t] = e
  BY <1>1
<1>4. SessionIsOneUsers'
  <2>1. ~stale' => StorageOwn' /\ \A u \in Tab : Own(tab'[u].token, tab'[u].user)
    BY <1>2, <1>3, Parts DEF TabInv
  <2> QED
    BY <2>1 DEF SessionIsOneUsers, StorageOwn, Own
<1>5. PageSuitsUser'
  <2>1. ~stale' => \A u \in Tab : Suits(tab'[u], Leaving(u)', superseded')
    BY <1>2, <1>3, Parts DEF TabInv, Suits
  <2> QED
    BY <2>1 DEF PageSuitsUser, Suits
<1>6. \A c \in Call : Consistent(call[c])'
  BY DEF Keeps, Consistent
<1> QED
  BY <1>4, <1>5, <1>6 DEF TabInv

\* Where no tab changes, each goes on waiting.
LEMMA CallsStep ==
  ASSUME TabInv, IInv', UNCHANGED webVars, \A t : Keeps(call, call', t)
  PROVE  TabInv'
<1>1. \A c \in Call : Consistent(call'[c])
  BY DEF Keeps
<1>2. \A u \in Tab : Leaving(u) => Leaving(u)'
  <2> SUFFICES ASSUME NEW u \in Tab, Leaving(u) PROVE Leaving(u)'
    OBVIOUS
  <2>1. PICK c \in Call : call[c].tab = u /\ call[c].goal \in AppPage
    BY DEF Leaving
  <2>2. None # u /\ Keeps(call, call', None)
    BY SessionAssumption
  <2> QED
    BY <2>1, <2>2 DEF Leaving, Keeps
<1>3. SessionIsOneUsers'
  BY DEF TabInv, SessionIsOneUsers, webVars
<1>4. PageSuitsUser'
  BY <1>2 DEF TabInv, PageSuitsUser, webVars
<1> QED
  BY <1>1, <1>3, <1>4 DEF TabInv, Consistent

LEMMA EnteredSuits ==
  ASSUME NEW s \in TabType, NEW page \in AppPage, NEW leaving, NEW behind
  PROVE  Suits([s EXCEPT !.page = Entered(s, page)], leaving, behind)
<1>1. /\ [s EXCEPT !.page = Entered(s, page)].page = Entered(s, page)
      /\ [s EXCEPT !.page = Entered(s, page)].token = s.token
      /\ [s EXCEPT !.page = Entered(s, page)].user = s.user
  BY DEF TabType
<1> QED
  BY <1>1 DEF Suits, Entered, CanAccess, AppPage

\* A tab that goes to a page shows it at once, or waits for it.
LEMMA NavigatedStep ==
  ASSUME TabInv, IInv', NEW t \in Tab, NEW s \in TabType, NEW page \in AppPage, NEW calls,
         Keeps(call, calls, t), calls \in [Call -> CallType], Navigated(t, s, page, calls),
         UNCHANGED <<storage, stale, superseded>>, scenario.calls \subseteq Call,
         ~stale => Own(s.token, s.user),
         ~stale => (s.page \in AppPage => s.token # None /\ s.user # None)
  PROVE  TabInv'
<1>0. ~stale' => StorageOwn'
  BY Parts DEF TabInv, StorageOwn
<1>1. CASE Known(s)
  <2> DEFINE e == [s EXCEPT !.page = Entered(s, page)]
  <2>1. tab' = [tab EXCEPT ![t] = e] /\ call' = calls
    BY <1>1 DEF Navigated
  <2>2. e.token = s.token /\ e.user = s.user
    BY DEF TabType
  <2>3. Suits(e, Leaving(t)', superseded')
    BY EnteredSuits
  <2> HIDE DEF e
  <2> QED
    BY <1>0, <2>1, <2>2, <2>3, TabStep
<1>2. CASE ~Known(s)
  <2>1. tab' = [tab EXCEPT ![t] = s]
    BY <1>2 DEF Navigated
  <2> DEFINE k == Requested("me", t, None, s.token, page, None)
  <2>2. PICK c \in scenario.calls : calls[c].stage = "idle" /\ call' = [calls EXCEPT ![c] = k]
    BY <1>2 DEF Navigated
  <2>3. Consistent(k) /\ k.tab = t /\ k.goal = page
    BY RequestedConsistent DEF Requested, Idle
  <2> HIDE DEF k
  <2>4. Keeps(call, call', t)
    BY <2>2, <2>3 DEF Keeps, Consistent
  <2>5. Leaving(t)'
    BY <2>2, <2>3 DEF Leaving
  <2> QED
    BY <1>0, <2>1, <2>4, <2>5, TabStep DEF Suits
<1> QED
  BY <1>1, <1>2

----------------------------------------------------------------------------
(* One lemma for each thing that happens in the browser.                    *)

LEMMA Given ==
  ASSUME TabInv
  PROVE  /\ IInv /\ (\A d \in Call : Consistent(call[d])) /\ call \in [Call -> CallType]
         /\ scenario.calls \subseteq Call /\ scenario.tabs \subseteq Tab
         /\ tab \in [Tab -> TabType] /\ storage.token \in Token \cup {None} /\ storage.user \in View \cup {None}
         /\ ~stale => StorageOwn /\ \A t \in Tab : Own(tab[t].token, tab[t].user) /\ Suits(tab[t], Leaving(t), superseded)
  BY ClocksAreNumbers, Parts DEF TabInv, IInv, CallsOk, Tabs

LEMMA OpenTab ==
  ASSUME TabInv, NEW t \in scenario.tabs, Open(t) PROVE TabInv'
<1> DEFINE s == [Closed EXCEPT !.page = "opening", !.token = storage.token, !.user = storage.user]
<1>1. t \in Tab /\ IInv' /\ scenario.calls \subseteq Call
  BY Given, OpenStep
<1>2. s \in TabType
  <2>1. "opening" \in Page
    BY DEF Page
  <2> QED
    BY <2>1, OpenedOk, Given
<1>3. s.token = storage.token /\ s.user = storage.user /\ s.page = "opening"
  BY DEF Closed
<1>4. PICK page \in AppPage : Navigated(t, s, page, Abandoned(t))
  BY DEF Open
<1>5. Keeps(call, Abandoned(t), t) /\ Abandoned(t) \in [Call -> CallType]
  BY Given, AbandonedKeeps
<1>6. UNCHANGED <<storage, stale, superseded>>
  BY DEF Open
<1> HIDE DEF s
<1> QED
  BY <1>1, <1>2, <1>3, <1>4, <1>5, <1>6, Given, NavigatedStep DEF StorageOwn, AppPage

LEMMA OpenLoginTab ==
  ASSUME TabInv, NEW t \in scenario.tabs, OpenLogin(t) PROVE TabInv'
<1> DEFINE s == [Closed EXCEPT !.page = "login", !.token = storage.token, !.user = storage.user]
           k == Requested("me", t, None, s.token, "login", None)
<1>1. t \in Tab /\ IInv'
  BY Given, OpenLoginStep
<1>2. s.token = storage.token /\ s.user = storage.user /\ s.page = "login"
  BY DEF Closed
<1>3. tab' = [tab EXCEPT ![t] = s] /\ UNCHANGED <<storage, stale, superseded>>
  BY DEF OpenLogin
<1>4. Keeps(call, Abandoned(t), t)
  BY Given, AbandonedKeeps
<1>5. Keeps(call, call', t)
  <2>1. CASE call' = Abandoned(t)
    BY <1>4, <2>1
  <2>2. CASE \E c \in Free : call' = [Abandoned(t) EXCEPT ![c] = k]
    <3>1. PICK c \in Free : call' = [Abandoned(t) EXCEPT ![c] = k]
      BY <2>2
    <3>2. c \in Call /\ call[c].goal \notin AppPage
      BY <3>1, Given DEF Free, InFlight, Consistent
    <3>3. Consistent(k)
      BY RequestedConsistent DEF AppPage
    <3> HIDE DEF k
    <3> QED
      BY <1>4, <3>1, <3>2, <3>3, Given DEF Keeps, Abandoned
  <2> QED
    BY <2>1, <2>2 DEF OpenLogin
<1> HIDE DEF s
<1> QED
  BY <1>1, <1>2, <1>3, <1>5, Given, TabStep DEF StorageOwn, Suits, AppPage

LEMMA NavigateTab ==
  ASSUME TabInv, NEW t \in scenario.tabs, Navigate(t) PROVE TabInv'
<1>1. t \in Tab /\ IInv' /\ scenario.calls \subseteq Call /\ tab[t] \in TabType
  BY Given, NavigateStep
<1>2. PICK page \in AppPage : Navigated(t, tab[t], page, Superseded(t))
  BY DEF Navigate
<1>3. Keeps(call, Superseded(t), t) /\ Superseded(t) \in [Call -> CallType]
  BY Given, SupersededKeeps
<1>4. UNCHANGED <<storage, stale, superseded>>
  BY DEF Navigate
<1> QED
  BY <1>1, <1>2, <1>3, <1>4, Given, NavigatedStep DEF Suits

\* A call that a page puts in a free slot.
LEMMA CallMade ==
  ASSUME TabInv, IInv', NEW c \in Free, NEW k, Consistent(k), call' = [call EXCEPT ![c] = k], UNCHANGED webVars
  PROVE  TabInv'
<1>1. c \in Call /\ call[c].goal \notin AppPage
  BY Given DEF Free, InFlight, Consistent
<1>2. \A t : Keeps(call, call', t)
  BY <1>1, Given, PutKeeps
<1> QED
  BY <1>2, CallsStep

LEMMA SignInTab ==
  ASSUME TabInv, NEW t \in scenario.tabs, SignIn(t) PROVE TabInv'
<1>1. PICK c \in Free, u \in scenario.who : call' = [call EXCEPT ![c] = Requested("login", t, u, None, None, None)]
  BY DEF SignIn, Put
<1>2. Consistent(Requested("login", t, u, None, None, None))
  BY RequestedConsistent, NoneAssumption DEF Page
<1>3. IInv' /\ UNCHANGED webVars
  BY Given, SignInStep DEF SignIn
<1> QED
  BY <1>1, <1>2, <1>3, CallMade

LEMMA AskTab ==
  ASSUME TabInv, NEW t \in scenario.tabs, Ask(t) PROVE TabInv'
<1> DEFINE needs == IF tab[t].page = "settings" THEN "administrator" ELSE None
<1>1. PICK c \in Free : call' = [call EXCEPT ![c] = Requested("api", t, None, tab[t].token, None, needs)]
  BY DEF Ask, Put
<1>2. Consistent(Requested("api", t, None, tab[t].token, None, needs))
  BY RequestedConsistent, NoneAssumption DEF Page
<1>3. IInv' /\ UNCHANGED webVars
  BY Given, AskStep DEF Ask
<1> HIDE DEF needs
<1> QED
  BY <1>1, <1>2, <1>3, CallMade

\* Signing out leaves no session, in the tab or in the storage.
LEMMA LoggedOutStep ==
  ASSUME TabInv, IInv', NEW t, tab' = [tab EXCEPT ![t] = [LoggedOut(tab[t]) EXCEPT !.page = "login"]],
         storage' = Emptied, Keeps(call, call', t), stale => stale', superseded => superseded'
  PROVE  TabInv'
<1> DEFINE e == [LoggedOut(tab[t]) EXCEPT !.page = "login"]
<1>1. t \in Tab => e.page = "login" /\ e.token = None
  BY Given DEF LoggedOut, TabType
<1>2. StorageOwn'
  BY DEF StorageOwn, Emptied, Own
<1>3. t \in Tab => Own(e.token, e.user) /\ Suits(e, Leaving(t)', superseded')
  BY <1>1 DEF Own, Suits, AppPage
<1> HIDE DEF e
<1>4. tab' = [tab EXCEPT ![t] = e]
  BY DEF e
<1> QED
  BY <1>2, <1>3, <1>4, TabStep

LEMMA SignOutTab ==
  ASSUME TabInv, NEW t \in scenario.tabs, SignOut(t) PROVE TabInv'
<1>1. IInv' /\ Keeps(call, Superseded(t), t) /\ Superseded(t) \in [Call -> CallType]
  BY Given, SignOutStep, SupersededKeeps
<1>2. Keeps(call, call', t)
  BY <1>1, Given, OutdatedKeeps DEF SignOut
<1> QED
  BY <1>1, <1>2, LoggedOutStep DEF SignOut

----------------------------------------------------------------------------
(* ...and for each answer.                                                  *)

LEMMA WithoutKeeps ==
  ASSUME TabInv, NEW c \in Call, NEW t, call[c].goal \in AppPage => call[c].tab = t
  PROVE  Keeps(call, Without(c), t) /\ Without(c) \in [Call -> CallType]
<1>1. Idle \in CallType
  BY IdleOk DEF CallOk
<1> QED
  BY <1>1, Given, IdleConsistent, PutKeeps DEF Without

LEMMA LoginAnsweredTab ==
  ASSUME TabInv, NEW c \in scenario.calls, LoginAnswered(c) PROVE TabInv'
<1>0. PICK t : t = call[c].tab
  OBVIOUS
<1> DEFINE answer == call[c].answer
           s == [SignedIn(tab[t], answer) EXCEPT !.page = "requests"]
<1>1. c \in Call /\ IInv' /\ Consistent(call[c])
  BY Given, LoginAnsweredStep
<1>2. call[c].kind = "login" /\ call[c].stage = "answered" /\ call[c].goal \notin AppPage
  BY <1>1 DEF LoginAnswered, Arrived, Consistent
<1>3. \A u : Keeps(call, Without(c), u) /\ Without(c) \in [Call -> CallType]
  BY <1>1, <1>2, WithoutKeeps
<1>4. CASE answer.status = 200
  <2>1. answer.token # None /\ answer.user # None /\ Own(answer.token, answer.user)
    BY <1>1, <1>2, <1>4 DEF Consistent
  <2>2. /\ tab' = [tab EXCEPT ![t] = s] /\ storage' = [token |-> answer.token, user |-> answer.user]
        /\ call' = Outdated(Without(c)) /\ UNCHANGED <<stale, superseded>>
    BY <1>0, <1>4 DEF LoginAnswered
  <2>3. t \in Tab => s.page = "requests" /\ s.token = answer.token /\ s.user = answer.user
    BY Given DEF SignedIn, TabType
  <2>4. Keeps(call, call', t)
    BY <1>3, <2>2, Given, OutdatedKeeps
  <2>5. StorageOwn'
    BY <2>1, <2>2 DEF StorageOwn
  <2>6. t \in Tab => Own(s.token, s.user) /\ Suits(s, Leaving(t)', superseded')
    BY <2>1, <2>3 DEF Suits
  <2> HIDE DEF s, answer
  <2> QED
    BY <1>1, <2>2, <2>4, <2>5, <2>6, TabStep
<1>5. CASE answer.status # 200
  <2>1. UNCHANGED webVars /\ call' = Without(c)
    BY <1>5 DEF LoginAnswered, webVars
  <2> QED
    BY <1>1, <1>3, <2>1, CallsStep
<1> QED
  BY <1>4, <1>5

LEMMA MeAnsweredTab ==
  ASSUME TabInv, NEW c \in scenario.calls, MeAnswered(c) PROVE TabInv'
<1>0. PICK t : t = call[c].tab
  OBVIOUS
<1> DEFINE answer == call[c].answer
           good == answer.status = 200
           s == Checked(tab[t], answer)
           page == CASE call[c].goal \in AppPage -> Entered(s, call[c].goal)
                     [] call[c].goal = "login" /\ good -> Entered(s, "requests")
                     [] OTHER -> s.page
           e == [s EXCEPT !.page = page]
<1>1. c \in Call /\ IInv' /\ Consistent(call[c]) /\ answer.user \in View \cup {None}
      /\ call[c].goal \in AppPage \cup {"login", None}
  BY Given, MeAnsweredStep, AnswerIn
<1>2. call[c].kind = "me" /\ call[c].stage = "answered"
  BY DEF MeAnswered, Arrived
<1>3. /\ tab' = [tab EXCEPT ![t] = e]
      /\ storage' = IF good THEN [storage EXCEPT !.user = answer.user] ELSE storage
      /\ stale' = (stale \/ (good /\ Stale(c)))
      /\ superseded' = (superseded \/ (good /\ call[c].goal = None))
      /\ call' = Without(c)
  BY <1>0 DEF MeAnswered
<1>4. Keeps(call, call', t)
  BY <1>0, <1>1, <1>3, WithoutKeeps
<1>5. good => call[c].token # None /\ answer.user # None /\ Own(call[c].token, answer.user)
  BY <1>1, <1>2 DEF Consistent
<1>6. good /\ ~stale' => ~stale /\ call[c].token = tab[t].token /\ call[c].token = storage.token
  BY <1>0, <1>3 DEF Stale
<1>7. ~stale' => StorageOwn'
  <2>1. storage \in [token : Token \cup {None}, user : View \cup {None}]
    BY Given DEF IInv, Tabs
  <2> QED
    BY <1>3, <1>5, <1>6, <2>1, Given DEF StorageOwn
<1>8. ASSUME ~stale', t \in Tab PROVE Own(e.token, e.user) /\ Suits(e, Leaving(t)', superseded')
  <2>0. tab[t] \in TabType /\ Own(tab[t].token, tab[t].user) /\ Suits(tab[t], Leaving(t), superseded)
    BY <1>3, <1>8, Given
  <2>1. /\ s \in TabType /\ s.token = tab[t].token /\ s.page = tab[t].page
        /\ s.user = IF good THEN answer.user ELSE tab[t].user
    <3>1. CASE good
      <4>1. s = [tab[t] EXCEPT !.user = answer.user, !.resolved = TRUE]
        BY <3>1 DEF Checked
      <4> HIDE DEF s, answer
      <4> QED
        BY <1>1, <2>0, <3>1, <4>1 DEF TabType
    <3>2. CASE ~good
      BY <2>0, <3>2 DEF Checked
    <3> QED
      BY <3>1, <3>2
  <2>2. e.token = s.token /\ e.user = s.user /\ e.page = page
    BY <2>1 DEF TabType
  <2>3. Own(e.token, e.user)
    BY <1>5, <1>6, <1>8, <2>0, <2>1, <2>2
  <2>4. CASE call[c].goal \in AppPage
    <3>1. e = [s EXCEPT !.page = Entered(s, call[c].goal)]
      <4>1. call[c].goal # "login"
        BY <2>4 DEF AppPage
      <4> HIDE DEF s, good
      <4> QED
        BY <2>4, <4>1
    <3> HIDE DEF e, s
    <3> QED
      BY <2>1, <2>3, <2>4, <3>1, EnteredSuits
  <2>5. CASE call[c].goal = "login" /\ good
    <3>1. "login" \notin AppPage /\ "requests" \in AppPage
      BY DEF AppPage
    <3>2. e = [s EXCEPT !.page = Entered(s, "requests")]
      BY <2>5, <3>1
    <3> HIDE DEF e, s
    <3> QED
      BY <2>1, <2>3, <3>1, <3>2, EnteredSuits
  <2>6. CASE call[c].goal \notin AppPage /\ ~(call[c].goal = "login" /\ good)
    <3>1. e.page = tab[t].page
      BY <2>1, <2>2, <2>6
    <3>2. good => superseded'
      BY <1>1, <1>3, <2>6
    <3>3. Leaving(t) => Leaving(t)'
      BY <1>1, <1>3, <2>6, Given DEF Leaving, Without
    <3>4. e.user = (IF good THEN answer.user ELSE tab[t].user) /\ e.token = tab[t].token
      BY <2>1, <2>2
    <3> HIDE DEF e, s, good, answer
    <3>5. Suits(e, Leaving(t)', superseded')
      BY <1>3, <1>5, <2>0, <3>1, <3>2, <3>3, <3>4 DEF Suits
    <3> QED
      BY <2>3, <3>5
  <2> QED
    BY <2>4, <2>5, <2>6
<1> HIDE DEF e
<1> QED
  BY <1>1, <1>3, <1>4, <1>7, <1>8, TabStep

LEMMA ApiAnsweredTab ==
  ASSUME TabInv, NEW c \in scenario.calls, ApiAnswered(c) PROVE TabInv'
<1>1. c \in Call /\ IInv' /\ Consistent(call[c]) /\ call[c].kind = "api"
  BY Given, ApiAnsweredStep DEF ApiAnswered, Arrived
<1>2. call[c].goal \notin AppPage
  BY <1>1 DEF Consistent
<1>3. CASE call[c].answer.status = 401
  <2>0. PICK t : t = call[c].tab
    OBVIOUS
  <2> DEFINE calls == [Superseded(t) EXCEPT ![c] = Idle]
  <2>1. Keeps(call, Superseded(t), t) /\ Superseded(t) \in [Call -> CallType]
    BY Given, SupersededKeeps
  <2>2. Keeps(call, calls, t) /\ calls \in [Call -> CallType]
    <3>1. Idle \in CallType
      BY IdleOk DEF CallOk
    <3> QED
      BY <1>1, <1>2, <2>1, <3>1, IdleConsistent DEF Keeps
  <2>3. call' = Outdated(calls)
    BY <1>3, <2>0 DEF ApiAnswered
  <2>4. /\ tab' = [tab EXCEPT ![t] = [LoggedOut(tab[t]) EXCEPT !.page = "login"]]
        /\ storage' = Emptied /\ (stale => stale') /\ superseded' = superseded
    BY <1>3, <2>0 DEF ApiAnswered
  <2> HIDE DEF calls
  <2>5. Keeps(call, call', t)
    BY <2>2, <2>3, Given, OutdatedKeeps
  <2> QED
    BY <1>1, <2>4, <2>5, LoggedOutStep
<1>4. CASE call[c].answer.status # 401
  <2>1. UNCHANGED webVars /\ call' = Without(c)
    BY <1>4 DEF ApiAnswered
  <2> QED
    BY <1>1, <1>2, <2>1, WithoutKeeps, CallsStep
<1> QED
  BY <1>3, <1>4

----------------------------------------------------------------------------
LEMMA TabInvInit == Init => TabInv
<1> SUFFICES ASSUME Init PROVE TabInv
  OBVIOUS
<1>1. IInv
  BY IInvInit
<1>2. \A c \in Call : Consistent(call[c])
  BY IdleConsistent DEF Init, ApiInit
<1>3. SessionIsOneUsers /\ PageSuitsUser
  BY DEF Init, SessionIsOneUsers, PageSuitsUser, Closed, AppPage
<1> QED
  BY <1>1, <1>2, <1>3 DEF TabInv

LEMMA TabInvNext == TabInv /\ [Next]_vars => TabInv'
<1> SUFFICES ASSUME TabInv, [Next]_vars PROVE TabInv'
  OBVIOUS
<1>1. IInv'
  BY IInvNext DEF TabInv
<1>2. CASE UNCHANGED vars
  <2>1. \A t : Keeps(call, call', t)
    BY <1>2, Given DEF vars, apiVars, Keeps
  <2> QED
    BY <1>1, <1>2, <2>1, CallsStep DEF vars
<1>3. ASSUME ApiNext, UNCHANGED webVars PROVE TabInv'
  BY <1>1, <1>3, ApiKeeps, CallsStep
<1>4. ASSUME NEW t \in scenario.tabs, Open(t) \/ OpenLogin(t) \/ Navigate(t) \/ SignIn(t) \/ Ask(t) \/ SignOut(t)
      PROVE  TabInv'
  BY <1>4, OpenTab, OpenLoginTab, NavigateTab, SignInTab, AskTab, SignOutTab
<1>5. ASSUME NEW c \in scenario.calls, LoginAnswered(c) \/ MeAnswered(c) \/ ApiAnswered(c)
      PROVE  TabInv'
  BY <1>5, LoginAnsweredTab, MeAnsweredTab, ApiAnsweredTab
<1> QED
  BY <1>2, <1>3, <1>4, <1>5 DEF Next

(* Whose token a tab or the storage holds, that user is shown, until an     *)
(* answer for one session is taken in another: however many tabs reload,    *)
(* sign in and out, and in whatever order answers come in.                  *)
THEOREM NoMixedSessions == Spec => []SessionIsOneUsers
<1>1. TabInv => SessionIsOneUsers
  BY DEF TabInv
<1> QED
  BY <1>1, TabInvInit, TabInvNext, PTL DEF Spec

(* Unless such an answer was taken, a page is shown with a session, and the *)
(* administrators' page to whom the tab takes for one, a tab that is        *)
(* leaving it and checks that no navigation waits for aside.                *)
THEOREM NoPageWithoutSession == Spec => []PageSuitsUser
<1>1. TabInv => PageSuitsUser
  BY DEF TabInv
<1> QED
  BY <1>1, TabInvInit, TabInvNext, PTL DEF Spec
=============================================================================
