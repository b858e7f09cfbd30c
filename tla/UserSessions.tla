---------------------------- MODULE UserSessions ----------------------------
(***************************************************************************)
(* Signing in, access tokens and roles in the API (modules/auth,           *)
(* common/auth).                                                           *)
(*                                                                         *)
(* A token names a user and an end, not the roles: those are rows, which a *)
(* login replaces with what the directory's groups say, and which naming   *)
(* the account as approver replaces too.  The groups are asked one after   *)
(* the other and the rows written later, so two resolutions of an account  *)
(* may overlap, and a call is served with whatever rows are there.         *)
(***************************************************************************)
EXTENDS Naturals, Sequences, FiniteSets

CONSTANTS
  Person,      \* accounts in the directory
  LocalAdmin,  \* the configured local account
  Mapped,      \* the roles that AUTH_ROLE_MAP_*_GROUP_DNS give groups to
  Ttl,         \* AUTH_JWT_TTL_SECONDS
  Call,        \* slots for calls to the API
  Tab,         \* browser tabs
  Scenarios,   \* what to explore, as follows
  None

User == Person \cup {LocalAdmin}
Role == {"requester", "approver", "auditor", "administrator"}

\* The fields of a scenario, all of them bounds:
\*   calls    the slots in use
\*   tabs     the tabs that are opened
\*   who      the users who sign in
\*   named    the accounts that somebody names as approver
\*   groups   the memberships to start from
\*   horizon  the clock's last reading
\*   changes  how often a membership changes
\*   faults   how many calls fail
\*   reloads  whether tabs are opened again
ASSUME SessionAssumption ==
  /\ LocalAdmin \notin Person /\ None \notin User \cup Tab \cup Call
  /\ Mapped \subseteq {"approver", "auditor", "administrator"}
  /\ Ttl \in Nat \ {0}
ASSUME ScenariosAssumption == \A s \in Scenarios :
  /\ s.calls \subseteq Call /\ s.tabs \subseteq Tab /\ s.who \subseteq User /\ s.named \subseteq User
  /\ s.groups \in [Person -> SUBSET Mapped]
  /\ s.horizon \in Nat /\ s.changes \in Nat /\ s.faults \in Nat /\ s.reloads \in BOOLEAN

VARIABLES
  scenario,  \* what this behaviour explores; it never changes
  now,       \* the clock of the API
  member,    \* whose groups give whom which roles
  changes,   \* how often that changed
  held,      \* history: who had which role when
  users,     \* system_user with its user_role rows
  call,      \* the calls in flight
  faults     \* how many calls failed

apiVars == <<scenario, now, member, changes, held, users, call, faults>>

NoUser == [roles |-> {}, since |-> 0, at |-> 0]

\* Profile: what the API tells of a user.
Profile(u, roles) == [id |-> u, roles |-> roles]
NoAnswer == [status |-> 0, token |-> None, user |-> None]

\* A free slot.  The fields of a call in flight:
\*   kind, tab, user, token, goal  what for and by whom; tab None: nobody waits
\*   needs                         the role that its route is guarded by
\*   stage                         how far the API is
\*   asked, roles, since           the resolution of the user's roles
\*   at                            when a login wrote the rows, or any other call was served
\*   rows                          when the rows were written that it was served with
\*   late                          history: a session ended or began meanwhile
\*   answer
Idle ==
  [kind |-> None, tab |-> None, user |-> None, token |-> None, goal |-> None, needs |-> None, stage |-> "idle",
   asked |-> 0, roles |-> {}, since |-> 0, at |-> 0, rows |-> 0, late |-> FALSE, answer |-> NoAnswer]

Requested(kind, tab, user, token, goal, needs) ==
  [Idle EXCEPT !.kind = kind, !.tab = tab, !.user = user, !.token = token, !.goal = goal, !.needs = needs, !.stage = "sent"]

InFlight(c) == call[c].stage # "idle"

\* Members at a time, for the history.
Members(groups, time) == [p \in Person |-> {<<r, time>> : r \in groups[p]}]

ApiInit ==
  /\ scenario \in Scenarios
  /\ now = 0
  /\ member = scenario.groups
  /\ changes = 0
  /\ held = Members(scenario.groups, 0)
  /\ users = [u \in User |-> NoUser]
  /\ call = [c \in Call |-> Idle]
  /\ faults = 0

Remember(groups, time) == held' = [p \in Person |-> held[p] \cup Members(groups, time)[p]]

Tick ==
  /\ now < scenario.horizon
  /\ now' = now + 1
  /\ Remember(member, now + 1)
  /\ UNCHANGED <<scenario, member, changes, users, call, faults>>

\* Somebody enters or leaves a group that gives a role.
ChangeGroups ==
  /\ changes < scenario.changes
  /\ changes' = changes + 1
  /\ \E p \in scenario.who \cap Person, r \in Mapped :
       member' = [member EXCEPT ![p] = IF r \in @ THEN @ \ {r} ELSE @ \cup {r}]
  /\ Remember(member', now)
  /\ UNCHANGED <<scenario, now, users, call, faults>>

----------------------------------------------------------------------------
(* Roles and their rows.                                                    *)

\* The order of PRIVILEGED_ROLE_CODES, less the roles without a group.
RolesToAsk == SelectSeq(<<"approver", "auditor", "administrator">>, LAMBDA r : r \in Mapped)
LocalRoles == {"approver", "administrator"}

Put(c, k) == call' = [call EXCEPT ![c] = k]
Answered(k, status, token, user) ==
  [k EXCEPT !.stage = "answered", !.answer = [status |-> status, token |-> token, user |-> user]]

\* The answer, or a free slot when nobody waits for it.
Answer(c, status, token, user) ==
  Put(c, IF call[c].tab = None THEN Idle ELSE Answered(call[c], status, token, user))

\* Someone submits a request and names its approver.
NameApprover(c) ==
  /\ c \in scenario.calls /\ ~InFlight(c)
  /\ \E u \in scenario.named : Put(c, Requested("name", None, u, None, None, None))
  /\ UNCHANGED <<scenario, now, member, changes, held, users, faults>>

\* login and resolveApproverByUsername, up to the account: the local
\* administrator has fixed roles, anyone else what the directory says.
FindAccount(c) ==
  /\ call[c].stage = "sent" /\ call[c].kind \in {"login", "name"}
  /\ Put(c, [call[c] EXCEPT !.since = now,
                            !.stage = IF call[c].user = LocalAdmin THEN "resolved" ELSE "resolving",
                            !.roles = IF call[c].user = LocalAdmin THEN LocalRoles ELSE {"requester"}])
  /\ UNCHANGED <<scenario, now, member, changes, held, users, faults>>

\* hasRecursiveGroupMembershipForUser, for the groups that give a role.
MemberOfAny(u, r) == r \in member[u]

\* resolveRolesForDirectoryAccount asks for one role after the other.
AskRole(c) ==
  LET k == call[c]
      r == RolesToAsk[k.asked + 1]
  IN
  /\ k.stage = "resolving" /\ k.asked < Len(RolesToAsk)
  /\ Put(c, [k EXCEPT !.asked = @ + 1, !.roles = IF MemberOfAny(k.user, r) THEN @ \cup {r} ELSE @])
  /\ UNCHANGED <<scenario, now, member, changes, held, users, faults>>

\* An approver must have the role; a login goes on with what there is.
HaveRoles(c) ==
  LET k == call[c] IN
  /\ k.stage = "resolving" /\ k.asked = Len(RolesToAsk)
  /\ IF k.kind = "name" /\ "approver" \notin k.roles
     THEN Answer(c, 400, None, None)
     ELSE Put(c, [k EXCEPT !.stage = "resolved"])
  /\ UNCHANGED <<scenario, now, member, changes, held, users, faults>>

\* Mutant: the rows that are there already are kept.
KeptRoles(u, roles) == roles \cup users[u].roles

\* Mutant: the old rows are deleted, and no new ones inserted.
DeletedRoles(u, roles) == {}

\* replaceUserRoles.
ReplacedRoles(u, roles) == roles

\* upsertDirectoryUser, ensureLocalAdministratorUser: one transaction.
UpsertUser(c) ==
  LET k == call[c] IN
  /\ k.stage = "resolved"
  /\ users' = [users EXCEPT ![k.user] = [roles |-> ReplacedRoles(k.user, k.roles), since |-> k.since, at |-> now]]
  /\ IF k.kind = "name" THEN Answer(c, 200, None, None)
     ELSE Put(c, [k EXCEPT !.stage = "written", !.at = now])
  /\ UNCHANGED <<scenario, now, member, changes, held, faults>>

\* The user is read back, and the token issued.  As history a token keeps when
\* its login wrote the rows.
IssueToken(c) ==
  LET k == call[c] IN
  /\ k.stage = "written"
  /\ Answer(c, 200, [sub |-> k.user, exp |-> now + Ttl, wrote |-> k.at], Profile(k.user, users[k.user].roles))
  /\ UNCHANGED <<scenario, now, member, changes, held, users, faults>>

----------------------------------------------------------------------------
(* Calls with a token.                                                      *)

\* verifyToken, for tokens of the API's own.
Valid(token) == token # None /\ token.exp > now

\* getUserFromAccessToken, for AuthMiddleware: the rows of the user whom a token
\* names, or none.
Caller(token) == IF Valid(token) THEN users[token.sub] ELSE None

\* RolesGuard: the route asks for one of its roles, if for any.
Permits(roles, needs) == needs = None \/ needs \in roles

\* A call is served: AuthMiddleware, AuthGuard, RolesGuard, and the answer of GET
\* /auth/me.
Serve(c) ==
  LET k == call[c]
      caller == Caller(k.token)
  IN
  /\ k.stage = "sent" /\ k.kind \in {"me", "api"}
  /\ Put(c, CASE caller = None -> Answered(k, 401, None, None)
              [] caller # None /\ ~Permits(caller.roles, k.needs) -> Answered(k, 403, None, None)
              [] OTHER -> Answered([k EXCEPT !.roles = caller.roles, !.since = caller.since, !.at = now, !.rows = caller.at],
                                   200, None, Profile(k.token.sub, caller.roles)))
  /\ UNCHANGED <<scenario, now, member, changes, held, users, faults>>

\* A call fails: the network, the directory or the database.  AuthMiddleware
\* takes whatever fails while it looks for the user for no user.
FailCall(c) ==
  /\ faults < scenario.faults
  /\ call[c].stage \notin {"idle", "answered"}
  /\ faults' = faults + 1
  /\ \E status \in IF call[c].kind \in {"me", "api"} THEN {401, 500} ELSE {500} :
       Answer(c, status, None, None)
  /\ UNCHANGED <<scenario, now, member, changes, held, users>>

ApiNext ==
  \/ Tick
  \/ ChangeGroups
  \/ \E c \in scenario.calls :
       \/ NameApprover(c) \/ FindAccount(c) \/ AskRole(c) \/ HaveRoles(c) \/ UpsertUser(c)
       \/ IssueToken(c) \/ Serve(c) \/ FailCall(c)

----------------------------------------------------------------------------
\* The roles that a call is served with are not older than its session: the
\* account held each of them after the resolution began that wrote the rows, the
\* rows are not older than the login which the token is from, and the token had
\* not ended.  Resolutions may overlap and be as slow as they like.
RolesEndWithTheToken ==
  \A c \in Call :
    LET k == call[c] IN
    k.stage = "answered" /\ k.kind \in {"me", "api"} /\ k.answer.status = 200 =>
      /\ k.at < k.token.exp /\ k.rows >= k.token.wrote
      /\ k.token.sub \in Person =>
           \A r \in k.roles \ {"requester"} : \E t \in k.since..k.at : <<r, t>> \in held[k.token.sub]
=============================================================================
