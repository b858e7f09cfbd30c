------------------------- MODULE DirectoryExecution -------------------------
(***************************************************************************)
(* DirectoryWriterService: a change request's payload is carried out as a  *)
(* sequence of LDAP writes, each over a connection of its own and tried a  *)
(* second time when the socket broke, since a broken socket does not tell  *)
(* whether the write was applied.                                          *)
(*                                                                         *)
(* An Operation is one call of execute(): the first attempt of a request   *)
(* or one of its retries.  Operations interleave at every await.  The      *)
(* directory is modelled by what it holds of one account: that the account *)
(* exists, has a password, is enabled, has its new attributes, and its     *)
(* memberships of groups.                                                  *)
(***************************************************************************)
EXTENDS Naturals, Sequences

CONSTANTS
  Operation,   \* calls of execute()
  Request,     \* change requests
  Group,       \* groups that the account may be a member of
  Payload,     \* the payload of each request
  None         \* no request

Kind == {"user_create", "account_change", "group_change", "account_update", "group_membership"}

\* One entry of initialGroups, groupChanges or memberChanges, or the single one
\* of a membership payload.  dn: the entry brings its distinguished name.
Member == [op : {"add", "remove"}, group : Group, dn : BOOLEAN]

\* What the attribute changes of a payload ask for.  Those of 'enabled' and of
\* 'userAccountControl' enable or disable the account.
Change == {"attributes", "enable", "disable"}

PayloadType ==
  [kind : Kind, targetDn : BOOLEAN, password : BOOLEAN, enabled : BOOLEAN,
   changes : SUBSET Change, members : Seq(Member)]

Fact == {"account", "password", "enabled", "attributes"} \cup Group

ASSUME PayloadAssumption == Payload \in [Request -> PayloadType]
ASSUME NoneAssumption == None \notin Request
ASSUME GroupAssumption == Group \cap {"account", "password", "enabled", "attributes"} = {}

VARIABLES
  connection, \* what the LDAP_* settings give: none, one in the open or a protected one
  facts,      \* what the directory holds
  on,         \* the request of each operation
  pc,         \* where each operation is
  at,         \* the step it is at: the steps before it are in raw.steps, completed
  attempt,    \* the attempt of that step; of a failed operation, failedStep.attempts
  partial,    \* raw.partialChangesPossible of the result
  applied,    \* the steps of the operation that the directory applied
  unanswered  \* history: an attempt of the step it is at ended without the server's answer

vars == <<connection, facts, on, pc, at, attempt, partial, applied, unanswered>>

MaxAttempts == 2  \* maxAttempts of runLdapWriteStep

PC == {"idle", "findTarget", "findMember", "write", "executed", "failed"}

Returned == {"executed", "failed"}

\* getRequiredLdapConfig and isPasswordWriteConnectionProtected.
Connection == {"none", "open", "protected"}

----------------------------------------------------------------------------
(* The writes of a payload: what each gives the account and takes from it.  *)
(* lookup: the step's entry has no DN, so its account or group is looked up *)
(* first.                                                                   *)

WriteType ==
  [op : {"create"}, gives : {{"account"}}, takes : {{}}, lookup : {FALSE}]
  \cup [op : {"modify"}, gives : SUBSET {"password", "enabled", "attributes"}, takes : SUBSET {"enabled"},
        lookup : {FALSE}]
  \cup [op : {"add"}, gives : {{g} : g \in Group}, takes : {{}}, lookup : BOOLEAN]
  \cup [op : {"remove"}, gives : {{}}, takes : {{g} : g \in Group}, lookup : BOOLEAN]

Write(op, gives, takes) == [op |-> op, gives |-> gives, takes |-> takes, lookup |-> FALSE]

CreateUser == Write("create", {"account"}, {})
SetPassword == Write("modify", {"password"}, {})
SetEnabled(enabled) ==
  IF enabled THEN Write("modify", {"enabled"}, {}) ELSE Write("modify", {}, {"enabled"})

ModifyMember(op, group) ==
  IF op = "add" THEN Write("add", {group}, {}) ELSE Write("remove", {}, {group})

MemberWrite(m) == [ModifyMember(m.op, m.group) EXCEPT !.lookup = ~m.dn]

MemberWrites(members) == [i \in DOMAIN members |-> MemberWrite(members[i])]

\* Mutant: an account that is there already is taken over.
UserCreateOver(p) == <<SetPassword, SetEnabled(p.enabled)>>

\* Mutant: the account is enabled ahead of its password.
UserCreateEnabledFirst(p) == <<CreateUser, SetEnabled(TRUE), SetPassword>>

\* Groups that come without a DN are skipped.
GroupsOfNewUser(p) ==
  LET Given(m) == m.dn IN SelectSeq(p.members, Given)

UserCreateWrites(p) ==
  LET groups == GroupsOfNewUser(p) IN
  <<CreateUser>>
  \o (IF p.password THEN <<SetPassword>> ELSE <<>>)
  \o <<SetEnabled(p.enabled)>>
  \o [i \in DOMAIN groups |-> ModifyMember("add", groups[i].group)]

\* The changes are one modify, carried out in their order: of two that set the
\* account's state, the last one counts.
AccountUpdateWrites(p) ==
  <<Write("modify",
          (IF "attributes" \in p.changes THEN {"attributes"} ELSE {})
            \cup (IF "enable" \in p.changes THEN {"enabled"} ELSE {}),
          IF "disable" \in p.changes THEN {"enabled"} ELSE {})>>

AccountChangeWrites(p) ==
  (IF p.changes # {} THEN AccountUpdateWrites(p) ELSE <<>>) \o MemberWrites(p.members)

GroupChangeWrites(p) == MemberWrites(p.members)

\* Both names of a membership are looked up ahead of its single write.
GroupMembershipWrites(p) == <<ModifyMember(p.members[1].op, p.members[1].group)>>

Writes(p) ==
  CASE p.kind = "user_create" -> UserCreateWrites(p)
    [] p.kind = "account_change" -> AccountChangeWrites(p)
    [] p.kind = "group_change" -> GroupChangeWrites(p)
    [] p.kind = "account_update" -> AccountUpdateWrites(p)
    [] p.kind = "group_membership" -> GroupMembershipWrites(p)

\* Those are some of the payload's entries.
ASSUME GroupsOfNewUserAssumption == \A r \in Request : GroupsOfNewUser(Payload[r]) \in Seq(Member)

\* A membership payload has its single entry.
ASSUME MembershipAssumption ==
  \A r \in Request : Payload[r].kind = "group_membership" => Len(Payload[r].members) = 1

\* parseChangeRequestPayload lets no payload through that asks for nothing.
ASSUME WritesAssumption == \A r \in Request : Writes(Payload[r]) \in Seq(WriteType) \ {<<>>}

\* The DN that the method needs before its first write.  That of a new user is
\* put together from the payload.
NeedsTarget(p) ==
  CASE p.kind = "user_create" -> FALSE
    [] p.kind = "group_membership" -> ~p.targetDn \/ ~p.members[1].dn
    [] OTHER -> ~p.targetDn

Plan(o) == Writes(Payload[on[o]])

----------------------------------------------------------------------------
(* The directory server.                                                    *)

Accepts(w) ==
  CASE w.op = "create" -> "account" \notin facts
    [] w.op = "add" -> "account" \in facts /\ w.gives \cap facts = {}
    [] w.op = "remove" -> w.takes \subseteq facts
    [] w.op = "modify" -> "account" \in facts

After(w) == (facts \cup w.gives) \ w.takes

Applies(o) ==
  LET w == Plan(o)[at[o]] IN
  /\ Accepts(w)
  /\ facts' = After(w)
  /\ applied' = [applied EXCEPT ![o] = @ \cup {at[o]}]

----------------------------------------------------------------------------
TypeOK ==
  /\ connection \in Connection
  /\ facts \subseteq Fact
  /\ on \in [Operation -> Request \cup {None}]
  /\ pc \in [Operation -> PC]
  /\ at \in [Operation -> Nat \ {0}]
  /\ attempt \in [Operation -> 1..MaxAttempts]
  /\ partial \in [Operation -> BOOLEAN]
  /\ applied \in [Operation -> SUBSET (Nat \ {0})]
  /\ unanswered \in [Operation -> BOOLEAN]
  /\ \A o \in Operation : pc[o] # "idle" => on[o] \in Request

\* The account is in some groups and in use, disabled or without a password yet, or
\* it is not there at all.
Init ==
  /\ connection \in Connection
  /\ \/ facts = {}
     \/ \E groups \in SUBSET Group, state \in {{}, {"password"}, {"password", "enabled"}} :
          facts = {"account"} \cup state \cup groups
  /\ on = [o \in Operation |-> None]
  /\ pc = [o \in Operation |-> "idle"]
  /\ at = [o \in Operation |-> 1]
  /\ attempt = [o \in Operation |-> 1]
  /\ partial = [o \in Operation |-> FALSE]
  /\ applied = [o \in Operation |-> {}]
  /\ unanswered = [o \in Operation |-> FALSE]

Goto(o, label) == pc' = [pc EXCEPT ![o] = label]

\* Where an operation on plan goes for its step k.
Label(plan, k) ==
  IF k > Len(plan) THEN "executed"
  ELSE IF plan[k].lookup THEN "findMember" ELSE "write"

\* Mutant: the completed steps are forgotten.
FailsForgetful(o, socketBroke) ==
  /\ Goto(o, "failed")
  /\ partial' = [partial EXCEPT ![o] = socketBroke]

\* buildLdapFailureResult.
Fails(o, socketBroke) ==
  /\ Goto(o, "failed")
  /\ partial' = [partial EXCEPT ![o] = at[o] > 1 \/ socketBroke]

\* Mutant: the connection is not looked at.
ExecuteUnchecked(o) ==
  \E r \in Request :
    LET p == Payload[r] IN
    /\ pc[o] = "idle"
    /\ on' = [on EXCEPT ![o] = r]
    /\ Goto(o, IF connection = "none" THEN "failed"
               ELSE IF NeedsTarget(p) THEN "findTarget" ELSE Label(Writes(p), 1))
    /\ UNCHANGED <<connection, facts, at, attempt, partial, applied, unanswered>>

\* A password is not sent over a connection that would show it.
PasswordInTheOpen(p) == p.kind = "user_create" /\ p.password /\ connection = "open"

\* execute, up to its first await.  Without LDAP settings it throws.
Execute(o) ==
  \E r \in Request :
    LET p == Payload[r] IN
    /\ pc[o] = "idle"
    /\ on' = [on EXCEPT ![o] = r]
    /\ Goto(o, IF connection = "none" \/ PasswordInTheOpen(p) THEN "failed"
               ELSE IF NeedsTarget(p) THEN "findTarget" ELSE Label(Writes(p), 1))
    /\ UNCHANGED <<connection, facts, at, attempt, partial, applied, unanswered>>

\* A lookup outside the try throws to executeDirectoryRequestSafely, whose result
\* says that nothing was changed.
FindTarget(o) ==
  /\ pc[o] = "findTarget"
  /\ Goto(o, Label(Plan(o), 1)) \/ Goto(o, "failed")
  /\ UNCHANGED <<connection, facts, on, at, attempt, partial, applied, unanswered>>

\* A lookup inside it ends the operation like a write that failed.
FindMember(o) ==
  /\ pc[o] = "findMember"
  /\ \/ Goto(o, "write") /\ UNCHANGED partial
     \/ \E socketBroke \in BOOLEAN : Fails(o, socketBroke)
  /\ UNCHANGED <<connection, facts, on, at, attempt, applied, unanswered>>

\* Mutant: any answer is taken for a success.
CompletesUnread(o) ==
  /\ pc[o] = "write"
  /\ Applies(o) \/ UNCHANGED <<facts, applied>>
  /\ at' = [at EXCEPT ![o] = @ + 1]
  /\ attempt' = [attempt EXCEPT ![o] = 1]
  /\ unanswered' = [unanswered EXCEPT ![o] = FALSE]
  /\ Goto(o, Label(Plan(o), at[o] + 1))
  /\ UNCHANGED <<connection, on, partial>>

\* The write is applied and its answer arrives.
Completes(o) ==
  /\ pc[o] = "write"
  /\ Applies(o)
  /\ at' = [at EXCEPT ![o] = @ + 1]
  /\ attempt' = [attempt EXCEPT ![o] = 1]
  /\ unanswered' = [unanswered EXCEPT ![o] = FALSE]
  /\ Goto(o, Label(Plan(o), at[o] + 1))
  /\ UNCHANGED <<connection, on, partial>>

\* Mutant: a refused write is passed over.
RefusedGoesOn(o) ==
  /\ pc[o] = "write"
  /\ at' = [at EXCEPT ![o] = @ + 1]
  /\ attempt' = [attempt EXCEPT ![o] = 1]
  /\ unanswered' = [unanswered EXCEPT ![o] = FALSE]
  /\ Goto(o, Label(Plan(o), at[o] + 1))
  /\ UNCHANGED <<connection, facts, on, partial, applied>>

\* The server answers the bind or the write with an error, or the connection is not
\* made at all: the write was not carried out.
Refused(o) ==
  /\ pc[o] = "write"
  /\ Fails(o, FALSE)
  /\ UNCHANGED <<connection, facts, on, at, attempt, applied, unanswered>>

\* Mutant: one attempt too many.
SocketBreaksTwice(o) ==
  /\ pc[o] = "write"
  /\ Applies(o) \/ UNCHANGED <<facts, applied>>
  /\ unanswered' = [unanswered EXCEPT ![o] = TRUE]
  /\ \/ /\ attempt[o] <= MaxAttempts
        /\ attempt' = [attempt EXCEPT ![o] = @ + 1]
        /\ UNCHANGED <<pc, partial>>
     \/ /\ attempt[o] > MaxAttempts
        /\ Fails(o, TRUE)
        /\ UNCHANGED attempt
  /\ UNCHANGED <<connection, on, at>>

\* Mutant: a new connection starts the counting of attempts again.
SocketBreaksUncounted(o) ==
  /\ pc[o] = "write"
  /\ Applies(o) \/ UNCHANGED <<facts, applied>>
  /\ unanswered' = [unanswered EXCEPT ![o] = TRUE]
  /\ attempt' = [attempt EXCEPT ![o] = IF @ < MaxAttempts THEN @ + 1 ELSE 1]
  /\ UNCHANGED <<connection, on, pc, partial, at>>

\* The connection is lost with an error that isRetryableLdapSocketError does not
\* know (a timeout, a broken pipe), before or after the directory applied the
\* write: it is taken for a refusal.
ConnectionLost(o) ==
  /\ pc[o] = "write"
  /\ Applies(o) \/ UNCHANGED <<facts, applied>>
  /\ unanswered' = [unanswered EXCEPT ![o] = TRUE]
  /\ Fails(o, FALSE)
  /\ UNCHANGED <<connection, on, at, attempt>>

\* The socket breaks, before or after the directory applied the write.
SocketBreaks(o) ==
  /\ pc[o] = "write"
  /\ Applies(o) \/ UNCHANGED <<facts, applied>>
  /\ unanswered' = [unanswered EXCEPT ![o] = TRUE]
  /\ \/ /\ attempt[o] < MaxAttempts
        /\ attempt' = [attempt EXCEPT ![o] = @ + 1]
        /\ UNCHANGED <<pc, partial>>
     \/ /\ attempt[o] = MaxAttempts
        /\ Fails(o, TRUE)
        /\ UNCHANGED attempt
  /\ UNCHANGED <<connection, on, at>>

Step(o) ==
  \/ FindTarget(o) \/ FindMember(o)
  \/ Completes(o) \/ Refused(o) \/ ConnectionLost(o) \/ SocketBreaks(o)

Next == \E o \in Operation : Execute(o) \/ Step(o)

\* Every awaited LDAP call is answered or its connection breaks.
Fairness == \A o \in Operation : WF_vars(Step(o))

Spec == Init /\ [][Next]_vars /\ Fairness

----------------------------------------------------------------------------
\* The result accounts for what the operation did to the directory: the steps it
\* lists as completed were applied, and nothing was but them and the failed step.
\* A success therefore applied the whole plan.
ResultAccountsForChanges ==
  \A o \in Operation : pc[o] \in Returned =>
    /\ 1..(at[o] - 1) \subseteq applied[o]
    /\ applied[o] \subseteq 1..at[o]
    /\ pc[o] = "executed" => applied[o] = 1..Len(Plan(o))

\* A failure that reports no partial changes changed nothing, if the server answered
\* every attempt of its failed step; and nothing but that step if it did not.
NoPartialChangesIsTrueWhenAnswered ==
  \A o \in Operation : pc[o] = "failed" /\ ~partial[o] =>
    /\ applied[o] \subseteq {1}
    /\ ~unanswered[o] => applied[o] = {}

\* 'partialChangesPossible: false': the failed operation changed nothing.
NoPartialChangesIsTrue ==
  \A o \in Operation : pc[o] = "failed" /\ ~partial[o] => applied[o] = {}

\* 'If the previous attempt made partial AD changes, the next attempt can fail on
\* already-applied steps': a user that one operation created, whether it knows or
\* not, is never completed by another.
CreatedUserIsNotCompletedByRetry ==
  \A o, other \in Operation :
    /\ o # other
    /\ \A x \in {o, other} : pc[x] # "idle" /\ Payload[on[x]].kind = "user_create"
    /\ 1 \in applied[o]
    => pc[other] # "executed"

\* The creation of a user with a password never leaves the account enabled without
\* one, wherever it stops: where an account is enabled without a password, another
\* operation did that, one that was asked to enable it and brought no password.
EnabledWithoutPasswordWasAsked ==
  "enabled" \in facts /\ "password" \notin facts =>
    \E o \in Operation :
      /\ pc[o] # "idle" /\ ~(Payload[on[o]].kind = "user_create" /\ Payload[on[o]].password)
      /\ \E k \in applied[o] : "enabled" \in Plan(o)[k].gives

\* 'Refusing to create the user before password setup to avoid partial AD changes.'
UnprotectedCreatesNothing ==
  \A o \in Operation :
    pc[o] # "idle" /\ PasswordInTheOpen(Payload[on[o]]) => applied[o] = {}

\* Every operation returns a result: attempts are not repeated for ever.
EveryOperationReturns ==
  \A o \in Operation : pc[o] # "idle" ~> pc[o] \in Returned

\* What RequestWorkflow takes the operation to be.
Promise == INSTANCE DirectoryOperation WITH
  Change <- Nat,
  wanted <- [o \in Operation |-> IF pc[o] = "idle" THEN {} ELSE 1..Len(Plan(o))],
  made <- applied,
  phase <- [o \in Operation |-> IF pc[o] \in {"idle"} \cup Returned THEN pc[o] ELSE "running"]

ImplementsOperation == Promise!Spec

=============================================================================
