------------------------- MODULE CorrelationSignals -------------------------
(***************************************************************************)
(* Which signals a request is expected to leave in the Windows security    *)
(* log, which signals an event shows, and whether the two agree            *)
(* (modules/correlation/correlation-signals.utils.ts).                     *)
(*                                                                         *)
(* A value is Absent or names something, as <<what, whose>>: two values    *)
(* are equal when the trimmed, lower-cased strings are.  A DisplayName is  *)
(* left out of references: no membership event carries one.  A signal is a *)
(* tuple.  A payload is                                                    *)
(*   [kind, target, changes, members, password, enabled]                   *)
(* where members are initialGroups, groupChanges, memberChanges or the one *)
(* member of a membership request, each [op, ref]; a completed step of an  *)
(* execution result is                                                     *)
(*   [name, op, label, account, group, attrs, enabled]                     *)
(* where account is the DN in its distinguishedName or memberDn and group  *)
(* the one in its groupDn; an observed_event row is                        *)
(*   [id, type, guid, dn, sam, subject, data]                              *)
(* where data is its winlog event_data.                                    *)
(***************************************************************************)
EXTENDS Naturals, Sequences

Absent == <<>>
Field == {"guid", "sid", "dn", "sam"}
Ref(guid, sid, dn, sam) == [guid |-> guid, sid |-> sid, dn |-> dn, sam |-> sam]
ByDn(dn) == Ref(Absent, Absent, dn, Absent)

\* The first of two readings that is there.
Coalesce(v, w) == IF v # Absent THEN v ELSE w

\* Mutant: two absent fields agree.
MatchesAbsent(l, r) == \E f \in Field : l[f] = r[f]

\* matchesDirectoryRef.
Matches(l, r) == \E f \in Field : l[f] # Absent /\ l[f] = r[f]

\* getDirectoryRefIdentifier.
Identifier(ref) ==
  Coalesce(ref.guid, Coalesce(ref.sid, Coalesce(ref.dn, Coalesce(ref.sam, <<"fallback">>))))

----------------------------------------------------------------------------
(* Event numbers.                                                           *)

GroupAddEvents == {4728, 4732, 4756}
GroupRemoveEvents == {4729, 4733, 4757}
GroupEvents == GroupAddEvents \cup GroupRemoveEvents
AccountAttributeEvents == {4722, 4723, 4724, 4725, 4738, 4781, 5136}
AccountKinds == {"account_change", "account_update"}
MembershipKinds == {"group_membership_add", "group_membership_remove"}

EventType(id) ==
  CASE id \in {4720, 5137} -> "user_create"
    [] id = 4722 -> "account_enable"
    [] id = 4723 -> "password_change"
    [] id = 4724 -> "password_reset"
    [] id = 4725 -> "account_disable"
    [] id = 4781 -> "account_rename"
    [] id \in {4738, 5136} -> "account_update"
    [] id \in GroupAddEvents -> "group_membership_add"
    [] id \in GroupRemoveEvents -> "group_membership_remove"
    [] OTHER -> "other"

\* getExpectedEventIds.
ExpectedEventIds(p) ==
  CASE p.kind = "user_create" ->
         {4720, 5137} \cup (IF p.password THEN {4723, 4724} ELSE {})
           \cup (IF p.enabled THEN {4722, 4738, 5136} ELSE {})
           \cup (IF p.members # <<>> THEN GroupAddEvents ELSE {})
    [] p.kind = "account_change" -> {4722, 4725, 4738, 4781, 5136} \cup GroupEvents
    [] p.kind = "account_update" -> {4722, 4725, 4738, 4781, 5136}
    [] p.kind = "group_change" -> GroupEvents
    [] p.kind = "group_membership_add" -> GroupAddEvents
    [] p.kind = "group_membership_remove" -> GroupRemoveEvents

ExpectsType(p, e) == e.id \in ExpectedEventIds(p) \/ e.type = p.kind

----------------------------------------------------------------------------
(* The signals that a payload plans and those that its execution leaves     *)
(* to expect.                                                               *)

UserCreate == <<"user", "create">>
Enable == <<"account", "enable">>
Disable == <<"account", "disable">>
Rename == <<"account", "rename">>
Password == <<"account", "password">>

\* getGroupSignalKey, getMemberSignalKey.
MemberSignal(m) == <<m.op, Identifier(m.ref)>>

\* toAccountSignalsForRequestedAttribute.
SignalsOfChange(c) ==
  CASE c.attr = "enabled" -> (IF c.value = "true" THEN {Enable} ELSE {Disable})
    [] c.attr = "sAMAccountName" -> {Rename}
    [] OTHER -> {<<"attr", c.attr>>}

MemberSignals(p) == {MemberSignal(p.members[i]) : i \in DOMAIN p.members}

\* A membership request has no signals: one event about it is enough.
PlannedSignals(p) ==
  CASE p.kind = "user_create" ->
         {UserCreate} \cup (IF p.password THEN {Password} ELSE {})
           \cup (IF p.enabled THEN {Enable} ELSE {}) \cup MemberSignals(p)
    [] p.kind \in AccountKinds -> UNION {SignalsOfChange(c) : c \in p.changes} \cup MemberSignals(p)
    [] p.kind = "group_change" -> MemberSignals(p)
    [] OTHER -> {}

\* isGroupStep, isMemberStep.
IsMemberStep(s) == s.name \in {"group", "member"}

\* matchesStepReference: the step's other end of the membership and its label.
StepReference(s) ==
  Ref(Absent, Absent, IF s.name = "group" THEN s.group ELSE s.account, s.label)

MembersOfStep(p, s) ==
  {i \in DOMAIN p.members : p.members[i].op = s.op /\ Matches(StepReference(s), p.members[i].ref)}

\* The steps that getExpectedUserCreateSignals, getExpectedAccountSignals and
\* getExpectedGroupChangeSignals recognise.
Recognised(p, s) ==
  CASE p.kind = "user_create" -> s.name \in {"create-user", "set-password", "set-enabled-state", "group"}
    [] p.kind \in AccountKinds -> \/ s.name = "update-attributes" /\ p.changes # {}
                                  \/ s.name = "group" /\ p.members # <<>>
    [] p.kind = "group_change" -> s.name = "member"
    [] OTHER -> FALSE

\* What a recognised step lets the request expect.
SignalsOfStep(p, s) ==
  CASE s.name = "create-user" -> {UserCreate}
    [] s.name = "set-password" -> {Password}
    [] s.name = "set-enabled-state" -> (IF s.enabled THEN {Enable} ELSE {})
    [] s.name = "update-attributes" ->
         UNION {SignalsOfChange(c) : c \in {d \in p.changes : d.attr \in s.attrs}}
    [] OTHER -> {MemberSignal(p.members[i]) : i \in MembersOfStep(p, s)}

\* Mutant: what was planned stays expected.
ExpectedRegardless(p, steps) == PlannedSignals(p)

\* getExpectedCorrelationSignals.  An execution of which no step completed, or
\* which has not answered yet, leaves everything to expect.
ExpectedSignals(p, steps) ==
  LET recognised == {i \in DOMAIN steps : Recognised(p, steps[i])} IN
  IF recognised = {} THEN PlannedSignals(p)
  ELSE UNION {SignalsOfStep(p, steps[i]) : i \in recognised}

----------------------------------------------------------------------------
(* What an event is about.                                                  *)

\* getEventTargetReference.
EventTarget(e) ==
  Ref(Coalesce(e.guid, e.data.guid), e.data.sid, Coalesce(e.dn, e.data.dn),
      Coalesce(e.sam, Coalesce(e.data.name, Coalesce(e.data.oldName, e.data.newName))))

\* getEventMemberReference.
EventMember(e) ==
  Ref(Absent, e.data.memberSid, e.data.memberDn, Coalesce(e.subject, Coalesce(e.data.memberSam, e.data.memberCn)))

\* getExecutionResolvedTargetReference.
ResolvedDn(p, steps) ==
  LET Dn(s) == IF p.kind \in {"group_change"} \cup MembershipKinds THEN s.group ELSE s.account
      known == {i \in DOMAIN steps : Dn(steps[i]) # Absent}
  IN  IF known = {} THEN Absent ELSE Dn(steps[CHOOSE i \in known : \A j \in known : i <= j])

Renames(p) == {c \in p.changes : c.attr = "sAMAccountName"}

\* Mutant: the DN that the execution resolved is not used.
AboutRequestedTarget(p, e, steps) == Matches(EventTarget(e), p.target)

\* matchesRequestTarget.  A rename is recognised by either of its names.
AboutTarget(p, e, steps) ==
  \/ Matches(EventTarget(e), p.target)
  \/ Matches(EventTarget(e), ByDn(ResolvedDn(p, steps)))
  \/ /\ p.kind \in AccountKinds
     /\ \/ e.data.oldName # Absent /\ e.data.oldName = p.target.sam
        \/ \E c \in Renames(p) : e.data.newName = <<"sam", c.value>>

\* isAccountAttributeEvent.  An event may come with a type and no number.
IsAccountEvent(e) ==
  e.id \in AccountAttributeEvents
    \/ e.type \in {"account_update", "account_enable", "account_disable", "account_rename"}

\* What a 4738 event has fields for.
ShownBy4738 ==
  {<<"attr", a>> : a \in {"displayName", "userPrincipalName", "accountExpires"}}
    \cup {Password, Enable, Disable}

\* getAccountSignalsFromObservedEvent.  data.facts: the changes that the fields
\* of a 4738 event and the attribute of a 5136 event tell, as signals.
AccountSignals(e) ==
  CASE e.id \in {4723, 4724} -> {Password}
    [] e.id = 4738 -> e.data.facts \cap ShownBy4738
    [] e.id = 5136 -> e.data.facts \ {<<"attr", "member">>}
    [] e.type = "account_enable" -> {Enable}
    [] e.type = "account_disable" -> {Disable}
    [] e.type = "account_rename" -> {Rename}
    [] OTHER -> {}

EventOp(e) == IF e.id \in GroupAddEvents THEN "add" ELSE "remove"

\* The entries of the payload that a membership event is about: its group for
\* the requests about an account, its member for those about a group.
Entries(p, e) ==
  LET other == IF p.kind = "group_change" THEN EventMember(e) ELSE EventTarget(e)
  IN  {i \in DOMAIN p.members : p.members[i].op = EventOp(e) /\ Matches(other, p.members[i].ref)}

\* The first of them, as Array.find returns it.
FirstEntrySignal(p, e) ==
  {MemberSignal(p.members[i]) : i \in {j \in Entries(p, e) : \A k \in Entries(p, e) : j <= k}}

\* getDiagnosticSignalsForEvent.
DetectedSignals(p, e, steps) ==
  LET aboutAccount == IF IsAccountEvent(e) /\ AboutTarget(p, e, steps) THEN AccountSignals(e) ELSE {}
      aboutMember == IF e.id \in GroupEvents /\ Matches(EventMember(e), p.target)
                     THEN FirstEntrySignal(p, e) ELSE {}
      created == IF e.id \in {4720, 5137} /\ AboutTarget(p, e, steps) THEN {UserCreate} ELSE {}
  IN  CASE p.kind = "account_change" -> aboutAccount \cup aboutMember
        [] p.kind = "account_update" -> aboutAccount
        [] p.kind = "user_create" -> created \cup aboutAccount \cup (IF e.id \in GroupAddEvents THEN aboutMember ELSE {})
        [] p.kind = "group_change" ->
             IF e.id \in GroupEvents /\ AboutTarget(p, e, <<>>) THEN FirstEntrySignal(p, e) ELSE {}
        [] OTHER ->
             IF e.id \in GroupEvents /\ EventOp(e) = p.members[1].op /\ AboutTarget(p, e, <<>>)
             THEN MemberSignals(p) ELSE {}

\* getCorrelationSignalsForEvent.
SignalsForEvent(p, e, steps) ==
  IF ExpectedSignals(p, steps) = {} THEN {}
  ELSE IF p.kind = "group_change" THEN DetectedSignals(p, e, steps)
  ELSE DetectedSignals(p, e, steps) \cap ExpectedSignals(p, steps)

\* collectMatchedCorrelationSignals.  Grouping 5136 events does not change what
\* all groups together show.
CollectedSignals(p, events, steps) == UNION {SignalsForEvent(p, e, steps) : e \in events}

\* The membership requests: the event's group and its member.
AboutMembership(p, e) ==
  AboutTarget(p, e, <<>>) /\ Matches(EventMember(e), p.members[1].ref)

\* doesObservedEventMatchRequest.
MatchesRequest(p, e, steps) ==
  /\ ExpectsType(p, e)
  /\ IF p.kind \in MembershipKinds THEN AboutMembership(p, e)
     ELSE DetectedSignals(p, e, steps) \cap ExpectedSignals(p, steps) # {}

----------------------------------------------------------------------------
(* Why an event does not match, for the diagnostics of a request.           *)

MembershipReasons(p, e) ==
  (IF AboutTarget(p, e, <<>>) THEN {} ELSE {"target_mismatch"})
    \cup (IF Matches(EventMember(e), p.members[1].ref) THEN {} ELSE {"member_mismatch"})

\* getDiagnosticMismatchReasons.
MismatchReasons(p, e, steps) ==
  LET memberMatches == IF p.kind = "group_change"
                       THEN \E i \in DOMAIN p.members : Matches(EventMember(e), p.members[i].ref)
                       ELSE Matches(EventMember(e), p.target)
      mismatches == (IF e.id \in GroupEvents /\ ~memberMatches THEN {"member_mismatch"} ELSE {})
                      \cup (IF AboutTarget(p, e, steps) THEN {} ELSE {"target_mismatch"})
  IN  IF mismatches # {} THEN mismatches
      ELSE IF DetectedSignals(p, e, steps) = {} THEN {"no_signal_detected"}
      ELSE {"signal_not_expected"}

\* Mutant: the execution's result is not given.
ReasonCodesOfPlan(p, e, steps) ==
  IF ~ExpectsType(p, e) THEN {"event_type_not_expected"}
  ELSE IF MatchesRequest(p, e, <<>>) THEN {"matched"}
  ELSE IF p.kind \in MembershipKinds THEN MembershipReasons(p, e)
  ELSE MismatchReasons(p, e, <<>>)

\* evaluateObservedEventForRequest.
ReasonCodes(p, e, steps) ==
  IF ~ExpectsType(p, e) THEN {"event_type_not_expected"}
  ELSE IF MatchesRequest(p, e, steps) THEN {"matched"}
  ELSE IF p.kind \in MembershipKinds THEN MembershipReasons(p, e)
  ELSE MismatchReasons(p, e, steps)
=============================================================================
