------------------------ MODULE MCEventCorrelation ------------------------
(* Requests of every kind about one account and two groups.                 *)
EXTENDS EventCorrelation

CONSTANTS r1, r2, x1, x2, x3, poller, sender

Known(name) == Ref(<<"guid", name>>, <<"sid", name>>, <<"dn", name>>, <<"sam", name>>)
Named(name, cn) ==
  [guid |-> <<"guid", name>>, sid |-> <<"sid", name>>, dn |-> <<"dn", name>>,
   sam |-> <<"sam", name>>, cn |-> <<"sam", cn>>]

\* A common name need not be the account name, and may be another account's.
MCObject == {Named("ann", "Ann"), Named("bob", "ann"), Named("vpn", "vpn")}

Of(kind, target, changes, members) ==
  [kind |-> kind, target |-> target, changes |-> changes, members |-> members,
   password |-> FALSE, enabled |-> FALSE]
Member(op, ref) == [op |-> op, ref |-> ref]
Change(attr, value) == [attr |-> attr, value |-> value]

New == Ref(Absent, Absent, Absent, <<"sam", "ann">>)
\* With a password and a group, and enabled.
Create == [Of("user_create", New, {}, <<Member("add", ByDn(<<"dn", "vpn">>))>>) EXCEPT !.password = TRUE]
CreateInGroup == Of("user_create", New, {}, <<Member("add", Known("vpn"))>>)
CreateEnabled == [Of("user_create", New, {}, <<>>) EXCEPT !.enabled = TRUE]
Edit == Of("account_change", Known("ann"), {Change("displayName", "x")}, <<Member("add", Known("vpn"))>>)
RenameAnn == Of("account_update", Known("ann"), {Change("sAMAccountName", "anna"), Change("mail", "x")}, <<>>)
EnableAnn == Of("account_update", Known("ann"), {Change("enabled", "true")}, <<>>)
MailAnn == Of("account_update", Known("ann"), {Change("mail", "x")}, <<>>)
MailBob == Of("account_update", Known("bob"), {Change("mail", "x")}, <<>>)
Members == Of("group_change", Known("vpn"), {}, <<Member("add", Known("ann")), Member("remove", Known("bob"))>>)
Join == Of("group_membership_add", Known("vpn"), {}, <<Member("add", Known("ann"))>>)

The(name) == CHOOSE o \in MCObject : o.sam = <<"sam", name>>
\* Somebody enables Ann; somebody enables Bob; Ann gives Bob another address;
\* Bob becomes a member of the group; Bob gets the name that Ann was to get.
ByHand == AccountEvent(4722, The("ann"), {})
BobByHand == AccountEvent(4722, The("bob"), {})
BobByAnn == ObjectEvent(5136, The("bob"), {<<"attr", "mail">>}, The("ann").sam)
BobJoins == MembershipEvent("add", The("vpn"), The("bob"), Absent)
BobIsAnna == RenameEvent(The("bob"), <<"sam", "anna">>, Absent)

One(p) == [r \in Request |-> p]
Two(p, q) == [r \in Request |-> IF r = r1 THEN p ELSE q]
Alone == [x \in {x1} |-> r1]
Retried == [x \in {x1, x2} |-> r1]
RetriedTwice == [x \in {x1, x2, x3} |-> r1]
Both == [x \in {x1, x2} |-> IF x = x1 THEN r1 ELSE r2]

Plain(payloads, executions) ==
  [payload |-> payloads, of |-> executions, ingests |-> {poller}, outside |-> {}, actor |-> Absent,
   window |-> 1, horizon |-> 0, overlapping |-> FALSE, faults |-> 0]

\* The account under which the API writes to the directory.
Service == <<"sam", "svc">>

MCScenarios ==
  \* every kind of request, with a retry where it is small enough
  {[Plain(One(p), Retried) EXCEPT !.actor = Service] : p \in {CreateEnabled, Edit, RenameAnn, Members, Join}}
  \cup
  \* overlapping retries: three attempts, and two as time goes by
  {[Plain(One(MailAnn), RetriedTwice) EXCEPT !.overlapping = TRUE, !.window = 0, !.ingests = {}],
   [Plain(One(CreateEnabled), Retried) EXCEPT !.overlapping = TRUE, !.window = 0, !.horizon = 1, !.ingests = {}]}
  \cup
  \* events of somebody else's, also under the name of the account
  {[Plain(One(CreateEnabled), Alone) EXCEPT !.outside = {BobByHand}],
   [Plain(One(MailAnn), Alone) EXCEPT !.outside = {BobByAnn}],
   [Plain(One(CreateInGroup), Alone) EXCEPT !.outside = {BobJoins}],
   [Plain(One(RenameAnn), Alone) EXCEPT !.outside = {BobIsAnna}]}
  \cup
  \* a creation in four steps; time, and an event of somebody else's
  {[Plain(One(Create), Alone) EXCEPT !.actor = Service],
   [Plain(One(EnableAnn), Retried) EXCEPT !.window = 0, !.horizon = 2],
   [Plain(One(EnableAnn), Alone) EXCEPT !.outside = {ByHand}, !.horizon = 2],
   \* two requests, of which one takes the other's event for its own too, as the
   \* API writes under the name of its account
   [Plain(Two(MailAnn, MailBob), Both) EXCEPT !.actor = The("ann").sam],
   \* two ingests of an event and the request's own correlation
   [Plain(One(EnableAnn), Alone) EXCEPT !.ingests = {poller, sender}, !.outside = {ByHand}],
   \* faults
   [Plain(One(EnableAnn), Retried) EXCEPT !.faults = 1, !.horizon = 1]}
=============================================================================
