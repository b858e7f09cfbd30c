----------------------- MODULE EventCorrelationProofs -----------------------
(***************************************************************************)
(* Theorems about EventCorrelation, for any requests, executions, callers  *)
(* of ingestWithResult, windows and payloads: no event falls between the   *)
(* two callers, none is correlated twice without a race, none is           *)
(* correlated out of time or, unless by another's name, with a request     *)
(* about something else, the types are right, and what the diagnostics     *)
(* call matched is correlated or explained.                                *)
(*                                                                         *)
(* There are four invariants.  CorrelationInv does not depend on what      *)
(* makes an event match: the attempts of a request and the signals of its  *)
(* payload stay unexpanded, and all that is used of them is which steps    *)
(* can change them.  TimeInv is about the times of the attempts, as the    *)
(* steps of several executions rewrite them; TypeInv about their steps,    *)
(* which are those of the writer for the payload; AboutInv about the       *)
(* objects that events, payloads and steps name.                           *)
(***************************************************************************)
EXTENDS EventCorrelation, FiniteSetTheorems, SequenceTheorems, WellFoundedInduction, TLAPS

----------------------------------------------------------------------------
(* The invariant.                                                           *)

\* Who is where, and with which event.
Shape ==
  /\ scenario \in Scenarios
  /\ now \in Nat
  /\ faults \in Nat
  /\ status \in [Request -> Status]
  /\ DOMAIN approvedAt = Request /\ DOMAIN row = Request /\ DOMAIN trail = Request
  /\ pc \in [Worker -> PC]
  /\ on \in [Worker -> Nat]
  /\ queue \in [Run -> SUBSET Nat]
  /\ todo \in [Worker -> SUBSET Request]
  /\ found \in [Worker -> SUBSET Request]
  /\ \A w \in Worker : IsFiniteSet(found[w])

\* The log is a sequence, of what has happened by now.
LogOk ==
  /\ happened \in Seq(Range(happened))
  /\ observed \subseteq Entry
  /\ \A i \in Entry : happened[i].time \in Nat /\ happened[i].time <= now

Inserting(w) == pc[w] = "insert"

\* Whoever is about to insert found one request, and for an execution its own.
Inserters ==
  \A w \in Worker : Inserting(w) => \E r \in Request : found[w] = {r} /\ (w \in Run => r = of[w])

\* Unless raced, an event has one row or one worker about to insert it.
OneEach ==
  /\ \A v, w \in Worker : Inserting(v) /\ Inserting(w) /\ on[v] = on[w] => v = w \/ on[v] \in raced
  /\ \A w \in Worker, c \in correlation : Inserting(w) /\ c.event = on[w] => on[w] \in raced
  /\ \A c, d \in correlation : c.event = d.event => c = d \/ c.event \in raced

\* On the way to the search for candidates.
Early == {"begun", "auditStarted", "directory", "auditFinished", "candidates"}

\* An execution of r which has not looked for its candidates yet, or has i among
\* them.
WillLook(x, i) ==
  \/ pc[x] \in Early
  \/ pc[x] \in {"next", "list", "look", "insert"} /\ i \in queue[x]

\* A worker which evaluates i and will come to r, or came to it and found it.
Considers(w, i, r) ==
  /\ on[w] = i
  /\ w \in Run => of[w] = r
  /\ \/ pc[w] = "list"
     \/ pc[w] = "look" /\ r \in todo[w] \cup found[w]
     \/ pc[w] = "insert"

\* Somebody still has to answer for i matching r.
Owed(i, r) ==
  \/ \E x \in Run : of[x] = r /\ WillLook(x, i)
  \/ \E w \in Worker : Considers(w, i, r)

\* Without faults, an event that is observed, matches a request and has no
\* correlation is contested or owed.
NothingForgotten ==
  faults = 0 =>
    \A i \in observed \ contested, r \in Request :
      status[r] \in Correlatable /\ MatchesNow(r, i) /\ RowsOf(i) = {} => Owed(i, r)

CorrelationInv == Shape /\ LogOk /\ Inserters /\ OneEach /\ NothingForgotten

----------------------------------------------------------------------------
(* Lemmas about the log.                                                    *)

LEMMA ShownSetFinite ==
  ASSUME NEW alt, IsFiniteSet(alt), NEW t, NEW r, NEW x, NEW k
  PROVE  IsFiniteSet({[shown |-> e, time |-> t, by |-> r, run |-> x, step |-> k] : e \in alt})
<1> DEFINE T == {[shown |-> e, time |-> t, by |-> r, run |-> x, step |-> k] : e \in alt}
           f == [e \in alt |-> [shown |-> e, time |-> t, by |-> r, run |-> x, step |-> k]]
<1>1. f \in Surjection(alt, T)
  BY DEF Surjection
<1> QED
  BY <1>1, FS_Surjection

LEMMA LoggedFinite ==
  ASSUME NEW p, IsFiniteSet(p.changes), NEW s, NEW alt \in Logged(p, s)
  PROVE  IsFiniteSet(alt)
<1> DEFINE o == Full(p.target)
           A == {ObjectEvent(5136, o, SignalsOfChange(c), actor) : c \in p.changes}
           B == {ChangeEvent(o, c) : c \in p.changes}
<1>1. IsFiniteSet(A)
  <2> DEFINE f == [c \in p.changes |-> ObjectEvent(5136, o, SignalsOfChange(c), actor)]
  <2>1. f \in Surjection(p.changes, A)
    BY DEF Surjection
  <2> QED
    BY <2>1, FS_Surjection
<1>2. IsFiniteSet(B)
  <2> DEFINE f == [c \in p.changes |-> ChangeEvent(o, c)]
  <2>1. f \in Surjection(p.changes, B)
    BY DEF Surjection
  <2> QED
    BY <2>1, FS_Surjection
<1>3. alt = {} \/ alt = A \/ alt = B \/ \E e : alt = {e}
  <2>1. CASE s.name = "create-user"
    BY <2>1 DEF Logged
  <2>2. CASE s.name = "set-password"
    BY <2>2 DEF Logged
  <2>3. CASE s.name = "set-enabled-state"
    BY <2>3 DEF Logged
  <2>4. CASE s.name = "update-attributes"
    BY <2>4 DEF Logged
  <2>5. CASE s.name \notin {"create-user", "set-password", "set-enabled-state", "update-attributes"}
    <3> DEFINE member == CHOOSE q \in Object : q.dn = s.account
               group == CHOOSE q \in Object : q.dn = s.group
    <3>1. Logged(p, s) = {{MembershipEvent(s.op, group, member, lookup)} : lookup \in {Absent, member.sam}}
      BY <2>5 DEF Logged
    <3> HIDE DEF member, group
    <3> QED
      BY <3>1
  <2> QED
    BY <2>1, <2>2, <2>3, <2>4, <2>5
<1> HIDE DEF A, B
<1> QED
  BY <1>1, <1>2, <1>3, FS_EmptySet, FS_Singleton

LEMMA SetToSeqOfFinite ==
  ASSUME NEW S, IsFiniteSet(S)
  PROVE  SetToSeq(S) \in Seq(S)
<1>1. Cardinality(S) \in Nat /\ ExistsBijection(1..Cardinality(S), S)
  BY FS_CardinalityType
<1>2. \E f \in [1..Cardinality(S) -> S] : IsInjective(f)
  BY <1>1 DEF ExistsBijection, Bijection, Injection
<1>3. SetToSeq(S) \in [1..Cardinality(S) -> S]
  BY <1>2 DEF SetToSeq
<1> QED
  BY <1>1, <1>3

\* A log that grows keeps its entries where they are.
Grows(s, longer) ==
  /\ longer \in Seq(Range(longer))
  /\ DOMAIN s \subseteq DOMAIN longer
  /\ \A i \in DOMAIN s : longer[i] = s[i]

LEMMA LogGrows ==
  ASSUME NEW s, s \in Seq(Range(s)), NEW S, NEW t \in Seq(S), NEW longer, longer = s \o t
  PROVE  Grows(s, longer) /\ \A i \in DOMAIN longer \ DOMAIN s : longer[i] \in S
<1>1. /\ s \o t \in Seq(Range(s) \cup S)
      /\ Len(s) \in Nat /\ Len(t) \in Nat /\ DOMAIN s = 1..Len(s) /\ DOMAIN t = 1..Len(t)
      /\ Len(s \o t) = Len(s) + Len(t)
      /\ DOMAIN (s \o t) = 1..(Len(s) + Len(t))
      /\ \A i \in 1..(Len(s) + Len(t)) : (s \o t)[i] = IF i <= Len(s) THEN s[i] ELSE t[i - Len(s)]
  OBVIOUS
<1>2. s \o t \in Seq(Range(s \o t))
  BY <1>1, SeqOfRange
<1>3. \A i \in 1..Len(t) : t[i] \in S
  OBVIOUS
<1>4. \A i \in DOMAIN s : i \in DOMAIN (s \o t) /\ (s \o t)[i] = s[i]
  BY <1>1
<1>5. ASSUME NEW i \in DOMAIN (s \o t) \ DOMAIN s
      PROVE  (s \o t)[i] \in S
  <2>1. i \in 1..(Len(s) + Len(t)) /\ ~(i <= Len(s)) /\ i - Len(s) \in 1..Len(t)
    BY <1>1
  <2> QED
    BY <1>1, <1>3, <2>1
<1> QED
  BY <1>2, <1>4, <1>5 DEF Grows

LEMMA Workers ==
  ASSUME Shape
  PROVE  /\ Run \subseteq Worker /\ \A x \in Run : of[x] \in Request
         /\ Run \cap scenario.ingests = {}
  BY ScenariosAssumption, WorkerAssumption DEF Shape, Worker, Run, of

LEMMA SameWorkers ==
  ASSUME scenario' = scenario
  PROVE  Worker' = Worker /\ Run' = Run /\ of' = of
  BY DEF Worker, Run, of

LEMMA OutsideGrows ==
  ASSUME LogOk, HappensOutside
  PROVE  Grows(happened, happened') /\ \A i \in DOMAIN happened' \ DOMAIN happened : happened'[i].time = now
<1>1. PICK e : happened' = Append(happened, [shown |-> e, time |-> now, by |-> None, run |-> None, step |-> 0])
  BY DEF HappensOutside
<1> DEFINE entry == [shown |-> e, time |-> now, by |-> None, run |-> None, step |-> 0]
<1>2. happened' = happened \o <<entry>> /\ <<entry>> \in Seq({entry}) /\ happened \in Seq(Range(happened))
  BY <1>1 DEF LogOk
<1>3. entry.time = now
  OBVIOUS
<1> HIDE DEF entry
<1>4. Grows(happened, happened \o <<entry>>)
      /\ \A i \in DOMAIN (happened \o <<entry>>) \ DOMAIN happened : (happened \o <<entry>>)[i] \in {entry}
  BY <1>2, LogGrows
<1> QED
  BY <1>2, <1>3, <1>4

LEMMA DirectoryGrows ==
  ASSUME Shape, LogOk, NEW x \in Run, Applied(x)
  PROVE  Grows(happened, happened') /\ \A i \in DOMAIN happened' \ DOMAIN happened : happened'[i].time = now
<1> DEFINE p == payload[of[x]]
           s == Plan(x)[done[x] + 1]
           k == done[x] + 1
           New(alt) == {[shown |-> e, time |-> now, by |-> of[x], run |-> x, step |-> k] : e \in alt}
<1>1. PICK alt \in {{}} \cup Logged(p, s) : happened' = happened \o SetToSeq(New(alt))
  BY DEF Applied
<1>2. IsFiniteSet(New(alt))
  <2>1. IsFiniteSet(p.changes)
    BY Workers, ScenariosAssumption DEF Shape, payload
  <2> HIDE DEF p, s, k
  <2>2. IsFiniteSet(alt)
    BY <2>1, LoggedFinite, FS_EmptySet
  <2> DEFINE f == [e \in alt |-> [shown |-> e, time |-> now, by |-> of[x], run |-> x, step |-> k]]
  <2>3. f \in Surjection(alt, New(alt))
    BY DEF Surjection
  <2> QED
    BY <2>2, <2>3, FS_Surjection
<1> DEFINE t == SetToSeq(New(alt))
<1>3. t \in Seq(New(alt)) /\ happened \in Seq(Range(happened))
  BY <1>2, SetToSeqOfFinite DEF LogOk
<1>4. \A e \in New(alt) : e.time = now
  OBVIOUS
<1>5. happened' = happened \o t
  BY <1>1
<1> HIDE DEF New, t
<1>6. Grows(happened, happened \o t)
      /\ \A i \in DOMAIN (happened \o t) \ DOMAIN happened : (happened \o t)[i] \in New(alt)
  BY <1>3, LogGrows
<1> QED
  BY <1>4, <1>5, <1>6

----------------------------------------------------------------------------
(* Lemmas about matching and about the parts of the invariant.              *)

LEMMA MatchesKept ==
  ASSUME UNCHANGED <<scenario, now>>, NEW r, NEW i,
         approvedAt'[r] = approvedAt[r], row'[r] = row[r], trail'[r] = trail[r], happened'[i] = happened[i]
  PROVE  MatchesNow(r, i)' <=> MatchesNow(r, i)
  BY DEF MatchesNow, AttemptsOf, payload, window

\* Time takes an event out of a window, never into one.
LEMMA MatchesLater ==
  ASSUME Shape, LogOk, Tick, NEW r, NEW i \in Entry, MatchesNow(r, i)'
  PROVE  MatchesNow(r, i)
<1>1. scenario' = scenario /\ happened' = happened /\ AttemptsOf(r)' = AttemptsOf(r) /\ approvedAt' = approvedAt
  BY DEF Tick, AttemptsOf, requestVars, eventVars
<1>2. window \in Nat /\ now \in Nat /\ happened[i].time \in Nat /\ happened[i].time <= now
  BY ScenariosAssumption DEF Shape, LogOk, window
<1>3. PICK a \in Range(Windows(AttemptsOf(r), approvedAt[r])) :
        InWindow(a, happened[i].time, now', window) /\ MatchesRequest(payload[r], happened[i].shown, a.steps)
  BY <1>1 DEF MatchesNow, payload, window
<1>4. InWindow(a, happened[i].time, now, window)
  BY <1>2, <1>3 DEF InWindow
<1> QED
  BY <1>3, <1>4 DEF MatchesNow

\* A step that neither inserts nor lets somebody insert.
LEMMA InsertersKept ==
  ASSUME Inserters, OneEach, UNCHANGED <<scenario, correlation, raced>>,
         \A w \in Worker : Inserting(w)' => Inserting(w) /\ on'[w] = on[w] /\ found'[w] = found[w]
  PROVE  Inserters' /\ OneEach'
<1>1. Worker' = Worker /\ Run' = Run /\ of' = of
  BY DEF Worker, Run, of
<1>2. Inserters'
  BY <1>1 DEF Inserters
<1>3. OneEach'
  BY <1>1 DEF OneEach
<1> QED
  BY <1>2, <1>3

\* A step after which somebody owes what a step before it could answer for.
LEMMA ForgottenKept ==
  ASSUME NothingForgotten, UNCHANGED <<scenario, faults, observed>>,
         contested \subseteq contested', correlation \subseteq correlation',
         \A i \in observed, r \in Request :
           status'[r] \in Correlatable /\ MatchesNow(r, i)' /\ RowsOf(i)' = {} /\ i \notin contested' =>
             \/ Owed(i, r)'
             \/ status[r] \in Correlatable /\ MatchesNow(r, i) /\ (Owed(i, r) => Owed(i, r)')
  PROVE  NothingForgotten'
<1>1. ASSUME NEW i \in observed', i \notin contested', NEW r \in Request, faults' = 0,
             status'[r] \in Correlatable, MatchesNow(r, i)', RowsOf(i)' = {}
      PROVE  Owed(i, r)'
  <2>1. i \in observed \ contested /\ faults = 0 /\ RowsOf(i) = {}
    BY <1>1 DEF RowsOf
  <2> QED
    BY <1>1, <2>1 DEF NothingForgotten
<1> QED
  BY <1>1 DEF NothingForgotten

\* Workers whose place and work did not change owe what they owed.
LEMMA OwedKept ==
  ASSUME scenario' = scenario, NEW i, NEW r, NEW x, Owed(i, r),
         \A w \in Worker \ {x} :
           /\ pc'[w] = pc[w] /\ on'[w] = on[w] /\ todo'[w] = todo[w] /\ found'[w] = found[w]
           /\ w \in Run => queue'[w] = queue[w]
  PROVE  Owed(i, r)' \/ (x \in Run /\ of[x] = r /\ WillLook(x, i)) \/ (x \in Worker /\ Considers(x, i, r))
<1>1. Worker' = Worker /\ Run' = Run /\ of' = of /\ Run \subseteq Worker
  BY DEF Worker, Run, of
<1>2. CASE \E y \in Run : of[y] = r /\ WillLook(y, i)
  BY <1>1, <1>2 DEF Owed, WillLook
<1>3. CASE \E w \in Worker : Considers(w, i, r)
  BY <1>1, <1>3 DEF Owed, Considers
<1> QED
  BY <1>2, <1>3 DEF Owed

\* A step of an execution before it looks for its candidates.
LEMMA EarlyStep ==
  ASSUME Shape, NothingForgotten, Inserters, OneEach, NEW x \in Run,
         UNCHANGED <<scenario, now, observed, correlation, queue, evaluation, history, faults>>,
         pc[x] \in {"idle"} \cup Early, pc'[x] \in Early, \A w \in Worker \ {x} : pc'[w] = pc[w],
         \A r \in Request \ {of[x]} :
           status'[r] = status[r] /\ approvedAt'[r] = approvedAt[r] /\ row'[r] = row[r] /\ trail'[r] = trail[r],
         \A i \in observed : happened'[i] = happened[i]
  PROVE  Inserters' /\ OneEach' /\ NothingForgotten'
<1>1. Worker' = Worker /\ Run' = Run /\ of' = of /\ Run \subseteq Worker
  BY DEF Worker, Run, of
<1>2. Inserters' /\ OneEach'
  <2>1. \A w \in Worker : Inserting(w)' => Inserting(w) /\ on'[w] = on[w] /\ found'[w] = found[w]
    BY DEF Inserting, Early, evaluation
  <2> QED
    BY <2>1, InsertersKept DEF history
<1>3. ASSUME NEW i \in observed, NEW r \in Request, status'[r] \in Correlatable, MatchesNow(r, i)'
      PROVE  \/ Owed(i, r)'
             \/ status[r] \in Correlatable /\ MatchesNow(r, i) /\ (Owed(i, r) => Owed(i, r)')
  <2>1. CASE r = of[x]
    BY <1>1, <2>1 DEF Owed, WillLook
  <2>2. CASE r # of[x]
    <3>1. status[r] \in Correlatable /\ MatchesNow(r, i)
      BY <1>3, <2>2, MatchesKept
    <3>2. ~Considers(x, i, r)
      BY DEF Considers, Early
    <3>3. Owed(i, r) => Owed(i, r)'
      BY <1>1, <2>2, <3>2, OwedKept DEF evaluation
    <3> QED
      BY <3>1, <3>3
  <2> QED
    BY <2>1, <2>2
<1>4. NothingForgotten'
  BY <1>3, ForgottenKept DEF history
<1> QED
  BY <1>2, <1>4

\* A log that grows by what happens now.
LEMMA LogLater ==
  ASSUME LogOk, now \in Nat, UNCHANGED <<now, observed>>, Grows(happened, happened'),
         \A i \in DOMAIN happened' \ DOMAIN happened : happened'[i].time = now
  PROVE  LogOk'
  BY DEF LogOk, Grows, Entry

----------------------------------------------------------------------------
(* Every step keeps the invariant.                                          *)

LEMMA CorrelationInit == Init => CorrelationInv
<1> SUFFICES ASSUME Init PROVE CorrelationInv
  OBVIOUS
<1>1. Shape
  BY FS_EmptySet DEF Init, Shape, Status, PC
<1>2. LogOk
  <2>1. happened = <<>> /\ <<>> \in Seq(Range(<<>>)) /\ observed = {} /\ DOMAIN <<>> = {}
    BY DEF Init
  <2> QED
    BY <2>1 DEF LogOk, Entry
<1>3. Inserters /\ OneEach
  BY DEF Init, Inserters, OneEach, Inserting
<1>4. NothingForgotten
  BY DEF Init, NothingForgotten
<1> QED
  BY <1>1, <1>2, <1>3, <1>4 DEF CorrelationInv

LEMMA TickStep ==
  ASSUME CorrelationInv, Tick
  PROVE  CorrelationInv'
<1> USE DEF CorrelationInv
<1>1. Shape' /\ LogOk'
  BY SameWorkers DEF Tick, Shape, LogOk, Entry, requestVars, eventVars, evaluation, history
<1>2. Inserters' /\ OneEach'
  BY InsertersKept DEF Tick, Inserting, evaluation, history
<1>3. ASSUME NEW i \in observed, NEW r \in Request
      PROVE  (MatchesNow(r, i)' => MatchesNow(r, i)) /\ (Owed(i, r) => Owed(i, r)') /\ status'[r] = status[r]
  <2>1. MatchesNow(r, i)' => MatchesNow(r, i)
    BY MatchesLater DEF LogOk
  <2>2. Owed(i, r) => Owed(i, r)'
    BY DEF Tick, Owed, WillLook, Considers, Run, Worker, of, evaluation
  <2> QED
    BY <2>1, <2>2 DEF Tick, requestVars
<1>4. NothingForgotten'
  BY <1>3, ForgottenKept DEF Tick, eventVars, history
<1> QED
  BY <1>1, <1>2, <1>4

LEMMA HappensOutsideStep ==
  ASSUME CorrelationInv, HappensOutside
  PROVE  CorrelationInv'
<1> USE DEF CorrelationInv
<1>2. /\ Grows(happened, happened')
      /\ \A i \in DOMAIN happened' \ DOMAIN happened : happened'[i].time = now
  BY OutsideGrows
<1>3. LogOk'
  BY <1>2, LogLater DEF HappensOutside, Shape
<1>4. Shape'
  BY SameWorkers DEF HappensOutside, Shape, requestVars, evaluation, history
<1>5. Inserters' /\ OneEach'
  BY InsertersKept DEF HappensOutside, Inserting, evaluation, history
<1>6. ASSUME NEW i \in observed, NEW r \in Request
      PROVE  (MatchesNow(r, i)' => MatchesNow(r, i)) /\ (Owed(i, r) => Owed(i, r)') /\ status'[r] = status[r]
  <2>1. MatchesNow(r, i)' => MatchesNow(r, i)
    BY <1>2, MatchesKept DEF HappensOutside, Grows, LogOk, Entry, requestVars
  <2>2. Owed(i, r) => Owed(i, r)'
    BY DEF HappensOutside, Owed, WillLook, Considers, Run, Worker, of, evaluation
  <2> QED
    BY <2>1, <2>2 DEF HappensOutside, requestVars
<1>7. NothingForgotten'
  BY <1>6, ForgottenKept DEF HappensOutside, history
<1> QED
  BY <1>3, <1>4, <1>5, <1>7

LEMMA ApproveStep ==
  ASSUME CorrelationInv, NEW x \in Run, Approve(x)
  PROVE  CorrelationInv'
<1> USE DEF CorrelationInv
<1>1. Shape' /\ LogOk'
  BY Workers, SameWorkers DEF Approve, Goto, Shape, LogOk, Entry, PC, Status, requestVars, eventVars, evaluation, history
<1>2. Inserters' /\ OneEach' /\ NothingForgotten'
  BY Workers, EarlyStep DEF Approve, Goto, Shape, Early, requestVars, eventVars, evaluation, history
<1> QED
  BY <1>1, <1>2

LEMMA RetryStep ==
  ASSUME CorrelationInv, NEW x \in Run, Retry(x)
  PROVE  CorrelationInv'
<1> USE DEF CorrelationInv
<1>1. Shape' /\ LogOk'
  BY Workers, SameWorkers DEF Retry, Goto, Shape, LogOk, Entry, PC, Status, requestVars, eventVars, evaluation, history
<1>2. Inserters' /\ OneEach' /\ NothingForgotten'
  BY Workers, EarlyStep DEF Retry, Goto, Shape, Early, requestVars, eventVars, evaluation, history
<1> QED
  BY <1>1, <1>2

LEMMA MarkExecutionStartedStep ==
  ASSUME CorrelationInv, NEW x \in Run, MarkExecutionStarted(x)
  PROVE  CorrelationInv'
<1> USE DEF CorrelationInv
<1>1. Shape' /\ LogOk'
  BY Workers, SameWorkers DEF MarkExecutionStarted, Goto, Shape, LogOk, Entry, PC, Status, requestVars, eventVars, evaluation, history
<1>2. Inserters' /\ OneEach' /\ NothingForgotten'
  BY Workers, EarlyStep DEF MarkExecutionStarted, Goto, Shape, Early, requestVars, eventVars, evaluation, history
<1> QED
  BY <1>1, <1>2

LEMMA AuditStartedStep ==
  ASSUME CorrelationInv, NEW x \in Run, AuditStarted(x)
  PROVE  CorrelationInv'
<1> USE DEF CorrelationInv
<1>1. Shape' /\ LogOk'
  BY Workers, SameWorkers DEF AuditStarted, Goto, Shape, LogOk, Entry, PC, Status, requestVars, eventVars, evaluation, history
<1>2. Inserters' /\ OneEach' /\ NothingForgotten'
  BY Workers, EarlyStep DEF AuditStarted, Goto, Shape, Early, requestVars, eventVars, evaluation, history
<1> QED
  BY <1>1, <1>2

LEMMA MarkExecutionFinishedStep ==
  ASSUME CorrelationInv, NEW x \in Run, MarkExecutionFinished(x)
  PROVE  CorrelationInv'
<1> USE DEF CorrelationInv
<1>1. Shape' /\ LogOk'
  BY Workers, SameWorkers DEF MarkExecutionFinished, Goto, Shape, LogOk, Entry, PC, Status, requestVars, eventVars, evaluation, history
<1>2. Inserters' /\ OneEach' /\ NothingForgotten'
  BY Workers, EarlyStep DEF MarkExecutionFinished, Goto, Shape, Early, requestVars, eventVars, evaluation, history
<1> QED
  BY <1>1, <1>2

LEMMA AuditFinishedStep ==
  ASSUME CorrelationInv, NEW x \in Run, AuditFinished(x)
  PROVE  CorrelationInv'
<1> USE DEF CorrelationInv
<1>1. Shape' /\ LogOk'
  BY Workers, SameWorkers DEF AuditFinished, Goto, Shape, LogOk, Entry, PC, Status, requestVars, eventVars, evaluation, history
<1>2. Inserters' /\ OneEach' /\ NothingForgotten'
  BY Workers, EarlyStep DEF AuditFinished, Goto, Shape, Early, requestVars, eventVars, evaluation, history
<1> QED
  BY <1>1, <1>2

LEMMA AppliedStep ==
  ASSUME CorrelationInv, NEW x \in Run, Applied(x)
  PROVE  CorrelationInv'
<1> USE DEF CorrelationInv
<1>3. /\ Grows(happened, happened')
      /\ \A i \in DOMAIN happened' \ DOMAIN happened : happened'[i].time = now
  BY DirectoryGrows
<1>4. LogOk'
  BY <1>3, LogLater DEF Applied, Shape
<1>5. Shape'
  BY SameWorkers DEF Applied, Shape, requestVars, evaluation, history
<1>6. \A i \in observed : happened'[i] = happened[i]
  BY <1>3 DEF Grows, LogOk, Entry
<1>7. Inserters' /\ OneEach' /\ NothingForgotten'
  BY <1>6, Workers, EarlyStep DEF Applied, Early, requestVars, evaluation, history
<1> QED
  BY <1>4, <1>5, <1>7

LEMMA CandidatesStep ==
  ASSUME CorrelationInv, NEW x \in Run, Candidates(x)
  PROVE  CorrelationInv'
<1> USE DEF CorrelationInv
<1>1. Shape' /\ LogOk'
  <2>1. {i \in observed : RowsOf(i) = {} /\ MatchesNow(of[x], i)} \subseteq Nat
    BY DEF LogOk, Entry
  <2> QED
    BY <2>1, Workers, SameWorkers
    DEF Candidates, Goto, Shape, LogOk, Entry, PC, requestVars, eventVars, evaluation, history
<1>2. Inserters' /\ OneEach'
  BY Workers, InsertersKept DEF Candidates, Goto, Shape, Inserting, evaluation, history
<1>3. ASSUME NEW i \in observed, NEW r \in Request, status'[r] \in Correlatable, MatchesNow(r, i)', RowsOf(i)' = {}
      PROVE  \/ Owed(i, r)'
             \/ status[r] \in Correlatable /\ MatchesNow(r, i) /\ (Owed(i, r) => Owed(i, r)')
  <2>1. status[r] \in Correlatable /\ MatchesNow(r, i) /\ RowsOf(i) = {}
    BY <1>3, MatchesKept DEF Candidates, requestVars, eventVars, RowsOf
  <2>2. CASE of[x] = r
    <3>1. i \in queue'[x] /\ pc'[x] = "next"
      BY <2>1, <2>2, Workers DEF Candidates, Goto, Shape
    <3> QED
      BY <2>2, <3>1, SameWorkers DEF Owed, WillLook, Candidates
  <2>3. CASE of[x] # r
    BY <2>1, <2>3, Workers, OwedKept DEF Candidates, Goto, Shape, Considers, evaluation
  <2> QED
    BY <2>2, <2>3
<1>4. NothingForgotten'
  BY <1>3, ForgottenKept DEF Candidates, eventVars, history
<1> QED
  BY <1>1, <1>2, <1>4

LEMMA NextCandidateStep ==
  ASSUME CorrelationInv, NEW x \in Run, NextCandidate(x)
  PROVE  CorrelationInv'
<1> USE DEF CorrelationInv
<1>1. Shape' /\ LogOk'
  <2>1. queue' \in [Run -> SUBSET Nat] /\ on' \in [Worker -> Nat] /\ pc' \in [Worker -> PC]
    BY Workers DEF NextCandidate, Goto, Shape, PC
  <2> QED
    BY <2>1, SameWorkers
    DEF NextCandidate, Shape, LogOk, Entry, requestVars, eventVars, history
<1>2. Inserters' /\ OneEach'
  BY Workers, InsertersKept DEF NextCandidate, Goto, Shape, Inserting, history
<1>3. ASSUME NEW i \in observed, NEW r \in Request, status'[r] \in Correlatable, MatchesNow(r, i)'
      PROVE  status[r] \in Correlatable /\ MatchesNow(r, i) /\ (Owed(i, r) => Owed(i, r)')
  <2>1. status[r] \in Correlatable /\ MatchesNow(r, i)
    BY <1>3, MatchesKept DEF NextCandidate, requestVars, eventVars
  <2>2. ~Considers(x, i, r)
    BY DEF NextCandidate, Considers
  <2>3. ASSUME of[x] = r, WillLook(x, i)
        PROVE  Owed(i, r)'
    <3>1. i \in queue[x] /\ of'[x] = r /\ x \in Run' /\ x \in Worker'
      BY <2>3, Workers, SameWorkers DEF NextCandidate, WillLook, Early
    <3>2. PICK j \in queue[x] : /\ queue' = [queue EXCEPT ![x] = @ \ {j}]
                                /\ on' = [on EXCEPT ![x] = j] /\ pc' = [pc EXCEPT ![x] = "list"]
      BY <3>1 DEF NextCandidate, Goto
    <3>3. CASE i = j
      BY <3>1, <3>2, <3>3, Workers DEF Owed, Considers, Shape
    <3>4. CASE i # j
      BY <3>1, <3>2, <3>4, Workers DEF Owed, WillLook, Shape
    <3> QED
      BY <3>3, <3>4
  <2>4. Owed(i, r) => Owed(i, r)'
    BY <2>2, <2>3, Workers, OwedKept DEF NextCandidate, Goto, Shape
  <2> QED
    BY <2>1, <2>4
<1>4. NothingForgotten'
  BY <1>3, ForgottenKept DEF NextCandidate, eventVars, history
<1> QED
  BY <1>1, <1>2, <1>4

LEMMA IngestStep ==
  ASSUME CorrelationInv, NEW n \in scenario.ingests, IngestWithResult(n)
  PROVE  CorrelationInv'
<1> USE DEF CorrelationInv
<1>1. PICK j \in Entry : on' = [on EXCEPT ![n] = j] /\ observed' = observed \cup {j}
  BY DEF IngestWithResult
<1>2. n \in Worker /\ n \notin Run /\ Worker' = Worker /\ Run' = Run /\ of' = of /\ j \in Nat
  BY Workers, SameWorkers DEF IngestWithResult, Worker, LogOk, Entry
<1>3. Shape' /\ LogOk'
  BY <1>1, <1>2 DEF IngestWithResult, Goto, Shape, LogOk, Entry, PC, requestVars, history
<1>4. Inserters' /\ OneEach'
  BY <1>2, InsertersKept DEF IngestWithResult, Goto, Shape, Inserting, history
<1>5. ASSUME NEW i \in observed', i \notin contested, NEW r \in Request, faults = 0,
             status[r] \in Correlatable, MatchesNow(r, i)', RowsOf(i)' = {}
      PROVE  Owed(i, r)'
  <2>1. CASE i = j
    <3>1. Considers(n, i, r)'
      BY <1>1, <1>2, <2>1 DEF Considers, IngestWithResult, Goto, Shape
    <3> QED
      BY <1>2, <3>1 DEF Owed
  <2>2. CASE i # j
    <3>1. i \in observed \ contested /\ RowsOf(i) = {} /\ MatchesNow(r, i)
      BY <1>1, <1>5, <2>2, MatchesKept DEF IngestWithResult, RowsOf, requestVars
    <3>2. Owed(i, r) /\ ~Considers(n, i, r)
      BY <1>5, <3>1 DEF NothingForgotten, Considers, IngestWithResult
    <3> QED
      BY <1>2, <3>2, OwedKept DEF IngestWithResult, Goto, Shape
  <2> QED
    BY <2>1, <2>2
<1>6. NothingForgotten'
  BY <1>5 DEF NothingForgotten, IngestWithResult, requestVars, history
<1> QED
  BY <1>3, <1>4, <1>6

LEMMA ListRequestsStep ==
  ASSUME CorrelationInv, NEW w \in Worker, ListRequests(w)
  PROVE  CorrelationInv'
<1> USE DEF CorrelationInv
<1>1. Shape' /\ LogOk'
  BY SameWorkers, FS_EmptySet DEF ListRequests, Goto, Shape, LogOk, Entry, PC, requestVars, eventVars, history
<1>2. Inserters' /\ OneEach'
  BY InsertersKept DEF ListRequests, Goto, Shape, Inserting, history
<1>3. ASSUME NEW i \in observed, NEW r \in Request, status'[r] \in Correlatable, MatchesNow(r, i)'
      PROVE  status[r] \in Correlatable /\ MatchesNow(r, i) /\ (Owed(i, r) => Owed(i, r)')
  <2>1. status[r] \in Correlatable /\ MatchesNow(r, i)
    BY <1>3, MatchesKept DEF ListRequests, requestVars, eventVars
  <2>2. ASSUME Considers(w, i, r)
        PROVE  Owed(i, r)'
    BY <2>1, <2>2, SameWorkers DEF ListRequests, Goto, Considers, Owed, Shape
  <2>3. ASSUME w \in Run, of[w] = r, WillLook(w, i)
        PROVE  Owed(i, r)'
    BY <2>3, SameWorkers DEF ListRequests, Goto, WillLook, Early, Owed, Shape
  <2>4. Owed(i, r) => Owed(i, r)'
    BY <2>2, <2>3, OwedKept DEF ListRequests, Goto, Shape
  <2> QED
    BY <2>1, <2>4
<1>4. NothingForgotten'
  BY <1>3, ForgottenKept DEF ListRequests, eventVars, history
<1> QED
  BY <1>1, <1>2, <1>4

LEMMA LookAtStep ==
  ASSUME CorrelationInv, NEW w \in Worker, LookAt(w)
  PROVE  CorrelationInv'
<1> USE DEF CorrelationInv
<1>1. PICK s \in todo[w] :
        /\ todo' = [todo EXCEPT ![w] = @ \ {s}]
        /\ found' = [found EXCEPT ![w] = IF MatchesNow(s, on[w]) THEN @ \cup {s} ELSE @]
  BY DEF LookAt
<1>2. Shape' /\ LogOk'
  <2>1. found[w] \cup {s} \subseteq Request /\ IsFiniteSet(found[w] \cup {s}) /\ todo[w] \ {s} \subseteq Request
    <3>1. found[w] \subseteq Request /\ IsFiniteSet(found[w]) /\ todo[w] \subseteq Request
      BY DEF Shape
    <3>2. IsFiniteSet(found[w] \cup {s})
      BY <3>1, FS_AddElement
    <3> QED
      BY <3>1, <3>2
  <2> QED
    BY <1>1, <2>1, SameWorkers DEF LookAt, Shape, LogOk, Entry, requestVars, eventVars, history
<1>3. Inserters' /\ OneEach'
  BY <1>1, InsertersKept DEF LookAt, Shape, Inserting, history
<1>4. ASSUME NEW i \in observed, NEW r \in Request, status'[r] \in Correlatable, MatchesNow(r, i)'
      PROVE  status[r] \in Correlatable /\ MatchesNow(r, i) /\ (Owed(i, r) => Owed(i, r)')
  <2>1. status[r] \in Correlatable /\ MatchesNow(r, i)
    BY <1>4, MatchesKept DEF LookAt, requestVars, eventVars
  <2>2. ASSUME Considers(w, i, r)
        PROVE  Owed(i, r)'
    <3>1. on[w] = i /\ pc[w] = "look" /\ r \in todo[w] \cup found[w]
      BY <2>2 DEF LookAt, Considers
    <3>2. r \in todo'[w] \cup found'[w]
      BY <1>1, <2>1, <3>1 DEF Shape
    <3> QED
      BY <2>2, <3>1, <3>2, SameWorkers DEF LookAt, Considers, Owed
  <2>3. ASSUME w \in Run, of[w] = r, WillLook(w, i)
        PROVE  Owed(i, r)'
    BY <2>3, SameWorkers DEF LookAt, WillLook, Owed
  <2>4. Owed(i, r) => Owed(i, r)'
    BY <1>1, <2>2, <2>3, OwedKept DEF LookAt, Shape
  <2> QED
    BY <2>1, <2>4
<1>5. NothingForgotten'
  BY <1>4, ForgottenKept DEF LookAt, eventVars, history
<1> QED
  BY <1>2, <1>3, <1>5

\* Whoever found one request and no more, found just that one.
LEMMA OnlyOne ==
  ASSUME NEW S, IsFiniteSet(S), ~(Cardinality(S) > 1), NEW r \in S
  PROVE  S = {r}
<1>1. Cardinality(S) \in Nat /\ Cardinality(S) # 0
  BY FS_CardinalityType, FS_EmptySet
<1>2. Cardinality(S) = 1
  BY <1>1
<1> QED
  BY <1>2, FS_Singleton

LEMMA CheckStep ==
  ASSUME CorrelationInv, NEW w \in Worker, Check(w)
  PROVE  CorrelationInv'
<1> USE DEF CorrelationInv
<1> DEFINE free == Sole(w) # {} /\ RowsOf(on[w]) = {}
           rivals == {v \in Worker \ {w} : pc[v] = "insert" /\ on[v] = on[w]}
<1>1. /\ Worker' = Worker /\ Run' = Run /\ of' = of
      /\ UNCHANGED <<scenario, now, requestVars, eventVars, correlation, queue, todo, faults>>
  BY SameWorkers DEF Check
<1>2. /\ free => pc' = [pc EXCEPT ![w] = "insert"] /\ UNCHANGED <<on, found>>
      /\ ~free => /\ pc' = [pc EXCEPT ![w] = IF w \in Run THEN "next" ELSE "idle"]
                  /\ on' = [on EXCEPT ![w] = 0] /\ found' = [found EXCEPT ![w] = {}]
      /\ contested' = IF Cardinality(found[w]) > 1 THEN contested \cup {on[w]} ELSE contested
      /\ raced' = IF free /\ rivals # {} THEN raced \cup {on[w]} ELSE raced
      /\ pc[w] = "look" /\ todo[w] = {}
  BY DEF Check, Goto, Leave
<1> HIDE DEF free
<1>3. Shape' /\ LogOk'
  <2>1. pc' \in [Worker -> PC] /\ on' \in [Worker -> Nat] /\ found' \in [Worker -> SUBSET Request]
    BY <1>2 DEF Shape, PC
  <2>2. \A v \in Worker : IsFiniteSet(found'[v])
    BY <1>2, FS_EmptySet DEF Shape
  <2> QED
    BY <1>1, <2>1, <2>2 DEF Shape, LogOk, Entry, requestVars, eventVars
<1>4. \A v \in Worker : v # w => pc'[v] = pc[v] /\ on'[v] = on[v] /\ found'[v] = found[v]
  BY <1>2 DEF Shape
<1>5. Inserting(w)' => free /\ on'[w] = on[w] /\ found'[w] = found[w]
  BY <1>2 DEF Inserting, Shape
<1>6. Inserters'
  <2>1. free => \E r \in Request : found[w] = {r} /\ (w \in Run => r = of[w])
    BY DEF free, Sole
  <2> QED
    BY <1>1, <1>4, <1>5, <2>1 DEF Inserters, Inserting
<1>7. OneEach'
  <2>1. raced \subseteq raced'
    BY <1>2
  <2>2. ASSUME NEW v \in Worker, v # w, Inserting(v)', Inserting(w)', on'[v] = on'[w]
        PROVE  on'[w] \in raced'
    <3>1. v \in rivals /\ free
      BY <1>4, <1>5, <2>2 DEF Inserting
    <3> QED
      BY <1>2, <1>5, <2>2, <3>1
  <2>3. ASSUME NEW c \in correlation, c.event = on'[w], Inserting(w)'
        PROVE  FALSE
    BY <1>5, <2>3 DEF free, RowsOf
  <2>4. \A v, u \in Worker : Inserting(v)' /\ Inserting(u)' /\ on'[v] = on'[u] => v = u \/ on'[v] \in raced'
    BY <1>4, <2>1, <2>2 DEF OneEach, Inserting
  <2>5. \A v \in Worker, c \in correlation : Inserting(v)' /\ c.event = on'[v] => on'[v] \in raced'
    BY <1>4, <2>1, <2>3 DEF OneEach, Inserting
  <2> QED
    BY <1>1, <2>1, <2>4, <2>5 DEF OneEach
<1>8. ASSUME NEW i \in observed, NEW r \in Request, status'[r] \in Correlatable, MatchesNow(r, i)', RowsOf(i)' = {},
             i \notin contested'
      PROVE  status[r] \in Correlatable /\ MatchesNow(r, i) /\ (Owed(i, r) => Owed(i, r)')
  <2>1. status[r] \in Correlatable /\ MatchesNow(r, i) /\ RowsOf(i) = {}
    BY <1>1, <1>8, MatchesKept DEF RowsOf, requestVars, eventVars
  <2>2. ASSUME Considers(w, i, r)
        PROVE  Owed(i, r)'
    <3>1. on[w] = i /\ r \in found[w] /\ (w \in Run => of[w] = r)
      BY <1>2, <2>2 DEF Considers
    <3>2. found[w] = {r}
      BY <1>2, <1>8, <3>1, OnlyOne DEF Shape
    <3>3. free
      BY <2>1, <3>1, <3>2 DEF free, Sole
    <3> QED
      BY <1>1, <1>2, <3>1, <3>3 DEF Owed, Considers, Shape
  <2>3. ASSUME w \in Run, of[w] = r, WillLook(w, i)
        PROVE  Owed(i, r)'
    <3>1. i \in queue[w]
      BY <1>2, <2>3 DEF WillLook, Early
    <3>2. pc'[w] \in {"next", "insert"}
      BY <1>2, <2>3 DEF Shape
    <3> QED
      BY <1>1, <2>3, <3>1, <3>2 DEF Owed, WillLook
  <2>4. Owed(i, r) => Owed(i, r)'
    BY <1>1, <1>4, <2>2, <2>3, OwedKept
  <2> QED
    BY <2>1, <2>4
<1>9. NothingForgotten'
  BY <1>1, <1>2, <1>8, ForgottenKept DEF eventVars
<1> QED
  BY <1>3, <1>6, <1>7, <1>9

LEMMA InsertStep ==
  ASSUME CorrelationInv, NEW w \in Worker, Insert(w)
  PROVE  CorrelationInv'
<1> USE DEF CorrelationInv
<1>1. PICK s \in found[w] : correlation' = correlation \cup {[request |-> s, event |-> on[w], by |-> w]}
  BY DEF Insert
<1> DEFINE new == [request |-> s, event |-> on[w], by |-> w]
<1>2. /\ Worker' = Worker /\ Run' = Run /\ of' = of
      /\ UNCHANGED <<scenario, now, requestVars, eventVars, queue, todo, contested, raced, faults>>
      /\ pc[w] = "insert" /\ pc' = [pc EXCEPT ![w] = IF w \in Run THEN "next" ELSE "idle"]
      /\ on' = [on EXCEPT ![w] = 0] /\ found' = [found EXCEPT ![w] = {}]
  BY SameWorkers DEF Insert, Leave, Goto, history
<1>3. Shape' /\ LogOk'
  <2>1. pc' \in [Worker -> PC] /\ on' \in [Worker -> Nat] /\ found' \in [Worker -> SUBSET Request]
    BY <1>2 DEF Shape, PC
  <2>2. \A v \in Worker : IsFiniteSet(found'[v])
    BY <1>2, FS_EmptySet DEF Shape
  <2> QED
    BY <1>2, <2>1, <2>2 DEF Shape, LogOk, Entry, requestVars, eventVars
<1>4. \A v \in Worker : v # w => pc'[v] = pc[v] /\ on'[v] = on[v] /\ found'[v] = found[v]
  BY <1>2 DEF Shape
<1>5. ~Inserting(w)' /\ Inserting(w)
  BY <1>2 DEF Inserting, Shape
<1>6. Inserters'
  BY <1>2, <1>4, <1>5 DEF Inserters, Inserting
<1>7. OneEach'
  <2>1. new.event = on[w] /\ correlation' = correlation \cup {new}
    BY <1>1
  <2> HIDE DEF new
  <2>2. \A v, u \in Worker : Inserting(v)' /\ Inserting(u)' /\ on'[v] = on'[u] => v = u \/ on'[v] \in raced'
    BY <1>2, <1>4, <1>5 DEF OneEach, Inserting
  <2>3. \A v \in Worker, c \in correlation' : Inserting(v)' /\ c.event = on'[v] => on'[v] \in raced'
    BY <1>2, <1>4, <1>5, <2>1 DEF OneEach, Inserting
  <2>4. \A c, d \in correlation' : c.event = d.event => c = d \/ c.event \in raced'
    BY <1>2, <1>5, <2>1 DEF OneEach
  <2> QED
    BY <1>2, <2>2, <2>3, <2>4 DEF OneEach
<1>8. ASSUME NEW i \in observed, NEW r \in Request, status'[r] \in Correlatable, MatchesNow(r, i)', RowsOf(i)' = {}
      PROVE  status[r] \in Correlatable /\ MatchesNow(r, i) /\ (Owed(i, r) => Owed(i, r)')
  <2>1. status[r] \in Correlatable /\ MatchesNow(r, i)
    BY <1>2, <1>8, MatchesKept DEF requestVars, eventVars
  <2>2. ~Considers(w, i, r)
    <3>1. new \in correlation' /\ new.event = on[w]
      BY <1>1
    <3> QED
      BY <1>8, <3>1 DEF RowsOf, Considers
  <2>3. ASSUME w \in Run, of[w] = r, WillLook(w, i)
        PROVE  Owed(i, r)'
    <3>1. i \in queue[w] /\ pc'[w] = "next"
      BY <1>2, <2>3 DEF WillLook, Early, Shape
    <3> QED
      BY <1>2, <2>3, <3>1 DEF Owed, WillLook
  <2>4. Owed(i, r) => Owed(i, r)'
    BY <1>2, <1>4, <2>2, <2>3, OwedKept
  <2> QED
    BY <2>1, <2>4
<1>9. correlation \subseteq correlation'
  BY <1>1
<1>10. NothingForgotten'
  BY <1>2, <1>8, <1>9, ForgottenKept DEF eventVars
<1> QED
  BY <1>3, <1>6, <1>7, <1>10

LEMMA FaultStep ==
  ASSUME CorrelationInv, NEW w \in Worker, Fault(w)
  PROVE  CorrelationInv'
<1> USE DEF CorrelationInv
<1>1. Shape' /\ LogOk'
  <2>1. faults' \in Nat /\ pc' \in [Worker -> PC]
    BY DEF Fault, Goto, Shape, PC
  <2> QED
    BY <2>1, SameWorkers DEF Fault, Shape, LogOk, Entry, requestVars, eventVars, evaluation, history
<1>2. Inserters' /\ OneEach'
  BY InsertersKept DEF Fault, Goto, Shape, Inserting, evaluation, history
<1>3. NothingForgotten'
  BY DEF Fault, NothingForgotten, Shape
<1> QED
  BY <1>1, <1>2, <1>3

LEMMA CorrelationNext == CorrelationInv /\ [Next]_vars => CorrelationInv'
<1> SUFFICES ASSUME CorrelationInv, [Next]_vars
             PROVE  CorrelationInv'
  OBVIOUS
<1>1. CASE Tick
  BY <1>1, TickStep
<1>2. CASE HappensOutside
  BY <1>2, HappensOutsideStep
<1>3. ASSUME NEW x \in Run, Execute(x)
      PROVE  CorrelationInv'
  BY <1>3, ApproveStep, RetryStep, MarkExecutionStartedStep, AuditStartedStep, AppliedStep,
     MarkExecutionFinishedStep, AuditFinishedStep, CandidatesStep, NextCandidateStep
     DEF Execute, DirectoryStep, UnreportedStep
<1>4. ASSUME NEW n \in scenario.ingests, IngestWithResult(n)
      PROVE  CorrelationInv'
  BY <1>4, IngestStep
<1>5. ASSUME NEW w \in Worker, Evaluate(w) \/ Fault(w)
      PROVE  CorrelationInv'
  BY <1>5, ListRequestsStep, LookAtStep, CheckStep, InsertStep, FaultStep DEF Evaluate
<1>6. CASE UNCHANGED vars
  <2>1. Shape' /\ LogOk'
    BY <1>6, SameWorkers
    DEF CorrelationInv, vars, Shape, LogOk, Entry, requestVars, eventVars, evaluation, history
  <2>2. Inserters' /\ OneEach'
    BY <1>6, InsertersKept DEF CorrelationInv, vars, Inserting, evaluation, history
  <2>3. ASSUME NEW i \in observed, NEW r \in Request
        PROVE  (MatchesNow(r, i)' => MatchesNow(r, i)) /\ (Owed(i, r) => Owed(i, r)') /\ status'[r] = status[r]
    BY <1>6, MatchesKept, SameWorkers
    DEF vars, requestVars, eventVars, evaluation, Owed, WillLook, Considers
  <2>4. NothingForgotten'
    BY <1>6, <2>3, ForgottenKept DEF CorrelationInv, vars, eventVars, history
  <2> QED
    BY <2>1, <2>2, <2>4 DEF CorrelationInv
<1> QED
  BY <1>1, <1>2, <1>3, <1>4, <1>5, <1>6 DEF Next

----------------------------------------------------------------------------
(* Lemmas about the attempts.                                               *)

LEMMA PastOfStart ==
  ASSUME NEW S, NEW rows \in Seq(S), NEW e \in S, IsStart(e)
  PROVE  LET past == FromTrail(rows)
             longer == FromTrail(Append(rows, e))
             n == Len(rows) + 1
         IN  /\ DOMAIN longer = DOMAIN past \cup {n}
             /\ \A i \in DOMAIN past : longer[i] = past[i]
             /\ longer[n] = Attempt(e.start, Open, <<>>)
<1> DEFINE more == Append(rows, e)
           n == Len(rows) + 1
<1>1. /\ DOMAIN rows = 1..Len(rows) /\ Len(rows) \in Nat /\ DOMAIN more = 1..n
      /\ more[n] = e /\ \A i \in 1..Len(rows) : more[i] = rows[i]
  OBVIOUS
<1> HIDE DEF more
<1>2. \A i \in DOMAIN rows : Completes(more, i) <=> Completes(rows, i)
  <2> SUFFICES ASSUME NEW i \in DOMAIN rows PROVE Completes(more, i) <=> Completes(rows, i)
    OBVIOUS
  <2>1. CASE i = Len(rows)
    BY <1>1, <2>1 DEF Completes
  <2>2. CASE i # Len(rows)
    <3>1. i + 1 \in DOMAIN rows /\ more[i + 1] = rows[i + 1] /\ more[i] = rows[i] /\ i + 1 \in DOMAIN more
      BY <1>1, <2>2
    <3> QED
      BY <3>1 DEF Completes
  <2> QED
    BY <2>1, <2>2
<1>3. Completes(more, n)
  BY <1>1 DEF Completes
<1>4. \A i \in DOMAIN rows : AttemptAt(more, i) = AttemptAt(rows, i)
  <2> SUFFICES ASSUME NEW i \in DOMAIN rows PROVE AttemptAt(more, i) = AttemptAt(rows, i)
    OBVIOUS
  <2>1. more[i] = rows[i] /\ (i - 1 \in DOMAIN more <=> i - 1 \in DOMAIN rows)
        /\ (i - 1 \in DOMAIN rows => more[i - 1] = rows[i - 1])
    BY <1>1
  <2>2. OpenedBy(more, i) = OpenedBy(rows, i) /\ OpenedBy(rows, i) \in DOMAIN rows
    BY <2>1 DEF OpenedBy
  <2>3. more[OpenedBy(more, i)] = rows[OpenedBy(rows, i)]
    BY <1>1, <2>2
  <2> QED
    BY <2>1, <2>3 DEF AttemptAt
<1>5. AttemptAt(more, n) = Attempt(e.start, Open, <<>>)
  BY <1>1 DEF AttemptAt
<1>6. {j \in DOMAIN more : Completes(more, j)} = {j \in DOMAIN rows : Completes(rows, j)} \cup {n}
  BY <1>1, <1>2, <1>3
<1> QED
  BY <1>4, <1>5, <1>6 DEF FromTrail, more

LEMMA PastOfEnd ==
  ASSUME NEW S, NEW rows \in Seq(S), NEW e \in S, ~IsStart(e)
  PROVE  LET past == FromTrail(rows)
             longer == FromTrail(Append(rows, e))
             m == Len(rows)
             open == m \in DOMAIN rows /\ IsStart(rows[m])
         IN  /\ DOMAIN longer = (IF open THEN DOMAIN past \ {m} ELSE DOMAIN past) \cup {m + 1}
             /\ m + 1 \notin DOMAIN past
             /\ \A i \in DOMAIN past : i \in DOMAIN longer => longer[i] = past[i]
             /\ longer[m + 1] = Attempt(IF open THEN rows[m].start ELSE e.start, e.finish, e.steps)
             /\ open => m \in DOMAIN past /\ past[m] = Attempt(rows[m].start, Open, <<>>)
<1> DEFINE more == Append(rows, e)
           m == Len(rows)
           open == m \in DOMAIN rows /\ IsStart(rows[m])
<1>1. /\ DOMAIN rows = 1..m /\ m \in Nat /\ DOMAIN more = 1..(m + 1)
      /\ more[m + 1] = e /\ \A i \in 1..m : more[i] = rows[i]
  OBVIOUS
<1> HIDE DEF more, m
<1>2. \A i \in DOMAIN rows : Completes(more, i) <=> (Completes(rows, i) /\ ~(open /\ i = m))
  <2> SUFFICES ASSUME NEW i \in DOMAIN rows
               PROVE  Completes(more, i) <=> (Completes(rows, i) /\ ~(open /\ i = m))
    OBVIOUS
  <2>1. CASE i = m
    BY <1>1, <2>1 DEF Completes
  <2>2. CASE i # m
    <3>1. i + 1 \in DOMAIN rows /\ more[i + 1] = rows[i + 1] /\ more[i] = rows[i] /\ i + 1 \in DOMAIN more
      BY <1>1, <2>2
    <3> QED
      BY <2>2, <3>1 DEF Completes
  <2> QED
    BY <2>1, <2>2
<1>3. Completes(more, m + 1)
  BY <1>1 DEF Completes
<1>4. \A i \in DOMAIN rows : AttemptAt(more, i) = AttemptAt(rows, i)
  <2> SUFFICES ASSUME NEW i \in DOMAIN rows PROVE AttemptAt(more, i) = AttemptAt(rows, i)
    OBVIOUS
  <2>1. more[i] = rows[i] /\ (i - 1 \in DOMAIN more <=> i - 1 \in DOMAIN rows)
        /\ (i - 1 \in DOMAIN rows => more[i - 1] = rows[i - 1])
    BY <1>1
  <2>2. OpenedBy(more, i) = OpenedBy(rows, i) /\ OpenedBy(rows, i) \in DOMAIN rows
    BY <2>1 DEF OpenedBy
  <2>3. more[OpenedBy(more, i)] = rows[OpenedBy(rows, i)]
    BY <1>1, <2>2
  <2> QED
    BY <2>1, <2>3 DEF AttemptAt
<1>5. AttemptAt(more, m + 1) = Attempt(IF open THEN rows[m].start ELSE e.start, e.finish, e.steps)
  <2>1. more[OpenedBy(more, m + 1)] = IF open THEN rows[m] ELSE e
    BY <1>1 DEF OpenedBy
  <2>2. AttemptAt(more, m + 1) = Attempt(more[OpenedBy(more, m + 1)].start, e.finish, e.steps)
    BY <1>1 DEF AttemptAt
  <2> QED
    BY <2>1, <2>2
<1>6. {j \in DOMAIN more : Completes(more, j)}
        = (IF open THEN {j \in DOMAIN rows : Completes(rows, j)} \ {m} ELSE {j \in DOMAIN rows : Completes(rows, j)})
            \cup {m + 1}
  BY <1>1, <1>2, <1>3
<1>7. open => Completes(rows, m) /\ AttemptAt(rows, m) = Attempt(rows[m].start, Open, <<>>)
  BY <1>1 DEF Completes, AttemptAt
<1> QED
  BY <1>1, <1>4, <1>5, <1>6, <1>7 DEF FromTrail, more, m

\* Every row is about an execution whose start is there too.
EveryStartThere(rows) ==
  \A k \in DOMAIN rows : \E j \in DOMAIN rows : IsStart(rows[j]) /\ rows[j].start = rows[k].start

LEMMA StartsOfPast ==
  ASSUME NEW S, NEW rows \in Seq(S), EveryStartThere(rows), NEW s
  PROVE  (\E i \in DOMAIN FromTrail(rows) : FromTrail(rows)[i].start = s)
           <=> \E k \in DOMAIN rows : IsStart(rows[k]) /\ rows[k].start = s
<1>1. DOMAIN rows = 1..Len(rows) /\ Len(rows) \in Nat
  OBVIOUS
<1>2. ASSUME NEW i \in DOMAIN FromTrail(rows), FromTrail(rows)[i].start = s
      PROVE  \E k \in DOMAIN rows : IsStart(rows[k]) /\ rows[k].start = s
  <2>1. i \in DOMAIN rows /\ FromTrail(rows)[i] = AttemptAt(rows, i)
    BY <1>2 DEF FromTrail
  <2>2. OpenedBy(rows, i) \in DOMAIN rows
    BY <2>1 DEF OpenedBy
  <2>3. \E k \in DOMAIN rows : AttemptAt(rows, i).start = rows[k].start
    BY <2>1, <2>2 DEF AttemptAt, Attempt
  <2> QED
    BY <1>2, <2>1, <2>3 DEF EveryStartThere
<1>3. ASSUME NEW k \in DOMAIN rows, IsStart(rows[k]), rows[k].start = s
      PROVE  \E i \in DOMAIN FromTrail(rows) : FromTrail(rows)[i].start = s
  <2>1. CASE Completes(rows, k)
    BY <1>3, <2>1 DEF FromTrail, AttemptAt, Attempt
  <2>2. CASE ~Completes(rows, k)
    <3>1. k + 1 \in DOMAIN rows /\ ~IsStart(rows[k + 1])
      BY <1>3, <2>2 DEF Completes
    <3>2. (k + 1) - 1 = k /\ OpenedBy(rows, k + 1) = k
      BY <1>1, <1>3, <3>1 DEF OpenedBy
    <3>3. Completes(rows, k + 1) /\ AttemptAt(rows, k + 1).start = s
      BY <1>3, <3>1, <3>2 DEF Completes, AttemptAt, Attempt
    <3> QED
      BY <3>1, <3>3 DEF FromTrail
  <2> QED
    BY <2>1, <2>2
<1> QED
  BY <1>2, <1>3

LEMMA AttemptsAre ==
  ASSUME NEW S, NEW rows \in Seq(S), NEW own, NEW a
  PROVE  a \in Range(Attempts(rows, own)) <=>
           \/ \E i \in DOMAIN FromTrail(rows) : a = FromTrail(rows)[i]
           \/ /\ own # <<>> /\ a = own[1]
              /\ ~\E i \in DOMAIN FromTrail(rows) : FromTrail(rows)[i].start = own[1].start
<1> DEFINE past == FromTrail(rows)
           n == Len(rows) + 1
<1>1. n \notin DOMAIN past
  BY DEF FromTrail
<1> HIDE DEF past, n
<1> DEFINE dropped == own = <<>> \/ \E i \in DOMAIN past : past[i].start = own[1].start
<1>2. Attempts(rows, own) = IF dropped THEN past
                            ELSE [i \in DOMAIN past \cup {n} |-> IF i \in DOMAIN past THEN past[i] ELSE own[1]]
  BY DEF Attempts, past, n
<1>3. CASE dropped
  BY <1>2, <1>3 DEF Range, past
<1>4. CASE ~dropped
  <2> DEFINE all == [i \in DOMAIN past \cup {n} |-> IF i \in DOMAIN past THEN past[i] ELSE own[1]]
  <2>1. (\E i \in DOMAIN all : a = all[i]) <=> (\E i \in DOMAIN past : a = past[i]) \/ a = own[1]
    BY <1>1
  <2> HIDE DEF all
  <2>2. a \in Range(all) <=> \E i \in DOMAIN all : a = all[i]
    BY DEF Range
  <2>3. Attempts(rows, own) = all
    BY <1>2, <1>4 DEF all
  <2>4. own # <<>> /\ ~\E i \in DOMAIN past : past[i].start = own[1].start
    BY <1>4
  <2> HIDE DEF dropped
  <2> QED
    BY <2>1, <2>2, <2>3, <2>4 DEF past
<1> QED
  BY <1>3, <1>4

----------------------------------------------------------------------------
(* The invariant behind the times: who has left what in the audit trail and *)
(* in request_execution, and that what was found was in time when it was.   *)

RunsOk ==
  /\ run \in [Run -> [start : Nat \cup {Open}, finish : Nat \cup {Open}]]
  /\ \A x \in Run :
       /\ run[x].start <= now /\ run[x].finish <= now
       /\ pc[x] \in {"idle", "begun"} => run[x].start = Open
       /\ pc[x] \in {"auditStarted", "directory", "auditFinished"} => run[x].start # Open
       /\ pc[x] \in {"directory", "auditFinished"} => Recorded(x)
       /\ pc[x] = "auditFinished" => run[x].finish # Open /\ run[x].start <= run[x].finish
       /\ run[x].start # Open => row[of[x]] # <<>>

TrailsOk ==
  \A r \in Request :
    /\ trail[r] \in Seq(Range(trail[r]))
    /\ EveryStartThere(trail[r])
    /\ \A k \in DOMAIN trail[r] :
         /\ trail[r][k].start \in Nat /\ trail[r][k].finish \in Nat \cup {Open} /\ trail[r][k].at \in Nat
         /\ trail[r][k].finish <= now

\* The row of a request is of the execution that started last, whoever finished it.
RowsOk ==
  \A r \in Request :
    \/ row[r] = <<>>
    \/ \E a : /\ row[r] = <<a>>
              /\ a.start \in Nat /\ a.finish \in Nat \cup {Open} /\ a.finish <= now
              /\ \E x \in Run : of[x] = r /\ run[x].start = a.start

\* Nobody has to do with a request that was not approved.
ApprovedOk ==
  /\ approvedAt \in [Request -> Nat \cup {Open}]
  /\ \A w \in Worker : \A r \in todo[w] \cup found[w] : status[r] # "submitted"
  /\ \A c \in correlation : c.request \in Request /\ c.event \in observed /\ status[c.request] # "submitted"

\* Who evaluates which event, and when it has found something.
EvaluatedOk ==
  /\ \A x \in Run : queue[x] \subseteq observed
  /\ \A w \in Worker :
       /\ pc[w] \in {"list", "look", "insert"} => on[w] \in observed
       /\ found[w] # {} => pc[w] \in {"look", "insert", "aborted"} /\ on[w] \in observed

FoundInTime ==
  \A w \in Worker : \A r \in found[w], t \in Nat : t = happened[on[w]].time => InTime(r, t)
CorrelationsInTime == \A c \in correlation, t \in Nat : t = happened[c.event].time => InTime(c.request, t)

TimeInv == RunsOk /\ TrailsOk /\ RowsOk /\ ApprovedOk /\ EvaluatedOk /\ FoundInTime /\ CorrelationsInTime

----------------------------------------------------------------------------
(* What was in time stays in time.                                          *)

RowsTyped(rows) ==
  /\ rows \in Seq(Range(rows))
  /\ EveryStartThere(rows)
  /\ \A k \in DOMAIN rows : rows[k].start \in Nat /\ rows[k].finish \in Nat \cup {Open} /\ rows[k].at \in Nat

StartIn(rows, s) == \E k \in DOMAIN rows : IsStart(rows[k]) /\ rows[k].start = s

LEMMA PastStarts ==
  ASSUME NEW rows, RowsTyped(rows), NEW s
  PROVE  (\E i \in DOMAIN FromTrail(rows) : FromTrail(rows)[i].start = s) <=> StartIn(rows, s)
<1>1. rows \in Seq(Range(rows)) /\ EveryStartThere(rows)
  BY DEF RowsTyped
<1>2. (\E i \in DOMAIN FromTrail(rows) : FromTrail(rows)[i].start = s)
        <=> \E k \in DOMAIN rows : IsStart(rows[k]) /\ rows[k].start = s
  BY <1>1, StartsOfPast
<1> QED
  BY <1>2 DEF StartIn

LEMMA KnownAttempts ==
  ASSUME NEW rows, RowsTyped(rows), NEW own, NEW a
  PROVE  a \in Range(Attempts(rows, own)) <=>
           \/ \E i \in DOMAIN FromTrail(rows) : a = FromTrail(rows)[i]
           \/ own # <<>> /\ a = own[1] /\ ~StartIn(rows, own[1].start)
<1>1. rows \in Seq(Range(rows))
  BY DEF RowsTyped
<1> QED
  BY <1>1, PastStarts, AttemptsAre

LEMMA PastTyped ==
  ASSUME NEW rows, RowsTyped(rows), NEW i \in DOMAIN FromTrail(rows)
  PROVE  FromTrail(rows)[i].start \in Nat /\ FromTrail(rows)[i].finish \in Nat \cup {Open}
<1>1. i \in DOMAIN rows /\ FromTrail(rows)[i] = AttemptAt(rows, i)
  BY DEF FromTrail
<1>2. OpenedBy(rows, i) \in DOMAIN rows
  BY <1>1 DEF OpenedBy
<1> QED
  BY <1>1, <1>2 DEF AttemptAt, Attempt, RowsTyped, Open

LEMMA InTimeQuiet ==
  ASSUME Shape, NEW r \in Request, NEW t \in Nat, InTime(r, t),
         scenario' = scenario, now' \in Nat, now <= now',
         trail'[r] = trail[r], row'[r] = row[r], approvedAt'[r] = approvedAt[r],
         \A x \in Run : of[x] = r /\ run[x].start # Open => run'[x].start = run[x].start
  PROVE  InTime(r, t)'
<1>1. /\ AttemptsOf(r)' = AttemptsOf(r) /\ window' = window /\ Run' = Run /\ of' = of
      /\ window \in Nat /\ now \in Nat
  BY ScenariosAssumption DEF Shape, AttemptsOf, window, Run, of
<1>2. ASSUME WithinAttempt(r, t) PROVE WithinAttempt(r, t)'
  <2>1. PICK a \in Range(AttemptsOf(r)) : InWindow(a, t, now, window)
    BY <1>2 DEF WithinAttempt
  <2>2. InWindow(a, t, now', window)
    <3>1. t <= now + window => t <= now' + window
      BY <1>1
    <3> QED
      BY <2>1, <3>1 DEF InWindow
  <2> QED
    BY <1>1, <2>1, <2>2 DEF WithinAttempt
<1>3. ASSUME WhileUnrecorded(r, t) PROVE WhileUnrecorded(r, t)'
  BY <1>1, <1>3 DEF WhileUnrecorded, Recorded
<1>4. (BeforeEndIsKnown(r, t) => BeforeEndIsKnown(r, t)') /\ (BeforeAttempts(r, t) => BeforeAttempts(r, t)')
  BY <1>1 DEF BeforeEndIsKnown, BeforeAttempts
<1> QED
  BY <1>2, <1>3, <1>4 DEF InTime

\* A new execution takes the row.
LEMMA InTimeMark ==
  ASSUME Shape, TimeInv, NEW x \in Run, MarkExecutionStarted(x), NEW r, r = of[x],
         NEW t \in Nat, t <= now, InTime(r, t)
  PROVE  InTime(r, t)'
<1> DEFINE a == Attempt(now, Open, <<>>)
<1>1. r \in Request /\ r = of[x] /\ pc[x] = "begun" /\ window \in Nat /\ now \in Nat
  BY Workers, ScenariosAssumption DEF Shape, MarkExecutionStarted, window
<1>2. /\ UNCHANGED <<scenario, now, approvedAt, trail>> /\ Run' = Run /\ of' = of /\ window' = window
      /\ row'[r] = <<a>> /\ a.start = now /\ a.finish = Open
      /\ \A y \in Run \ {x} : run'[y] = run[y]
  BY <1>1, SameWorkers DEF MarkExecutionStarted, Shape, TimeInv, RunsOk, window, Attempt
<1>3. RowsTyped(trail[r])
  BY <1>1 DEF TimeInv, TrailsOk, RowsTyped
<1> HIDE DEF a
<1>4. run[x].start = Open
  BY <1>1 DEF TimeInv, RunsOk
<1>5. ASSUME WithinAttempt(r, t) PROVE WithinAttempt(r, t)' \/ WhileUnrecorded(r, t)'
  <2>1. PICK b \in Range(Attempts(trail[r], row[r])) : InWindow(b, t, now, window)
    BY <1>5 DEF WithinAttempt, AttemptsOf
  <2>2. CASE \E i \in DOMAIN FromTrail(trail[r]) : b = FromTrail(trail[r])[i]
    <3>1. b \in Range(Attempts(trail'[r], row'[r]))
      BY <1>2, <1>3, <2>2, KnownAttempts
    <3> QED
      BY <1>2, <2>1, <3>1 DEF WithinAttempt, AttemptsOf
  <2>3. CASE row[r] # <<>> /\ b = row[r][1] /\ ~StartIn(trail[r], row[r][1].start)
    <3>1. PICK y \in Run : of[y] = r /\ run[y].start = b.start /\ run[y].start \in Nat
      BY <1>1, <2>3 DEF TimeInv, RowsOk
    <3>2. run[y].start # Open /\ y # x
      BY <1>4, <3>1 DEF Open
    <3>3. t >= run[y].start - window
      BY <2>1, <3>1 DEF InWindow
    <3>4. ~Recorded(y)'
      BY <1>2, <2>3, <3>1, <3>2 DEF Recorded, StartIn
    <3> QED
      BY <1>2, <3>1, <3>2, <3>3, <3>4 DEF WhileUnrecorded
  <2> QED
    BY <1>3, <2>1, <2>2, <2>3, KnownAttempts
<1>6. ASSUME BeforeAttempts(r, t) PROVE BeforeAttempts(r, t)'
  <2>1. t >= approvedAt[r] - window /\ \A b \in Range(Attempts(trail[r], row[r])) : t <= b.start + window
    BY <1>6 DEF BeforeAttempts, AttemptsOf
  <2>2. ASSUME NEW b \in Range(Attempts(trail'[r], row'[r])) PROVE t <= b.start + window
    <3>1. CASE \E i \in DOMAIN FromTrail(trail[r]) : b = FromTrail(trail[r])[i]
      BY <1>3, <2>1, <3>1, KnownAttempts
    <3>2. CASE b = a
      BY <1>1, <1>2, <3>2
    <3> QED
      BY <1>2, <1>3, <2>2, <3>1, <3>2, KnownAttempts
  <2> QED
    BY <1>2, <2>1, <2>2 DEF BeforeAttempts, AttemptsOf
<1>7. BeforeEndIsKnown(r, t) => BeforeEndIsKnown(r, t)'
  BY <1>2 DEF BeforeEndIsKnown
<1>8. ASSUME WhileUnrecorded(r, t) PROVE WhileUnrecorded(r, t)'
  <2>1. PICK y \in Run : of[y] = r /\ run[y].start # Open /\ t >= run[y].start - window /\ ~Recorded(y)
    BY <1>8 DEF WhileUnrecorded
  <2> QED
    BY <1>2, <1>4, <2>1 DEF WhileUnrecorded, Recorded
<1> QED
  BY <1>5, <1>6, <1>7, <1>8 DEF InTime


\* The audit trail gets the start.
LEMMA InTimeStarted ==
  ASSUME Shape, TimeInv, NEW x \in Run, AuditStarted(x), NEW r, r = of[x],
         NEW t \in Nat, t <= now, InTime(r, t)
  PROVE  InTime(r, t)'
<1> DEFINE rows == trail[r]
           s == run[x].start
           e == [event |-> "execution_started", start |-> s, finish |-> Open, steps |-> <<>>, at |-> now]
           n == Len(rows) + 1
           new == Attempt(s, Open, <<>>)
<1>1. r \in Request /\ r = of[x] /\ pc[x] = "auditStarted" /\ window \in Nat /\ now \in Nat
  BY Workers, ScenariosAssumption DEF Shape, AuditStarted, window
<1>2. /\ UNCHANGED <<scenario, now, approvedAt, row, run>> /\ Run' = Run /\ of' = of /\ window' = window
      /\ trail'[r] = Append(rows, e)
  BY <1>1, SameWorkers DEF AuditStarted, Shape, window
<1>3. RowsTyped(rows)
  BY <1>1 DEF TimeInv, TrailsOk, RowsTyped
<1>4. s \in Nat /\ s <= now
  BY <1>1 DEF TimeInv, RunsOk
<1>5. IsStart(e) /\ e.start = s /\ e.at = now /\ e.finish = Open /\ new.start = s /\ new.finish = Open
  BY DEF IsStart, Attempt
<1>6. rows \in Seq(Range(rows) \cup {e}) /\ e \in Range(rows) \cup {e}
  BY <1>3 DEF RowsTyped
<1> HIDE DEF e, n, new
<1>7. /\ DOMAIN trail'[r] = DOMAIN rows \cup {n} /\ trail'[r][n] = e
      /\ \A k \in DOMAIN rows : trail'[r][k] = rows[k]
      /\ trail'[r] \in Seq(Range(trail'[r]))
  <2>1. /\ Append(rows, e) \in Seq(Range(rows) \cup {e})
        /\ DOMAIN Append(rows, e) = DOMAIN rows \cup {n} /\ Append(rows, e)[n] = e
        /\ \A k \in DOMAIN rows : Append(rows, e)[k] = rows[k]
    BY <1>6 DEF n
  <2>2. Append(rows, e) \in Seq(Range(Append(rows, e)))
    BY <2>1, SeqOfRange
  <2> QED
    BY <1>2, <2>1, <2>2
<1>8. RowsTyped(trail'[r])
  <2>1. EveryStartThere(trail'[r])
    <3> SUFFICES ASSUME NEW k \in DOMAIN trail'[r]
                 PROVE  \E j \in DOMAIN trail'[r] : IsStart(trail'[r][j]) /\ trail'[r][j].start = trail'[r][k].start
      BY DEF EveryStartThere
    <3>1. CASE k \in DOMAIN rows
      <4>1. PICK j \in DOMAIN rows : IsStart(rows[j]) /\ rows[j].start = rows[k].start
        BY <1>3, <3>1 DEF RowsTyped, EveryStartThere
      <4> QED
        BY <1>7, <3>1, <4>1
    <3>2. CASE k = n
      BY <1>5, <1>7, <3>2
    <3> QED
      BY <1>7, <3>1, <3>2
  <2>2. ASSUME NEW k \in DOMAIN trail'[r]
        PROVE  trail'[r][k].start \in Nat /\ trail'[r][k].finish \in Nat \cup {Open} /\ trail'[r][k].at \in Nat
    BY <1>1, <1>3, <1>4, <1>5, <1>7, <2>2 DEF RowsTyped
  <2> QED
    BY <1>7, <2>1, <2>2 DEF RowsTyped
<1>9. /\ DOMAIN FromTrail(trail'[r]) = DOMAIN FromTrail(rows) \cup {n}
      /\ \A i \in DOMAIN FromTrail(rows) : FromTrail(trail'[r])[i] = FromTrail(rows)[i]
      /\ FromTrail(trail'[r])[n] = new
  <2>1. /\ DOMAIN FromTrail(Append(rows, e)) = DOMAIN FromTrail(rows) \cup {n}
        /\ \A i \in DOMAIN FromTrail(rows) : FromTrail(Append(rows, e))[i] = FromTrail(rows)[i]
        /\ FromTrail(Append(rows, e))[n] = Attempt(e.start, Open, <<>>)
    <3> DEFINE T == Range(rows) \cup {e}
    <3>1. rows \in Seq(T) /\ e \in T /\ IsStart(e)
      BY <1>5, <1>6
    <3> HIDE DEF T, rows
    <3>2. LET past == FromTrail(rows)
              longer == FromTrail(Append(rows, e))
              l == Len(rows) + 1
          IN  /\ DOMAIN longer = DOMAIN past \cup {l}
              /\ \A i \in DOMAIN past : longer[i] = past[i]
              /\ longer[l] = Attempt(e.start, Open, <<>>)
      BY <3>1, PastOfStart, Zenon
    <3> QED
      BY <3>2 DEF n
  <2> QED
    BY <1>2, <1>5, <2>1 DEF new
<1>10. \A q : StartIn(trail'[r], q) <=> StartIn(rows, q) \/ q = s
  BY <1>5, <1>7 DEF StartIn
<1>11. new \in Range(Attempts(trail'[r], row'[r]))
  BY <1>8, <1>9, KnownAttempts
<1>12. t >= s - window => WithinAttempt(r, t)'
  <2>1. t >= s - window => InWindow(new, t, now, window)
    BY <1>1, <1>4, <1>5 DEF InWindow
  <2> QED
    BY <1>2, <1>11, <2>1 DEF WithinAttempt, AttemptsOf
<1>13. ASSUME WithinAttempt(r, t) PROVE WithinAttempt(r, t)'
  <2>1. PICK b \in Range(Attempts(rows, row[r])) : InWindow(b, t, now, window)
    BY <1>13 DEF WithinAttempt, AttemptsOf
  <2>2. CASE b \in Range(Attempts(trail'[r], row'[r]))
    BY <1>2, <2>1, <2>2 DEF WithinAttempt, AttemptsOf
  <2>3. CASE b \notin Range(Attempts(trail'[r], row'[r]))
    <3>1. b.start = s
      <4>1. \/ \E i \in DOMAIN FromTrail(rows) : b = FromTrail(rows)[i]
            \/ row[r] # <<>> /\ b = row[r][1] /\ ~StartIn(rows, row[r][1].start)
        BY <1>3, <2>1, KnownAttempts
      <4>2. ~(\E i \in DOMAIN FromTrail(trail'[r]) : b = FromTrail(trail'[r])[i])
        BY <1>8, <2>3, KnownAttempts
      <4>3. row[r] # <<>> /\ b = row[r][1] /\ ~StartIn(rows, row[r][1].start)
        BY <1>9, <4>1, <4>2
      <4>4. StartIn(trail'[r], row[r][1].start)
        BY <1>2, <1>8, <2>3, <4>3, KnownAttempts
      <4> QED
        BY <1>10, <4>3, <4>4
    <3> QED
      BY <1>12, <2>1, <3>1 DEF InWindow
  <2> QED
    BY <2>2, <2>3
<1>14. ASSUME BeforeAttempts(r, t), ~(t >= s - window) \/ t <= s + window PROVE BeforeAttempts(r, t)'
  <2>1. t >= approvedAt[r] - window /\ \A b \in Range(Attempts(rows, row[r])) : t <= b.start + window
    BY <1>14 DEF BeforeAttempts, AttemptsOf
  <2>2. t <= s + window
    BY <1>1, <1>4, <1>14
  <2>3. ASSUME NEW b \in Range(Attempts(trail'[r], row'[r])) PROVE t <= b.start + window
    <3>1. b = new \/ b \in Range(Attempts(rows, row[r]))
      BY <1>2, <1>3, <1>8, <1>9, <1>10, KnownAttempts
    <3> QED
      BY <1>5, <2>1, <2>2, <3>1
  <2> QED
    BY <1>2, <2>1, <2>3 DEF BeforeAttempts, AttemptsOf
<1>15. BeforeEndIsKnown(r, t) => BeforeEndIsKnown(r, t)'
  <2>1. Range(rows) \subseteq Range(trail'[r])
    BY <1>7 DEF Range
  <2> QED
    BY <1>2, <2>1 DEF BeforeEndIsKnown
<1>16. ASSUME WhileUnrecorded(r, t) PROVE WhileUnrecorded(r, t)' \/ WithinAttempt(r, t)'
  <2>1. PICK y \in Run : of[y] = r /\ run[y].start # Open /\ t >= run[y].start - window /\ ~Recorded(y)
    BY <1>16 DEF WhileUnrecorded
  <2>2. CASE run[y].start = s
    BY <1>12, <2>1, <2>2
  <2>3. CASE run[y].start # s
    <3>1. ~StartIn(rows, run[y].start)
      BY <2>1 DEF Recorded, StartIn
    <3>2. ~StartIn(trail'[r], run[y].start)
      BY <1>10, <2>3, <3>1
    <3>3. ~Recorded(y)'
      BY <1>2, <2>1, <3>2 DEF Recorded, StartIn
    <3> QED
      BY <1>2, <2>1, <3>3 DEF WhileUnrecorded
  <2> QED
    BY <2>2, <2>3
<1> QED
  BY <1>12, <1>13, <1>14, <1>15, <1>16 DEF InTime

\* An execution is over, and the row with it.
LEMMA InTimeFinish ==
  ASSUME Shape, TimeInv, NEW x \in Run, MarkExecutionFinished(x), NEW r, r = of[x],
         NEW t \in Nat, t <= now, InTime(r, t)
  PROVE  InTime(r, t)'
<1> DEFINE own == row[r][1]
           a == Attempt(own.start, now, Result(x))
<1>1. r \in Request /\ r = of[x] /\ pc[x] = "directory" /\ window \in Nat /\ now \in Nat
  BY Workers, ScenariosAssumption DEF Shape, MarkExecutionFinished, window
<1>2. /\ UNCHANGED <<scenario, now, approvedAt, trail>> /\ Run' = Run /\ of' = of /\ window' = window
      /\ row'[r] = <<a>> /\ a.start = own.start /\ a.finish = now
      /\ \A y \in Run : run'[y].start = run[y].start
  BY <1>1, SameWorkers DEF MarkExecutionFinished, Shape, TimeInv, RunsOk, window, Attempt
<1>3. RowsTyped(trail[r])
  BY <1>1 DEF TimeInv, TrailsOk, RowsTyped
<1>4. row[r] # <<>> /\ own.start \in Nat /\ own.finish \in Nat \cup {Open} /\ own.finish <= now
  <2>1. row[r] # <<>>
    BY <1>1 DEF TimeInv, RunsOk
  <2> QED
    BY <1>1, <2>1 DEF TimeInv, RowsOk
<1> HIDE DEF a, own
<1>5. \A b : b \in Range(Attempts(trail'[r], row'[r])) <=>
               \/ \E i \in DOMAIN FromTrail(trail[r]) : b = FromTrail(trail[r])[i]
               \/ b = a /\ ~StartIn(trail[r], own.start)
  <2>1. <<a>> # <<>> /\ <<a>>[1] = a
    OBVIOUS
  <2> QED
    BY <1>2, <1>3, <2>1, KnownAttempts
<1>6. \A b : b \in Range(Attempts(trail[r], row[r])) <=>
               \/ \E i \in DOMAIN FromTrail(trail[r]) : b = FromTrail(trail[r])[i]
               \/ b = own /\ ~StartIn(trail[r], own.start)
  BY <1>3, <1>4, KnownAttempts DEF own
<1>7. ASSUME WithinAttempt(r, t) PROVE WithinAttempt(r, t)'
  <2>1. PICK b \in Range(Attempts(trail[r], row[r])) : InWindow(b, t, now, window)
    BY <1>7 DEF WithinAttempt, AttemptsOf
  <2>2. CASE b \in Range(Attempts(trail'[r], row'[r]))
    BY <1>2, <2>1, <2>2 DEF WithinAttempt, AttemptsOf
  <2>3. CASE b \notin Range(Attempts(trail'[r], row'[r]))
    <3>1. b = own /\ a \in Range(Attempts(trail'[r], row'[r]))
      BY <1>5, <1>6, <2>1, <2>3
    <3>2. InWindow(a, t, now, window)
      BY <1>1, <1>2, <1>4, <2>1, <3>1 DEF InWindow, Open
    <3> QED
      BY <1>2, <3>1, <3>2 DEF WithinAttempt, AttemptsOf
  <2> QED
    BY <2>2, <2>3
<1>8. ASSUME BeforeAttempts(r, t) PROVE BeforeAttempts(r, t)'
  <2>1. t >= approvedAt[r] - window /\ \A b \in Range(Attempts(trail[r], row[r])) : t <= b.start + window
    BY <1>8 DEF BeforeAttempts, AttemptsOf
  <2>2. ASSUME NEW b \in Range(Attempts(trail'[r], row'[r])) PROVE t <= b.start + window
    <3>1. \/ b \in Range(Attempts(trail[r], row[r]))
          \/ b = a /\ own \in Range(Attempts(trail[r], row[r]))
      BY <1>5, <1>6
    <3> QED
      BY <1>2, <2>1, <3>1
  <2> QED
    BY <1>2, <2>1, <2>2 DEF BeforeAttempts, AttemptsOf
<1>9. (BeforeEndIsKnown(r, t) => BeforeEndIsKnown(r, t)') /\ (WhileUnrecorded(r, t) => WhileUnrecorded(r, t)')
  BY <1>2 DEF BeforeEndIsKnown, WhileUnrecorded, Recorded
<1> QED
  BY <1>7, <1>8, <1>9 DEF InTime


\* The audit trail gets the end.
LEMMA InTimeEnded ==
  ASSUME Shape, TimeInv, NEW x \in Run, AuditFinished(x), NEW r, r = of[x],
         NEW t \in Nat, t <= now, InTime(r, t)
  PROVE  InTime(r, t)'
<1> DEFINE rows == trail[r]
           e == [event |-> IF done[x] = Len(Plan(x)) THEN "execution_finished" ELSE "execution_failed",
                 start |-> run[x].start, finish |-> run[x].finish, steps |-> Result(x), at |-> now]
           m == Len(rows)
           open == m \in DOMAIN rows /\ IsStart(rows[m])
           s == IF open THEN rows[m].start ELSE e.start
           new == Attempt(s, e.finish, e.steps)
<1>1. r \in Request /\ r = of[x] /\ pc[x] = "auditFinished" /\ window \in Nat /\ now \in Nat
  BY Workers, ScenariosAssumption DEF Shape, AuditFinished, window
<1>2. /\ UNCHANGED <<scenario, now, approvedAt, row, run>> /\ Run' = Run /\ of' = of /\ window' = window
      /\ trail'[r] = Append(rows, e)
  BY <1>1, SameWorkers DEF AuditFinished, Shape, window
<1>3. RowsTyped(rows)
  BY <1>1 DEF TimeInv, TrailsOk, RowsTyped
<1>4. /\ run[x].start \in Nat /\ run[x].finish \in Nat /\ run[x].finish # Open
      /\ run[x].start <= run[x].finish /\ run[x].finish <= now /\ StartIn(rows, run[x].start)
  BY <1>1 DEF TimeInv, RunsOk, Recorded, StartIn
<1>5. /\ ~IsStart(e) /\ e.start = run[x].start /\ e.at = now /\ e.finish = run[x].finish
      /\ new.start = s /\ new.finish = e.finish
  BY DEF IsStart, Attempt
<1>6. rows \in Seq(Range(rows) \cup {e}) /\ e \in Range(rows) \cup {e}
  BY <1>3 DEF RowsTyped
<1> HIDE DEF e, m, new
<1>7. /\ DOMAIN trail'[r] = DOMAIN rows \cup {m + 1} /\ trail'[r][m + 1] = e
      /\ \A k \in DOMAIN rows : trail'[r][k] = rows[k]
      /\ trail'[r] \in Seq(Range(trail'[r]))
  <2>1. /\ Append(rows, e) \in Seq(Range(rows) \cup {e})
        /\ DOMAIN Append(rows, e) = DOMAIN rows \cup {m + 1} /\ Append(rows, e)[m + 1] = e
        /\ \A k \in DOMAIN rows : Append(rows, e)[k] = rows[k]
    BY <1>6 DEF m
  <2>2. Append(rows, e) \in Seq(Range(Append(rows, e)))
    BY <2>1, SeqOfRange
  <2> QED
    BY <1>2, <2>1, <2>2
<1>8. RowsTyped(trail'[r])
  <2>1. EveryStartThere(trail'[r])
    <3> SUFFICES ASSUME NEW k \in DOMAIN trail'[r]
                 PROVE  \E j \in DOMAIN trail'[r] : IsStart(trail'[r][j]) /\ trail'[r][j].start = trail'[r][k].start
      BY DEF EveryStartThere
    <3>1. CASE k \in DOMAIN rows
      <4>1. PICK j \in DOMAIN rows : IsStart(rows[j]) /\ rows[j].start = rows[k].start
        BY <1>3, <3>1 DEF RowsTyped, EveryStartThere
      <4> QED
        BY <1>7, <3>1, <4>1
    <3>2. CASE k = m + 1
      BY <1>4, <1>5, <1>7, <3>2 DEF StartIn
    <3> QED
      BY <1>7, <3>1, <3>2
  <2>2. ASSUME NEW k \in DOMAIN trail'[r]
        PROVE  trail'[r][k].start \in Nat /\ trail'[r][k].finish \in Nat \cup {Open} /\ trail'[r][k].at \in Nat
    BY <1>1, <1>3, <1>4, <1>5, <1>7, <2>2 DEF RowsTyped
  <2> QED
    BY <1>7, <2>1, <2>2 DEF RowsTyped
<1>9. /\ DOMAIN FromTrail(trail'[r])
           = (IF open THEN DOMAIN FromTrail(rows) \ {m} ELSE DOMAIN FromTrail(rows)) \cup {m + 1}
      /\ m + 1 \notin DOMAIN FromTrail(rows)
      /\ \A i \in DOMAIN FromTrail(rows) :
            i \in DOMAIN FromTrail(trail'[r]) => FromTrail(trail'[r])[i] = FromTrail(rows)[i]
      /\ FromTrail(trail'[r])[m + 1] = new
      /\ open => FromTrail(rows)[m].start = s /\ FromTrail(rows)[m].finish = Open /\ m \in DOMAIN FromTrail(rows)
  <2>1. /\ DOMAIN FromTrail(Append(rows, e))
             = (IF open THEN DOMAIN FromTrail(rows) \ {m} ELSE DOMAIN FromTrail(rows)) \cup {m + 1}
        /\ m + 1 \notin DOMAIN FromTrail(rows)
        /\ \A i \in DOMAIN FromTrail(rows) :
              i \in DOMAIN FromTrail(Append(rows, e)) => FromTrail(Append(rows, e))[i] = FromTrail(rows)[i]
        /\ FromTrail(Append(rows, e))[m + 1] = Attempt(IF open THEN rows[m].start ELSE e.start, e.finish, e.steps)
        /\ open => m \in DOMAIN FromTrail(rows) /\ FromTrail(rows)[m] = Attempt(rows[m].start, Open, <<>>)
    BY <1>5, <1>6, PastOfEnd DEF m
  <2> QED
    BY <1>2, <2>1 DEF new, Attempt
<1>10. \A q : StartIn(trail'[r], q) <=> StartIn(rows, q)
  BY <1>5, <1>7 DEF StartIn
<1> HIDE DEF open, s
<1>11. new \in Range(Attempts(trail'[r], row'[r]))
  BY <1>8, <1>9, KnownAttempts
<1>12. ASSUME NEW b, b \in Range(Attempts(rows, row[r]))
       PROVE  b \in Range(Attempts(trail'[r], row'[r])) \/ (open /\ b.start = s /\ b.finish = Open)
  <2>1. CASE \E i \in DOMAIN FromTrail(rows) : b = FromTrail(rows)[i]
    BY <1>8, <1>9, <2>1, KnownAttempts
  <2>2. CASE row[r] # <<>> /\ b = row[r][1] /\ ~StartIn(rows, row[r][1].start)
    BY <1>2, <1>8, <1>10, <2>2, KnownAttempts
  <2> QED
    BY <1>3, <1>12, <2>1, <2>2, KnownAttempts
<1>13. ASSUME NEW b, b \in Range(Attempts(trail'[r], row'[r]))
       PROVE  b \in Range(Attempts(rows, row[r])) \/ b = new
  <2>1. CASE \E i \in DOMAIN FromTrail(trail'[r]) : b = FromTrail(trail'[r])[i]
    BY <1>3, <1>9, <2>1, KnownAttempts
  <2>2. CASE row[r] # <<>> /\ b = row[r][1] /\ ~StartIn(rows, row[r][1].start)
    BY <1>3, <2>2, KnownAttempts
  <2> QED
    BY <1>2, <1>8, <1>10, <1>13, <2>1, <2>2, KnownAttempts
<1>14. \E b \in Range(Attempts(rows, row[r])) : b.start = new.start
  <2>1. \E i \in DOMAIN FromTrail(rows) : FromTrail(rows)[i].start = new.start
    <3>1. CASE open
      BY <1>5, <1>9, <3>1
    <3>2. CASE ~open
      <4>1. new.start = run[x].start
        BY <1>5, <3>2 DEF s
      <4>2. StartIn(rows, new.start)
        BY <1>4, <4>1
      <4> QED
        BY <1>3, <4>2, PastStarts
    <3> QED
      BY <3>1, <3>2
  <2> QED
    BY <1>3, <2>1, KnownAttempts
<1>15. ASSUME WithinAttempt(r, t) PROVE WithinAttempt(r, t)' \/ BeforeEndIsKnown(r, t)'
  <2>1. PICK b \in Range(Attempts(rows, row[r])) : InWindow(b, t, now, window)
    BY <1>15 DEF WithinAttempt, AttemptsOf
  <2>2. CASE b \in Range(Attempts(trail'[r], row'[r]))
    BY <1>2, <2>1, <2>2 DEF WithinAttempt, AttemptsOf
  <2>3. CASE open /\ b.start = s /\ b.finish = Open
    <3>1. t >= s - window
      BY <2>1, <2>3 DEF InWindow
    <3>2. CASE t <= run[x].finish + window
      <4>1. InWindow(new, t, now, window)
        BY <1>4, <1>5, <3>1, <3>2 DEF InWindow
      <4> QED
        BY <1>2, <1>11, <4>1 DEF WithinAttempt, AttemptsOf
    <3>3. CASE ~(t <= run[x].finish + window)
      <4>1. t \in (e.start - window)..(e.at + window)
        BY <1>1, <1>4, <1>5, <3>3
      <4>2. e \in Range(trail'[r])
        BY <1>7 DEF Range
      <4> QED
        BY <1>2, <1>4, <1>5, <4>1, <4>2 DEF BeforeEndIsKnown
    <3> QED
      BY <3>2, <3>3
  <2> QED
    BY <1>12, <2>1, <2>2, <2>3
<1>16. ASSUME BeforeAttempts(r, t) PROVE BeforeAttempts(r, t)'
  <2>1. t >= approvedAt[r] - window /\ \A b \in Range(Attempts(rows, row[r])) : t <= b.start + window
    BY <1>16 DEF BeforeAttempts, AttemptsOf
  <2>2. \A b \in Range(Attempts(trail'[r], row'[r])) : t <= b.start + window
    BY <1>13, <1>14, <2>1
  <2> QED
    BY <1>2, <2>1, <2>2 DEF BeforeAttempts, AttemptsOf
<1>17. BeforeEndIsKnown(r, t) => BeforeEndIsKnown(r, t)'
  <2>1. Range(rows) \subseteq Range(trail'[r])
    BY <1>7 DEF Range
  <2> QED
    BY <1>2, <2>1 DEF BeforeEndIsKnown
<1>18. ASSUME WhileUnrecorded(r, t) PROVE WhileUnrecorded(r, t)'
  <2>1. PICK y \in Run : of[y] = r /\ run[y].start # Open /\ t >= run[y].start - window /\ ~Recorded(y)
    BY <1>18 DEF WhileUnrecorded
  <2>2. ~StartIn(trail'[r], run[y].start)
    BY <1>10, <2>1 DEF Recorded, StartIn
  <2>3. ~Recorded(y)'
    BY <1>2, <2>1, <2>2 DEF Recorded, StartIn
  <2> QED
    BY <1>2, <2>1, <2>3 DEF WhileUnrecorded
<1> QED
  BY <1>15, <1>16, <1>17, <1>18 DEF InTime

----------------------------------------------------------------------------
(* Every step keeps the invariant behind the times.                         *)

LEMMA TimeInit == Init => TimeInv
<1> SUFFICES ASSUME Init PROVE TimeInv
  OBVIOUS
<1>1. RunsOk
  <2>1. Run \subseteq Worker /\ now = 0 /\ pc = [w \in Worker |-> "idle"]
        /\ run = [x \in Run |-> [start |-> Open, finish |-> Open]]
    BY DEF Init, Worker
  <2>2. \A x \in Run : pc[x] = "idle" /\ run[x].start = Open /\ run[x].finish = Open
    BY <2>1
  <2>3. Open <= now
    BY <2>1 DEF Open
  <2> QED
    BY <2>1, <2>2, <2>3 DEF RunsOk
<1>2. TrailsOk
  <2>1. \A r \in Request : trail[r] = <<>> /\ <<>> \in Seq(Range(<<>>)) /\ DOMAIN <<>> = {}
    BY DEF Init
  <2> QED
    BY <2>1 DEF TrailsOk, EveryStartThere
<1>3. RowsOk /\ ApprovedOk /\ EvaluatedOk
  BY DEF Init, RowsOk, ApprovedOk, EvaluatedOk
<1>4. FoundInTime /\ CorrelationsInTime
  BY DEF Init, FoundInTime, CorrelationsInTime
<1> QED
  BY <1>1, <1>2, <1>3, <1>4 DEF TimeInv

\* What was found and what was inserted stays in time, if everything does.
LEMMA FoundKept ==
  ASSUME LogOk, TimeInv, Worker' = Worker, correlation' = correlation,
         \A r \in Request, t \in Nat : t <= now /\ status[r] # "submitted" /\ InTime(r, t) => InTime(r, t)',
         \A w \in Worker : found[w] \subseteq Request /\ found'[w] \subseteq found[w],
         \A w \in Worker : found'[w] # {} => on'[w] = on[w],
         \A i \in observed : happened'[i] = happened[i]
  PROVE  FoundInTime' /\ CorrelationsInTime'
<1>1. \A i \in observed : happened[i].time <= now
  BY DEF LogOk
<1>2. FoundInTime'
  <2> SUFFICES ASSUME NEW w \in Worker, NEW r \in found'[w], NEW t \in Nat, t = happened'[on'[w]].time
               PROVE  InTime(r, t)'
    BY DEF FoundInTime
  <2>1. r \in found[w] /\ r \in Request /\ on'[w] = on[w] /\ on[w] \in observed /\ status[r] # "submitted"
    BY DEF TimeInv, EvaluatedOk, ApprovedOk
  <2>2. t = happened[on[w]].time /\ t <= now
    BY <1>1, <2>1
  <2>3. InTime(r, t)
    BY <2>1, <2>2 DEF TimeInv, FoundInTime
  <2> QED
    BY <2>1, <2>2, <2>3
<1>3. CorrelationsInTime'
  <2> SUFFICES ASSUME NEW c \in correlation, NEW t \in Nat, t = happened'[c.event].time
               PROVE  InTime(c.request, t)'
    BY DEF CorrelationsInTime
  <2>1. c.request \in Request /\ c.event \in observed /\ status[c.request] # "submitted"
    BY DEF TimeInv, ApprovedOk
  <2>2. t = happened[c.event].time /\ t <= now
    BY <1>1, <2>1
  <2>3. InTime(c.request, t)
    BY <2>2 DEF TimeInv, CorrelationsInTime
  <2> QED
    BY <2>1, <2>2, <2>3
<1> QED
  BY <1>2, <1>3

\* A step that leaves the records of the executions alone.
LEMMA RecordsKept ==
  ASSUME Shape, TimeInv, UNCHANGED <<scenario, approvedAt, row, trail, run>>, now' \in Nat, now <= now',
         \A x \in Run : pc'[x] \in {"idle", "begun"} => pc[x] \in {"idle", "begun"},
         \A x \in Run : pc'[x] \in {"auditStarted", "directory", "auditFinished"} => pc[x] = pc'[x]
  PROVE  /\ RunsOk' /\ TrailsOk' /\ RowsOk'
         /\ \A r \in Request, t \in Nat : InTime(r, t) => InTime(r, t)'
<1>1. Worker' = Worker /\ Run' = Run /\ of' = of /\ now \in Nat
  BY SameWorkers DEF Shape
<1>2. RunsOk'
  <2>1. run \in [Run -> [start : Nat \cup {Open}, finish : Nat \cup {Open}]]
    BY DEF TimeInv, RunsOk
  <2>2. ASSUME NEW x \in Run
        PROVE  /\ run[x].start <= now' /\ run[x].finish <= now'
               /\ Recorded(x)' <=> Recorded(x)
    <3>1. run[x].start \in Nat \cup {Open} /\ run[x].finish \in Nat \cup {Open}
          /\ run[x].start <= now /\ run[x].finish <= now
      BY <2>1 DEF TimeInv, RunsOk
    <3> QED
      BY <1>1, <3>1 DEF Recorded, Open
  <2> QED
    BY <1>1, <2>1, <2>2 DEF TimeInv, RunsOk
<1>3. TrailsOk'
  <2>1. ASSUME NEW r \in Request, NEW k \in DOMAIN trail[r]
        PROVE  trail[r][k].finish <= now'
    <3>1. trail[r][k].finish \in Nat \cup {Open} /\ trail[r][k].finish <= now
      BY DEF TimeInv, TrailsOk
    <3> QED
      BY <1>1, <3>1 DEF Open
  <2> QED
    BY <2>1 DEF TimeInv, TrailsOk
<1>4. RowsOk'
  <2> SUFFICES ASSUME NEW r \in Request, row[r] # <<>>
               PROVE  \E a : /\ row[r] = <<a>>
                             /\ a.start \in Nat /\ a.finish \in Nat \cup {Open} /\ a.finish <= now'
                             /\ \E x \in Run : of[x] = r /\ run[x].start = a.start
    BY <1>1 DEF RowsOk
  <2>1. PICK a : /\ row[r] = <<a>>
                 /\ a.start \in Nat /\ a.finish \in Nat \cup {Open} /\ a.finish <= now
                 /\ \E x \in Run : of[x] = r /\ run[x].start = a.start
    BY DEF TimeInv, RowsOk
  <2>2. a.finish <= now'
    BY <1>1, <2>1 DEF Open
  <2> QED
    BY <2>1, <2>2
<1>5. \A r \in Request, t \in Nat : InTime(r, t) => InTime(r, t)'
  BY InTimeQuiet
<1> QED
  BY <1>2, <1>3, <1>4, <1>5

\* A request that matches an event now has it in time.
LEMMA MatchInTime ==
  ASSUME NEW r \in Request, NEW i, MatchesNow(r, i), NEW t, t = happened[i].time
  PROVE  InTime(r, t)
<1>1. PICK a \in Range(Windows(AttemptsOf(r), approvedAt[r])) : InWindow(a, t, now, window)
  BY DEF MatchesNow
<1>2. CASE DOMAIN AttemptsOf(r) = {}
  <2> DEFINE b == Attempt(approvedAt[r], Open, <<>>)
  <2>1. Windows(AttemptsOf(r), approvedAt[r]) = <<b>>
    BY <1>2 DEF Windows
  <2>2. b.start = approvedAt[r]
    BY DEF Attempt
  <2> HIDE DEF b
  <2>3. a = b
    BY <1>1, <2>1 DEF Range
  <2>4. t >= approvedAt[r] - window
    BY <1>1, <2>2, <2>3 DEF InWindow
  <2>5. Range(AttemptsOf(r)) = {}
    BY <1>2 DEF Range
  <2> QED
    BY <2>4, <2>5 DEF InTime, BeforeAttempts
<1>3. CASE DOMAIN AttemptsOf(r) # {}
  BY <1>1, <1>3 DEF Windows, InTime, WithinAttempt
<1> QED
  BY <1>2, <1>3

\* A step of the requests' own that leaves the records alone.
LEMMA QuietStep ==
  ASSUME Shape, LogOk, TimeInv, UNCHANGED <<scenario, status, approvedAt, row, trail, run, correlation, observed>>,
         now' \in Nat, now <= now',
         \A i \in observed : happened'[i] = happened[i],
         \A w \in Worker : pc'[w] \in {"idle", "begun"} => pc[w] \in {"idle", "begun"} \/ w \notin Run,
         \A w \in Worker : pc'[w] \in {"auditStarted", "directory", "auditFinished"} => pc[w] = pc'[w],
         \A w \in Worker : \A r \in todo'[w] : r \in todo[w] \/ status[r] # "submitted",
         \A w \in Worker : found'[w] \subseteq found[w],
         \A w \in Worker : found'[w] # {} => on'[w] = on[w] /\ pc'[w] \in {"look", "insert", "aborted"},
         \A w \in Worker : pc'[w] \in {"list", "look", "insert"} => on'[w] \in observed,
         \A x \in Run : queue'[x] \subseteq observed
  PROVE  TimeInv'
<1>1. Worker' = Worker /\ Run' = Run /\ of' = of /\ Run \subseteq Worker
  BY Workers, SameWorkers
<1>2. /\ RunsOk' /\ TrailsOk' /\ RowsOk'
      /\ \A r \in Request, t \in Nat : InTime(r, t) => InTime(r, t)'
  BY <1>1, RecordsKept
<1>3. ApprovedOk'
  BY <1>1 DEF TimeInv, ApprovedOk
<1>4. EvaluatedOk'
  BY <1>1 DEF TimeInv, EvaluatedOk
<1>5. FoundInTime' /\ CorrelationsInTime'
  BY <1>1, <1>2, FoundKept DEF Shape
<1> QED
  BY <1>2, <1>3, <1>4, <1>5 DEF TimeInv

LEMMA TickTime ==
  ASSUME Shape, LogOk, TimeInv, Tick
  PROVE  TimeInv'
<1>1. now' \in Nat /\ now <= now'
  BY DEF Tick, Shape
<1> QED
  BY <1>1, Workers, QuietStep DEF Tick, TimeInv, EvaluatedOk, requestVars, eventVars, evaluation

LEMMA HappensOutsideTime ==
  ASSUME Shape, LogOk, TimeInv, HappensOutside
  PROVE  TimeInv'
<1>1. \A i \in observed : happened'[i] = happened[i]
  BY OutsideGrows DEF Grows, LogOk, Entry
<1>2. /\ UNCHANGED <<scenario, now, status, approvedAt, row, trail, run, correlation, observed, pc, on, todo, found, queue>>
      /\ now' \in Nat /\ now <= now'
  BY DEF HappensOutside, Shape, requestVars, evaluation
<1> QED
  BY <1>1, <1>2, Workers, QuietStep DEF TimeInv, EvaluatedOk

LEMMA AppliedTime ==
  ASSUME Shape, LogOk, TimeInv, NEW x \in Run, Applied(x)
  PROVE  TimeInv'
<1>1. \A i \in observed : happened'[i] = happened[i]
  BY DirectoryGrows DEF Grows, LogOk, Entry
<1>2. /\ UNCHANGED <<scenario, now, status, approvedAt, row, trail, run, correlation, observed, pc, on, todo, found, queue>>
      /\ now' \in Nat /\ now <= now'
  BY DEF Applied, Shape, requestVars, evaluation
<1> QED
  BY <1>1, <1>2, Workers, QuietStep DEF TimeInv, EvaluatedOk

LEMMA RetryTime ==
  ASSUME Shape, LogOk, TimeInv, NEW x \in Run, Retry(x)
  PROVE  TimeInv'
<1>1. pc[x] = "idle" /\ pc' = [pc EXCEPT ![x] = "begun"] /\ x \in Worker
  BY Workers DEF Retry, Goto
<1>2. found[x] = {}
  BY <1>1 DEF TimeInv, EvaluatedOk
<1> QED
  BY <1>1, <1>2, Workers, QuietStep DEF Retry, Shape, TimeInv, EvaluatedOk, requestVars, eventVars, evaluation

LEMMA CandidatesTime ==
  ASSUME Shape, LogOk, TimeInv, NEW x \in Run, Candidates(x)
  PROVE  TimeInv'
<1>1. pc[x] = "candidates" /\ pc' = [pc EXCEPT ![x] = "next"] /\ x \in Worker
  BY Workers DEF Candidates, Goto
<1>2. found[x] = {}
  BY <1>1 DEF TimeInv, EvaluatedOk
<1>3. \A y \in Run : queue'[y] \subseteq observed
  BY DEF Candidates, Shape, TimeInv, EvaluatedOk
<1> QED
  BY <1>1, <1>2, <1>3, Workers, QuietStep DEF Candidates, Shape, TimeInv, EvaluatedOk, requestVars, eventVars, evaluation

LEMMA NextCandidateTime ==
  ASSUME Shape, LogOk, TimeInv, NEW x \in Run, NextCandidate(x)
  PROVE  TimeInv'
<1>1. pc[x] = "next" /\ x \in Worker /\ UNCHANGED <<scenario, now, status, approvedAt, row, trail, run, correlation, observed,
                                                    happened, todo, found>>
  BY Workers DEF NextCandidate, requestVars, eventVars
<1>2. found[x] = {}
  BY <1>1 DEF TimeInv, EvaluatedOk
<1>3. CASE queue[x] = {} /\ pc' = [pc EXCEPT ![x] = "done"] /\ UNCHANGED <<queue, on>>
  BY <1>1, <1>2, <1>3, Workers, QuietStep DEF Shape, TimeInv, EvaluatedOk
<1>4. ASSUME NEW i \in queue[x], queue' = [queue EXCEPT ![x] = @ \ {i}], on' = [on EXCEPT ![x] = i],
             pc' = [pc EXCEPT ![x] = "list"]
      PROVE  TimeInv'
  <2>1. i \in observed /\ \A y \in Run : queue'[y] \subseteq observed
    BY <1>4 DEF Shape, TimeInv, EvaluatedOk
  <2> QED
    BY <1>1, <1>2, <1>4, <2>1, Workers, QuietStep DEF Shape, TimeInv, EvaluatedOk
<1> QED
  BY <1>3, <1>4 DEF NextCandidate, Goto

LEMMA ListRequestsTime ==
  ASSUME Shape, LogOk, TimeInv, NEW w \in Worker, ListRequests(w)
  PROVE  TimeInv'
<1>1. /\ pc[w] = "list" /\ pc' = [pc EXCEPT ![w] = "look"]
      /\ todo' = [todo EXCEPT ![w] = {r \in Request : status[r] \in Correlatable}]
      /\ found' = [found EXCEPT ![w] = {}]
  BY DEF ListRequests, Goto
<1>2. found[w] = {}
  BY <1>1 DEF TimeInv, EvaluatedOk
<1>3. \A v \in Worker : \A r \in todo'[v] : r \in todo[v] \/ status[r] # "submitted"
  BY <1>1 DEF Shape, Correlatable
<1> QED
  BY <1>1, <1>2, <1>3, Workers, QuietStep DEF ListRequests, Shape, TimeInv, EvaluatedOk, requestVars, eventVars

LEMMA FaultTime ==
  ASSUME Shape, LogOk, TimeInv, NEW w \in Worker, Fault(w)
  PROVE  TimeInv'
<1>1. pc' = [pc EXCEPT ![w] = "aborted"]
  BY DEF Fault, Goto
<1> QED
  BY <1>1, Workers, QuietStep DEF Fault, Shape, TimeInv, EvaluatedOk, requestVars, eventVars, evaluation

LEMMA CheckTime ==
  ASSUME Shape, LogOk, TimeInv, NEW w \in Worker, Check(w)
  PROVE  TimeInv'
<1>1. /\ UNCHANGED <<scenario, now, status, approvedAt, row, trail, run, correlation, observed, happened, todo, queue>>
      /\ pc[w] = "look"
      /\ \/ pc' = [pc EXCEPT ![w] = "insert"] /\ UNCHANGED <<on, found>>
         \/ /\ pc' = [pc EXCEPT ![w] = IF w \in Run THEN "next" ELSE "idle"]
            /\ on' = [on EXCEPT ![w] = 0] /\ found' = [found EXCEPT ![w] = {}]
  BY DEF Check, Leave, Goto, requestVars, eventVars
<1> QED
  BY <1>1, Workers, QuietStep DEF Shape, TimeInv, EvaluatedOk

\* A worker looks at a request.
LEMMA LookAtTime ==
  ASSUME Shape, LogOk, TimeInv, NEW w \in Worker, LookAt(w)
  PROVE  TimeInv'
<1>1. PICK s \in todo[w] :
        /\ todo' = [todo EXCEPT ![w] = @ \ {s}]
        /\ found' = [found EXCEPT ![w] = IF MatchesNow(s, on[w]) THEN @ \cup {s} ELSE @]
  BY DEF LookAt
<1>2. /\ UNCHANGED <<scenario, now, status, approvedAt, row, trail, run, correlation, observed, happened, pc, on, queue>>
      /\ pc[w] = "look" /\ Worker' = Worker /\ s \in Request /\ now \in Nat
  BY <1>1, SameWorkers DEF LookAt, Shape, requestVars, eventVars
<1>3. status[s] # "submitted" /\ on[w] \in observed
  BY <1>2 DEF TimeInv, ApprovedOk, EvaluatedOk
<1>4. /\ RunsOk' /\ TrailsOk' /\ RowsOk'
      /\ \A r \in Request, t \in Nat : InTime(r, t) => InTime(r, t)'
  BY <1>2, Workers, RecordsKept
<1>5. \A v \in Worker : /\ todo'[v] \subseteq todo[v]
                        /\ v # w => found'[v] = found[v]
                        /\ found'[w] \subseteq found[w] \cup (IF MatchesNow(s, on[w]) THEN {s} ELSE {})
  BY <1>1 DEF Shape
<1>6. ApprovedOk' /\ EvaluatedOk'
  <2>1. Run' = Run
    BY <1>2, SameWorkers
  <2>2. ApprovedOk'
    BY <1>2, <1>3, <1>5 DEF TimeInv, ApprovedOk
  <2>3. EvaluatedOk'
    BY <1>2, <1>3, <1>5, <2>1 DEF TimeInv, EvaluatedOk
  <2> QED
    BY <2>2, <2>3
<1>7. FoundInTime'
  <2> SUFFICES ASSUME NEW v \in Worker, NEW r \in found'[v], NEW t \in Nat, t = happened[on[v]].time
               PROVE  InTime(r, t)'
    BY <1>2 DEF FoundInTime
  <2>1. CASE r \in found[v]
    BY <1>4, <2>1 DEF TimeInv, FoundInTime, Shape
  <2>2. CASE r \notin found[v]
    <3>1. v = w /\ r = s /\ MatchesNow(s, on[w])
      BY <1>5, <2>2
    <3> QED
      BY <1>2, <1>4, <3>1, MatchInTime
  <2> QED
    BY <2>1, <2>2
<1>8. CorrelationsInTime'
  BY <1>2, <1>4 DEF TimeInv, ApprovedOk, CorrelationsInTime
<1> QED
  BY <1>4, <1>6, <1>7, <1>8 DEF TimeInv

\* A worker inserts what it found.
LEMMA InsertTime ==
  ASSUME Shape, LogOk, TimeInv, NEW w \in Worker, Insert(w)
  PROVE  TimeInv'
<1>1. PICK s \in found[w] : correlation' = correlation \cup {[request |-> s, event |-> on[w], by |-> w]}
  BY DEF Insert
<1> DEFINE new == [request |-> s, event |-> on[w], by |-> w]
<1>2. /\ UNCHANGED <<scenario, now, status, approvedAt, row, trail, run, observed, happened, queue, todo>>
      /\ Worker' = Worker /\ Run' = Run /\ now \in Nat
      /\ pc[w] = "insert" /\ pc' = [pc EXCEPT ![w] = IF w \in Run THEN "next" ELSE "idle"]
      /\ on' = [on EXCEPT ![w] = 0] /\ found' = [found EXCEPT ![w] = {}]
  BY SameWorkers DEF Insert, Leave, Goto, Shape, requestVars, eventVars
<1>3. s \in Request /\ status[s] # "submitted" /\ on[w] \in observed
  BY <1>2 DEF Shape, TimeInv, ApprovedOk, EvaluatedOk
<1>4. new.request = s /\ new.event = on[w] /\ correlation' = correlation \cup {new}
  BY <1>1
<1> HIDE DEF new
<1>5. /\ RunsOk' /\ TrailsOk' /\ RowsOk'
      /\ \A r \in Request, t \in Nat : InTime(r, t) => InTime(r, t)'
  <2>1. \A x \in Run : /\ pc'[x] \in {"idle", "begun"} => pc[x] \in {"idle", "begun"}
                       /\ pc'[x] \in {"auditStarted", "directory", "auditFinished"} => pc[x] = pc'[x]
    BY <1>2, Workers DEF Shape
  <2> QED
    BY <1>2, <2>1, RecordsKept
<1>6. ApprovedOk'
  BY <1>2, <1>3, <1>4 DEF Shape, TimeInv, ApprovedOk
<1>7. EvaluatedOk'
  BY <1>2 DEF Shape, TimeInv, EvaluatedOk
<1>8. FoundInTime'
  <2> SUFFICES ASSUME NEW v \in Worker, NEW r \in found'[v], NEW t \in Nat, t = happened[on'[v]].time
               PROVE  InTime(r, t)'
    BY <1>2 DEF FoundInTime
  <2>1. r \in found[v] /\ on'[v] = on[v] /\ r \in Request
    BY <1>2 DEF Shape
  <2> QED
    BY <1>5, <2>1 DEF TimeInv, FoundInTime
<1>9. CorrelationsInTime'
  <2> SUFFICES ASSUME NEW c \in correlation', NEW t \in Nat, t = happened[c.event].time
               PROVE  InTime(c.request, t)'
    BY <1>2 DEF CorrelationsInTime
  <2>1. CASE c \in correlation
    BY <1>5, <2>1 DEF TimeInv, ApprovedOk, CorrelationsInTime
  <2>2. CASE c = new
    <3>1. InTime(s, t)
      BY <1>4, <2>2 DEF TimeInv, FoundInTime
    <3> QED
      BY <1>3, <1>4, <1>5, <2>2, <3>1
  <2> QED
    BY <1>4, <2>1, <2>2
<1> QED
  BY <1>5, <1>6, <1>7, <1>8, <1>9 DEF TimeInv

LEMMA IngestTime ==
  ASSUME Shape, LogOk, TimeInv, NEW n \in scenario.ingests, IngestWithResult(n)
  PROVE  TimeInv'
<1>1. PICK i \in Entry : on' = [on EXCEPT ![n] = i] /\ observed' = observed \cup {i}
  BY DEF IngestWithResult
<1>2. /\ UNCHANGED <<scenario, now, status, approvedAt, row, trail, run, correlation, happened, queue, todo, found>>
      /\ pc[n] = "idle" /\ pc' = [pc EXCEPT ![n] = "list"] /\ n \in Worker /\ n \notin Run
      /\ Worker' = Worker /\ Run' = Run /\ now \in Nat
  BY Workers, SameWorkers DEF IngestWithResult, Goto, Shape, Worker, requestVars
<1>3. found[n] = {}
  BY <1>2 DEF TimeInv, EvaluatedOk
<1>4. /\ RunsOk' /\ TrailsOk' /\ RowsOk'
      /\ \A r \in Request, t \in Nat : InTime(r, t) => InTime(r, t)'
  <2>1. \A x \in Run : pc'[x] = pc[x]
    BY <1>2 DEF Shape
  <2> QED
    BY <1>2, <2>1, RecordsKept
<1>5. ApprovedOk'
  BY <1>1, <1>2 DEF TimeInv, ApprovedOk
<1>6. EvaluatedOk'
  BY <1>1, <1>2, <1>3 DEF Shape, TimeInv, EvaluatedOk
<1>7. FoundInTime' /\ CorrelationsInTime'
  <2>1. \A w \in Worker : found[w] \subseteq Request /\ (found'[w] # {} => on'[w] = on[w])
    BY <1>1, <1>2, <1>3 DEF Shape
  <2> QED
    BY <1>2, <1>4, <2>1, FoundKept
<1> QED
  BY <1>4, <1>5, <1>6, <1>7 DEF TimeInv

\* A step of an execution up to its correlation.
LEMMA EarlyTime ==
  ASSUME Shape, LogOk, TimeInv, NEW x \in Run, NEW q \in Request, q = of[x], RunsOk', TrailsOk', RowsOk', approvedAt' \in [Request -> Nat \cup {Open}],
         UNCHANGED <<scenario, now, happened, observed, correlation, queue, on, todo, found>>,
         pc[x] \in {"idle"} \cup Early, pc'[x] \in Early, \A w \in Worker \ {x} : pc'[w] = pc[w],
         \A r \in Request : status[r] # "submitted" => status'[r] # "submitted",
         \A r \in Request \ {of[x]} : approvedAt'[r] = approvedAt[r] /\ row'[r] = row[r] /\ trail'[r] = trail[r],
         \A y \in Run : of[y] # of[x] => run'[y].start = run[y].start,
         \A t \in Nat : t <= now /\ status[q] # "submitted" /\ InTime(q, t) => InTime(q, t)'
  PROVE  TimeInv'
<1>1. Worker' = Worker /\ Run' = Run /\ of' = of /\ x \in Worker /\ now \in Nat
  BY Workers, SameWorkers DEF Shape
<1>2. ApprovedOk'
  BY <1>1 DEF Shape, TimeInv, ApprovedOk
<1>3. EvaluatedOk'
  <2>1. found[x] = {} /\ pc'[x] \notin {"list", "look", "insert"}
    BY <1>1 DEF TimeInv, EvaluatedOk, Early
  <2> QED
    BY <1>1, <2>1 DEF TimeInv, EvaluatedOk
<1>4. ASSUME NEW r \in Request, NEW t \in Nat, t <= now, status[r] # "submitted", InTime(r, t)
      PROVE  InTime(r, t)'
  <2>1. CASE r = q
    BY <1>4, <2>1
  <2>2. CASE r # q
    BY <1>1, <1>4, <2>2, InTimeQuiet
  <2> QED
    BY <2>1, <2>2
<1>5. FoundInTime' /\ CorrelationsInTime'
  BY <1>1, <1>4, FoundKept DEF Shape
<1> QED
  BY <1>2, <1>3, <1>5 DEF TimeInv

LEMMA ApproveTime ==
  ASSUME Shape, LogOk, TimeInv, NEW x \in Run, Approve(x)
  PROVE  TimeInv'
<1>1. PICK r \in Request : r = of[x]
  BY Workers
<1>2. /\ UNCHANGED <<scenario, now, row, trail, run, happened, observed, correlation, queue, on, todo, found>>
      /\ now \in Nat /\ status[r] = "submitted" /\ status' = [status EXCEPT ![r] = "approved"]
      /\ approvedAt' = [approvedAt EXCEPT ![r] = now]
      /\ pc[x] = "idle" /\ pc' = [pc EXCEPT ![x] = "begun"] /\ x \in Worker
  BY <1>1, Workers DEF Approve, Goto, Shape, eventVars, evaluation
<1>3. RunsOk'
  <2>1. Run' = Run /\ of' = of
    BY <1>2, SameWorkers
  <2>2. \A y \in Run : Recorded(y)' <=> Recorded(y)
    BY <1>2, <2>1 DEF Recorded
  <2> QED
    BY <1>2, <2>1, <2>2 DEF Shape, TimeInv, RunsOk
<1>4. TrailsOk' /\ RowsOk'
  <2>1. Run' = Run /\ of' = of
    BY <1>2, SameWorkers
  <2> QED
    BY <1>2, <2>1 DEF TimeInv, TrailsOk, RowsOk
<1>5. approvedAt' \in [Request -> Nat \cup {Open}]
  BY <1>2 DEF TimeInv, ApprovedOk
<1> QED
  BY <1>1, <1>2, <1>3, <1>4, <1>5, EarlyTime DEF Shape, Early

LEMMA MarkExecutionStartedTime ==
  ASSUME Shape, LogOk, TimeInv, NEW x \in Run, MarkExecutionStarted(x)
  PROVE  TimeInv'
<1>1. PICK r \in Request : r = of[x]
  BY Workers
<1> DEFINE a == Attempt(now, Open, <<>>)
<1>2. /\ UNCHANGED <<scenario, now, approvedAt, trail, happened, observed, correlation, queue, on, todo, found>>
      /\ now \in Nat /\ status' = [status EXCEPT ![r] = "executing"]
      /\ row' = [row EXCEPT ![r] = <<a>>] /\ run' = [run EXCEPT ![x].start = now]
      /\ pc[x] = "begun" /\ pc' = [pc EXCEPT ![x] = "auditStarted"] /\ x \in Worker
      /\ Run' = Run /\ of' = of
  BY <1>1, Workers, SameWorkers DEF MarkExecutionStarted, Goto, Shape, eventVars, evaluation
<1>3. a.start = now /\ a.finish = Open
  BY DEF Attempt
<1> HIDE DEF a
<1>4. /\ run \in [Run -> [start : Nat \cup {Open}, finish : Nat \cup {Open}]]
      /\ run[x].start = Open
      /\ run'[x].start = now /\ run'[x].finish = run[x].finish
      /\ \A y \in Run \ {x} : run'[y] = run[y] /\ pc'[y] = pc[y]
      /\ pc'[x] = "auditStarted"
      /\ \A q \in Request \ {r} : row'[q] = row[q]
      /\ row'[r] = <<a>>
  BY <1>2, Workers DEF Shape, TimeInv, RunsOk
<1>5. RunsOk'
  <2>1. run' \in [Run -> [start : Nat \cup {Open}, finish : Nat \cup {Open}]]
    BY <1>2, <1>4
  <2>2. ASSUME NEW y \in Run
        PROVE  /\ run'[y].start <= now /\ run'[y].finish <= now
               /\ pc'[y] \in {"idle", "begun"} => run'[y].start = Open
               /\ pc'[y] \in {"auditStarted", "directory", "auditFinished"} => run'[y].start # Open
               /\ pc'[y] \in {"directory", "auditFinished"} => Recorded(y)'
               /\ pc'[y] = "auditFinished" => run'[y].finish # Open /\ run'[y].start <= run'[y].finish
               /\ run'[y].start # Open => row'[of[y]] # <<>>
    <3>1. CASE y = x
      <4>1. run[x].finish <= now
        BY DEF TimeInv, RunsOk
      <4>2. row'[of[x]] # <<>>
        BY <1>1, <1>4
      <4> QED
        BY <1>2, <1>4, <3>1, <4>1, <4>2 DEF Open
    <3>2. CASE y # x
      <4>1. run'[y] = run[y] /\ pc'[y] = pc[y] /\ (row[of[y]] # <<>> => row'[of[y]] # <<>>)
        <5>1. of[y] \in Request /\ <<a>> # <<>>
          BY Workers
        <5>2. CASE of[y] = r
          BY <1>4, <3>2, <5>1, <5>2
        <5>3. CASE of[y] # r
          BY <1>4, <3>2, <5>1, <5>3
        <5> QED
          BY <5>2, <5>3
      <4>2. Recorded(y)' <=> Recorded(y)
        BY <1>2, <4>1 DEF Recorded
      <4> QED
        BY <4>1, <4>2 DEF TimeInv, RunsOk
    <3> QED
      BY <3>1, <3>2
  <2> QED
    BY <1>2, <2>1, <2>2 DEF RunsOk
<1>6. TrailsOk'
  BY <1>2 DEF TimeInv, TrailsOk
<1>7. RowsOk'
  <2> SUFFICES ASSUME NEW q \in Request, row'[q] # <<>>
               PROVE  \E b : /\ row'[q] = <<b>>
                             /\ b.start \in Nat /\ b.finish \in Nat \cup {Open} /\ b.finish <= now
                             /\ \E y \in Run : of[y] = q /\ run'[y].start = b.start
    BY <1>2 DEF RowsOk
  <2>1. CASE q = r
    <3>1. a.start \in Nat /\ a.finish \in Nat \cup {Open} /\ a.finish <= now
      BY <1>2, <1>3 DEF Open
    <3> QED
      BY <1>1, <1>3, <1>4, <2>1, <3>1
  <2>2. CASE q # r
    <3>1. PICK b : /\ row[q] = <<b>>
                   /\ b.start \in Nat /\ b.finish \in Nat \cup {Open} /\ b.finish <= now
                   /\ \E y \in Run : of[y] = q /\ run[y].start = b.start
      BY <1>4, <2>2 DEF TimeInv, RowsOk
    <3> QED
      BY <1>1, <1>4, <2>2, <3>1
  <2> QED
    BY <2>1, <2>2
<1>8. \A t \in Nat : t <= now /\ status[r] # "submitted" /\ InTime(r, t) => InTime(r, t)'
  BY <1>1, InTimeMark
<1>9. \A q \in Request : status[q] # "submitted" => status'[q] # "submitted"
  BY <1>2 DEF Shape
<1>10. \A y \in Run : of[y] # of[x] => run'[y].start = run[y].start
  BY <1>4
<1>11. approvedAt' \in [Request -> Nat \cup {Open}]
  BY <1>2 DEF TimeInv, ApprovedOk
<1> QED
  BY <1>1, <1>2, <1>4, <1>5, <1>6, <1>7, <1>8, <1>9, <1>10, <1>11, EarlyTime DEF Early

\* A row more in the audit trail of a request, which is about a recorded start.
LEMMA TrailGrows ==
  ASSUME Shape, TimeInv, NEW r \in Request, NEW e, trail' = [trail EXCEPT ![r] = Append(@, e)], now' = now,
         e.start \in Nat, e.finish \in Nat \cup {Open}, e.finish <= now, e.at \in Nat,
         IsStart(e) \/ StartIn(trail[r], e.start)
  PROVE  /\ TrailsOk'
         /\ \A q \in Request \ {r} : trail'[q] = trail[q]
         /\ \A s : StartIn(trail[r], s) => StartIn(trail'[r], s)
         /\ IsStart(e) => StartIn(trail'[r], e.start)
<1> DEFINE rows == trail[r]
           m == Len(rows)
<1>1. rows \in Seq(Range(rows)) /\ EveryStartThere(rows)
  BY DEF TimeInv, TrailsOk
<1>2. trail'[r] = Append(rows, e) /\ \A q \in Request \ {r} : trail'[q] = trail[q]
  BY DEF Shape
<1>3. rows \in Seq(Range(rows) \cup {e}) /\ e \in Range(rows) \cup {e}
  BY <1>1
<1> HIDE DEF m
<1>4. /\ DOMAIN trail'[r] = DOMAIN rows \cup {m + 1} /\ trail'[r][m + 1] = e
      /\ \A k \in DOMAIN rows : trail'[r][k] = rows[k]
      /\ trail'[r] \in Seq(Range(trail'[r]))
  <2>1. /\ Append(rows, e) \in Seq(Range(rows) \cup {e})
        /\ DOMAIN Append(rows, e) = DOMAIN rows \cup {m + 1} /\ Append(rows, e)[m + 1] = e
        /\ \A k \in DOMAIN rows : Append(rows, e)[k] = rows[k]
    BY <1>3 DEF m
  <2>2. Append(rows, e) \in Seq(Range(Append(rows, e)))
    BY <2>1, SeqOfRange
  <2> QED
    BY <1>2, <2>1, <2>2
<1>5. /\ \A s : StartIn(rows, s) => StartIn(trail'[r], s)
      /\ IsStart(e) => StartIn(trail'[r], e.start)
  BY <1>4 DEF StartIn
<1>6. EveryStartThere(trail'[r])
  <2> SUFFICES ASSUME NEW k \in DOMAIN trail'[r]
               PROVE  StartIn(trail'[r], trail'[r][k].start)
    BY DEF EveryStartThere, StartIn
  <2>1. CASE k \in DOMAIN rows
    <3>1. StartIn(rows, rows[k].start)
      BY <1>1, <2>1 DEF EveryStartThere, StartIn
    <3> QED
      BY <1>4, <1>5, <2>1, <3>1
  <2>2. CASE k = m + 1
    BY <1>4, <1>5, <2>2
  <2> QED
    BY <1>4, <2>1, <2>2
<1>7. ASSUME NEW k \in DOMAIN trail'[r]
      PROVE  /\ trail'[r][k].start \in Nat /\ trail'[r][k].finish \in Nat \cup {Open} /\ trail'[r][k].at \in Nat
             /\ trail'[r][k].finish <= now
  BY <1>4, <1>7 DEF TimeInv, TrailsOk
<1>8. TrailsOk'
  <2> HIDE DEF rows
  <2> QED
    BY <1>2, <1>4, <1>6, <1>7 DEF TimeInv, TrailsOk
<1> QED
  BY <1>2, <1>5, <1>8

LEMMA AuditStartedTime ==
  ASSUME Shape, LogOk, TimeInv, NEW x \in Run, AuditStarted(x)
  PROVE  TimeInv'
<1>1. PICK r \in Request : r = of[x]
  BY Workers
<1> DEFINE e == [event |-> "execution_started", start |-> run[x].start, finish |-> Open, steps |-> <<>>, at |-> now]
<1>2. /\ UNCHANGED <<scenario, now, status, approvedAt, row, run, happened, observed, correlation, queue, on, todo, found>>
      /\ now \in Nat /\ trail' = [trail EXCEPT ![r] = Append(@, e)]
      /\ pc[x] = "auditStarted" /\ pc' = [pc EXCEPT ![x] = "directory"] /\ x \in Worker
      /\ Run' = Run /\ of' = of
  BY <1>1, Workers, SameWorkers DEF AuditStarted, Goto, Shape, eventVars, evaluation
<1>3. run[x].start \in Nat
  BY <1>2 DEF TimeInv, RunsOk
<1>4. IsStart(e) /\ e.start = run[x].start /\ e.finish = Open /\ e.at = now /\ Open <= now
  BY <1>2 DEF IsStart, Open
<1> HIDE DEF e
<1>5. /\ TrailsOk'
      /\ \A q \in Request \ {r} : trail'[q] = trail[q]
      /\ \A s : StartIn(trail[r], s) => StartIn(trail'[r], s)
      /\ StartIn(trail'[r], run[x].start)
  BY <1>2, <1>3, <1>4, TrailGrows
<1>6. Recorded(x)' /\ \A y \in Run : Recorded(y) => Recorded(y)'
  BY <1>1, <1>2, <1>5, Workers DEF Recorded, StartIn
<1>7. RunsOk'
  BY <1>2, <1>6 DEF Shape, TimeInv, RunsOk
<1>8. RowsOk'
  BY <1>2 DEF TimeInv, RowsOk
<1>9. \A t \in Nat : t <= now /\ status[r] # "submitted" /\ InTime(r, t) => InTime(r, t)'
  BY <1>1, InTimeStarted
<1>10. pc'[x] \in Early /\ \A w \in Worker \ {x} : pc'[w] = pc[w]
  BY <1>2 DEF Shape, Early
<1>11. approvedAt' \in [Request -> Nat \cup {Open}] /\ pc[x] \in Early
  BY <1>2 DEF TimeInv, ApprovedOk, Early
<1> QED
  BY <1>1, <1>2, <1>5, <1>7, <1>8, <1>9, <1>10, <1>11, EarlyTime

LEMMA AuditFinishedTime ==
  ASSUME Shape, LogOk, TimeInv, NEW x \in Run, AuditFinished(x)
  PROVE  TimeInv'
<1>1. PICK r \in Request : r = of[x]
  BY Workers
<1> DEFINE e == [event |-> IF done[x] = Len(Plan(x)) THEN "execution_finished" ELSE "execution_failed",
                 start |-> run[x].start, finish |-> run[x].finish, steps |-> Result(x), at |-> now]
<1>2. /\ UNCHANGED <<scenario, now, status, approvedAt, row, run, happened, observed, correlation, queue, on, todo, found>>
      /\ now \in Nat /\ trail' = [trail EXCEPT ![r] = Append(@, e)]
      /\ pc[x] = "auditFinished" /\ pc' = [pc EXCEPT ![x] = "candidates"] /\ x \in Worker
      /\ Run' = Run /\ of' = of
  BY <1>1, Workers, SameWorkers DEF AuditFinished, Goto, Shape, eventVars, evaluation
<1>3. run[x].start \in Nat /\ run[x].finish \in Nat /\ run[x].finish <= now /\ StartIn(trail[r], run[x].start)
  BY <1>1, <1>2 DEF TimeInv, RunsOk, Recorded, StartIn
<1>4. e.start = run[x].start /\ e.finish = run[x].finish /\ e.at = now
  OBVIOUS
<1> HIDE DEF e
<1>5. /\ TrailsOk'
      /\ \A q \in Request \ {r} : trail'[q] = trail[q]
      /\ \A s : StartIn(trail[r], s) => StartIn(trail'[r], s)
  BY <1>2, <1>3, <1>4, TrailGrows
<1>6. \A y \in Run : Recorded(y) => Recorded(y)'
  BY <1>1, <1>2, <1>5, Workers DEF Recorded, StartIn
<1>7. RunsOk'
  BY <1>2, <1>6 DEF Shape, TimeInv, RunsOk
<1>8. RowsOk'
  BY <1>2 DEF TimeInv, RowsOk
<1>9. \A t \in Nat : t <= now /\ status[r] # "submitted" /\ InTime(r, t) => InTime(r, t)'
  BY <1>1, InTimeEnded
<1>10. pc'[x] \in Early /\ \A w \in Worker \ {x} : pc'[w] = pc[w]
  BY <1>2 DEF Shape, Early
<1>11. approvedAt' \in [Request -> Nat \cup {Open}] /\ pc[x] \in Early
  BY <1>2 DEF TimeInv, ApprovedOk, Early
<1> QED
  BY <1>1, <1>2, <1>5, <1>7, <1>8, <1>9, <1>10, <1>11, EarlyTime

LEMMA MarkExecutionFinishedTime ==
  ASSUME Shape, LogOk, TimeInv, NEW x \in Run, MarkExecutionFinished(x)
  PROVE  TimeInv'
<1>1. PICK r \in Request : r = of[x]
  BY Workers
<1> DEFINE a == Attempt(row[r][1].start, now, Result(x))
           end == IF done[x] = Len(Plan(x)) THEN "executed" ELSE "failed"
<1>2. /\ UNCHANGED <<scenario, now, approvedAt, trail, happened, observed, correlation, queue, on, todo, found>>
      /\ now \in Nat /\ status' = [status EXCEPT ![r] = end] /\ end # "submitted"
      /\ row' = [row EXCEPT ![r] = <<a>>] /\ run' = [run EXCEPT ![x].finish = now]
      /\ pc[x] = "directory" /\ pc' = [pc EXCEPT ![x] = "auditFinished"] /\ x \in Worker
      /\ Run' = Run /\ of' = of
  BY <1>1, Workers, SameWorkers DEF MarkExecutionFinished, Goto, Shape, eventVars, evaluation
<1>3. a.start = row[r][1].start /\ a.finish = now
  BY DEF Attempt
<1> HIDE DEF a, end
<1>4. /\ run \in [Run -> [start : Nat \cup {Open}, finish : Nat \cup {Open}]]
      /\ run[x].start \in Nat /\ run[x].start <= now /\ Recorded(x)
      /\ run'[x].finish = now /\ \A y \in Run : run'[y].start = run[y].start
      /\ \A y \in Run \ {x} : run'[y] = run[y] /\ pc'[y] = pc[y]
      /\ pc'[x] = "auditFinished"
      /\ \A q \in Request \ {r} : row'[q] = row[q]
      /\ row'[r] = <<a>>
  BY <1>2, Workers DEF Shape, TimeInv, RunsOk
<1>5. RunsOk'
  <2>1. run' \in [Run -> [start : Nat \cup {Open}, finish : Nat \cup {Open}]]
    BY <1>2, <1>4
  <2>2. ASSUME NEW y \in Run
        PROVE  /\ run'[y].start <= now /\ run'[y].finish <= now
               /\ pc'[y] \in {"idle", "begun"} => run'[y].start = Open
               /\ pc'[y] \in {"auditStarted", "directory", "auditFinished"} => run'[y].start # Open
               /\ pc'[y] \in {"directory", "auditFinished"} => Recorded(y)'
               /\ pc'[y] = "auditFinished" => run'[y].finish # Open /\ run'[y].start <= run'[y].finish
               /\ run'[y].start # Open => row'[of[y]] # <<>>
    <3>1. Recorded(y)' <=> Recorded(y)
      BY <1>2, <1>4 DEF Recorded
    <3>2. CASE y = x
      <4>1. row'[of[x]] # <<>>
        BY <1>1, <1>4
      <4> QED
        BY <1>2, <1>4, <3>1, <3>2, <4>1 DEF Open
    <3>3. CASE y # x
      <4>1. run'[y] = run[y] /\ pc'[y] = pc[y] /\ (row[of[y]] # <<>> => row'[of[y]] # <<>>)
        <5>1. of[y] \in Request /\ <<a>> # <<>>
          BY Workers
        <5>2. CASE of[y] = r
          BY <1>4, <3>3, <5>1, <5>2
        <5>3. CASE of[y] # r
          BY <1>4, <3>3, <5>1, <5>3
        <5> QED
          BY <5>2, <5>3
      <4> QED
        BY <3>1, <4>1 DEF TimeInv, RunsOk
    <3> QED
      BY <3>2, <3>3
  <2> QED
    BY <1>2, <2>1, <2>2 DEF RunsOk
<1>6. TrailsOk'
  BY <1>2 DEF TimeInv, TrailsOk
<1>7. RowsOk'
  <2> SUFFICES ASSUME NEW q \in Request, row'[q] # <<>>
               PROVE  \E b : /\ row'[q] = <<b>>
                             /\ b.start \in Nat /\ b.finish \in Nat \cup {Open} /\ b.finish <= now
                             /\ \E y \in Run : of[y] = q /\ run'[y].start = b.start
    BY <1>2 DEF RowsOk
  <2>1. row[q] # <<>>
    BY <1>1, <1>4 DEF TimeInv, RunsOk, Open
  <2>2. PICK b : /\ row[q] = <<b>>
                 /\ b.start \in Nat /\ b.finish \in Nat \cup {Open} /\ b.finish <= now
                 /\ \E y \in Run : of[y] = q /\ run[y].start = b.start
    BY <2>1 DEF TimeInv, RowsOk
  <2>3. CASE q = r
    <3>1. a.start = b.start
      BY <1>3, <2>2, <2>3
    <3> QED
      BY <1>2, <1>3, <1>4, <2>2, <2>3, <3>1
  <2>4. CASE q # r
    BY <1>4, <2>2, <2>4
  <2> QED
    BY <2>3, <2>4
<1>8. \A t \in Nat : t <= now /\ status[r] # "submitted" /\ InTime(r, t) => InTime(r, t)'
  BY <1>1, InTimeFinish
<1>9. \A q \in Request : status[q] # "submitted" => status'[q] # "submitted"
  BY <1>2 DEF Shape
<1>10. pc'[x] \in Early /\ pc[x] \in Early
  BY <1>2, <1>4 DEF Early
<1>11. approvedAt' \in [Request -> Nat \cup {Open}] /\ \A w \in Worker \ {x} : pc'[w] = pc[w]
  BY <1>2 DEF Shape, TimeInv, ApprovedOk
<1> QED
  BY <1>1, <1>2, <1>4, <1>5, <1>6, <1>7, <1>8, <1>9, <1>10, <1>11, EarlyTime

LEMMA TimeNext == CorrelationInv /\ TimeInv /\ [Next]_vars => TimeInv'
<1> SUFFICES ASSUME CorrelationInv, TimeInv, [Next]_vars
             PROVE  TimeInv'
  OBVIOUS
<1>a. Shape /\ LogOk
  BY DEF CorrelationInv
<1>1. CASE Tick
  BY <1>a, <1>1, TickTime
<1>2. CASE HappensOutside
  BY <1>a, <1>2, HappensOutsideTime
<1>3. ASSUME NEW x \in Run, Execute(x)
      PROVE  TimeInv'
  BY <1>a, <1>3, ApproveTime, RetryTime, MarkExecutionStartedTime, AuditStartedTime, AppliedTime,
     MarkExecutionFinishedTime, AuditFinishedTime, CandidatesTime, NextCandidateTime
     DEF Execute, DirectoryStep, UnreportedStep
<1>4. ASSUME NEW n \in scenario.ingests, IngestWithResult(n)
      PROVE  TimeInv'
  BY <1>a, <1>4, IngestTime
<1>5. ASSUME NEW w \in Worker, Evaluate(w) \/ Fault(w)
      PROVE  TimeInv'
  BY <1>a, <1>5, ListRequestsTime, LookAtTime, CheckTime, InsertTime, FaultTime DEF Evaluate
<1>6. CASE UNCHANGED vars
  <2>1. now' \in Nat /\ now <= now'
    BY <1>a, <1>6 DEF vars, Shape
  <2> QED
    BY <1>a, <1>6, <2>1, Workers, QuietStep DEF vars, TimeInv, EvaluatedOk, requestVars, eventVars, evaluation
<1> QED
  BY <1>1, <1>2, <1>3, <1>4, <1>5, <1>6 DEF Next

----------------------------------------------------------------------------
(* The writer's steps for a payload are a sequence of such steps.           *)

\* A set of natural numbers has a least one, and a finite one a k-th.
LEMMA NatLeast ==
  ASSUME NEW T \in SUBSET Nat, T # {}
  PROVE  \E x \in T : \A y \in T : x <= y
<1> DEFINE R == {p \in Nat \X Nat : p[1] < p[2]}
<1>1. IsWellFoundedOn(R, Nat)
  BY NatLessThanWellFounded, Zenon DEF OpToRel
<1>2. PICK x \in T : \A y \in T : ~(<<y, x>> \in R)
  BY <1>1, WFMin
<1>3. \A y \in T : ~(y < x)
  BY <1>2
<1> QED
  BY <1>3

LEMMA NthIn ==
  ASSUME NEW m \in Nat, NEW S \in SUBSET (1..m), NEW k \in 1..Cardinality(S)
  PROVE  Nth(S, k) \in S
<1> DEFINE Below(n) == {j \in S : j <= n}
           T == {n \in Nat : k <= Cardinality(Below(n))}
<1>0. \A j \in S : j \in Nat /\ 1 <= j /\ j <= m
  OBVIOUS
<1>1. IsFiniteSet(S) /\ Cardinality(S) \in Nat
  <2>1. IsFiniteSet(1..m)
    BY FS_Interval
  <2> QED
    BY <2>1, FS_Subset, FS_CardinalityType
<1>2. ASSUME NEW n
      PROVE  IsFiniteSet(Below(n)) /\ Cardinality(Below(n)) \in Nat
  <2>1. Below(n) \in SUBSET S
    OBVIOUS
  <2> HIDE DEF Below
  <2> QED
    BY <1>1, <2>1, FS_Subset, FS_CardinalityType
<1>3. Below(m) = S /\ Below(0) = {}
  <2>1. \A j \in S : j <= m /\ ~(j <= 0)
    BY <1>0
  <2> QED
    BY <2>1, Zenon
<1>4. ASSUME NEW n \in Nat
      PROVE  /\ Below(n + 1) = IF n + 1 \in S THEN Below(n) \cup {n + 1} ELSE Below(n)
             /\ n + 1 \notin Below(n)
  <2>1. \A j \in S : j <= n + 1 <=> j <= n \/ j = n + 1
    BY <1>0
  <2>2. ~(n + 1 <= n) /\ n + 1 <= n + 1
    OBVIOUS
  <2> DEFINE l == n + 1
  <2>3. \A j \in S : j <= l <=> j <= n \/ j = l
    BY <2>1
  <2>4. ~(l <= n) /\ l <= l
    BY <2>2
  <2> HIDE DEF l
  <2>5. Below(l) = (IF l \in S THEN Below(n) \cup {l} ELSE Below(n)) /\ l \notin Below(n)
    BY <2>3, <2>4, Zenon
  <2> QED
    BY <2>5 DEF l
<1>6. Nth(S, k) = CHOOSE i \in S : Cardinality(Below(i)) = k
  BY DEF Nth
<1> HIDE DEF Below
<1>7. Cardinality(Below(m)) \in Nat /\ k <= Cardinality(Below(m)) /\ 1 <= k /\ k \in Nat
  BY <1>1, <1>3
<1>8. PICK n \in T : \A l \in T : n <= l
  <2>1. T \in SUBSET Nat /\ m \in T
    BY <1>7
  <2> HIDE DEF T
  <2> QED
    BY <2>1, NatLeast
<1>9. n # 0
  <2>1. Cardinality(Below(0)) = 0
    BY <1>3, FS_EmptySet
  <2> QED
    BY <1>7, <1>8, <2>1
<1>10. PICK l \in Nat : n = l + 1
  <2>1. n - 1 \in Nat /\ n = (n - 1) + 1
    BY <1>8, <1>9
  <2> QED
    BY <2>1
<1>11. k <= Cardinality(Below(l + 1)) /\ ~(k <= Cardinality(Below(l)))
  BY <1>8, <1>10
<1>12. l + 1 \in S
  BY <1>4, <1>11
<1>13. Cardinality(Below(l + 1)) = Cardinality(Below(l)) + 1
  BY <1>2, <1>4, <1>12, FS_AddElement
<1>14. Cardinality(Below(l + 1)) = k
  BY <1>2, <1>7, <1>11, <1>13
<1> QED
  BY <1>6, <1>12, <1>14

\* What a step of the writer can be.
PlainStep(p, name) == Step(name, "none", Absent, Full(p.target).dn, Absent)
StepSet(p) ==
  {PlainStep(p, "create-user"), PlainStep(p, "set-password"),
   [PlainStep(p, "set-enabled-state") EXCEPT !.enabled = p.enabled],
   [PlainStep(p, "update-attributes") EXCEPT !.attrs = {c.attr : c \in p.changes}]}
  \cup {MemberStep(p, p.members[i]) : i \in DOMAIN p.members}

LEMMA MemberStepsAre ==
  ASSUME NEW p, NEW q \in Seq(Range(p.members))
  PROVE  MemberSteps(p, q) \in Seq(StepSet(p))
<1>1. \A i \in 1..Len(q) : MemberStep(p, q[i]) \in StepSet(p)
  <2> SUFFICES ASSUME NEW i \in 1..Len(q) PROVE MemberStep(p, q[i]) \in StepSet(p)
    OBVIOUS
  <2>1. q[i] \in Range(p.members)
    OBVIOUS
  <2>2. PICK k \in DOMAIN p.members : q[i] = p.members[k]
    BY <2>1 DEF Range
  <2> QED
    BY <2>2 DEF StepSet
<1>2. Len(q) \in Nat /\ DOMAIN q = 1..Len(q)
  OBVIOUS
<1> QED
  BY <1>1, <1>2 DEF MemberSteps

\* The groups with a DN, in their order, are some of the members.
LEMMA GivenAre ==
  ASSUME NEW s, s \in Seq(Range(s)), NEW named \in SUBSET DOMAIN s
  PROVE  [k \in 1..Cardinality(named) |-> s[Nth(named, k)]] \in Seq(Range(s))
<1>1. Len(s) \in Nat /\ DOMAIN s = 1..Len(s)
  OBVIOUS
<1>2. Cardinality(named) \in Nat
  <2>1. IsFiniteSet(1..Len(s))
    BY <1>1, FS_Interval
  <2> QED
    BY <1>1, <2>1, FS_Subset, FS_CardinalityType
<1>3. \A k \in 1..Cardinality(named) : Nth(named, k) \in DOMAIN s
  BY <1>1, NthIn
<1>4. \A k \in 1..Cardinality(named) : s[Nth(named, k)] \in Range(s)
  BY <1>3 DEF Range
<1> QED
  BY <1>2, <1>4

LEMMA StepsAre ==
  ASSUME NEW p, p.members \in Seq(Range(p.members))
  PROVE  Steps(p) \in Seq(StepSet(p))
<1> DEFINE named == {i \in DOMAIN p.members : p.members[i].ref.dn # Absent}
           given == [k \in 1..Cardinality(named) |-> p.members[Nth(named, k)]]
           S == StepSet(p)
           create == PlainStep(p, "create-user")
           password == PlainStep(p, "set-password")
           state == [PlainStep(p, "set-enabled-state") EXCEPT !.enabled = p.enabled]
           update == [PlainStep(p, "update-attributes") EXCEPT !.attrs = {c.attr : c \in p.changes}]
           ofGiven == MemberSteps(p, given)
           ofMembers == MemberSteps(p, p.members)
<1>1. ofGiven \in Seq(S) /\ ofMembers \in Seq(S)
  BY GivenAre, MemberStepsAre
<1>2. create \in S /\ password \in S /\ state \in S /\ update \in S
  BY DEF StepSet
<1>3. Steps(p) = CASE p.kind = "user_create" ->
                        <<create>> \o (IF p.password THEN <<password>> ELSE <<>>) \o <<state>> \o ofGiven
                   [] p.kind \in AccountKinds -> (IF p.changes = {} THEN <<>> ELSE <<update>>) \o ofMembers
                   [] OTHER -> ofMembers
  BY DEF Steps, PlainStep
<1> HIDE DEF S, create, password, state, update, ofGiven, ofMembers
<1>4. <<create>> \in Seq(S) /\ <<password>> \in Seq(S) /\ <<state>> \in Seq(S) /\ <<update>> \in Seq(S) /\ <<>> \in Seq(S)
  BY <1>2
<1>5. \A a, b : a \in Seq(S) /\ b \in Seq(S) => a \o b \in Seq(S)
  OBVIOUS
<1>6. Steps(p) \in Seq(S)
  <2> DEFINE pw == IF p.password THEN <<password>> ELSE <<>>
             up == IF p.changes = {} THEN <<>> ELSE <<update>>
  <2>1. pw \in Seq(S) /\ up \in Seq(S)
    BY <1>4
  <2>2. <<create>> \o pw \o <<state>> \o ofGiven \in Seq(S) /\ up \o ofMembers \in Seq(S)
    <3> HIDE DEF pw, up
    <3>1. <<create>> \o pw \in Seq(S)
      BY <1>4, <1>5, <2>1
    <3>2. <<create>> \o pw \o <<state>> \in Seq(S)
      BY <1>4, <1>5, <3>1
    <3> QED
      BY <1>1, <1>5, <2>1, <3>2
  <2>3. Steps(p) = CASE p.kind = "user_create" -> <<create>> \o pw \o <<state>> \o ofGiven
                     [] p.kind \in AccountKinds -> up \o ofMembers
                     [] OTHER -> ofMembers
    BY <1>3
  <2> HIDE DEF pw, up
  <2> QED
    BY <1>1, <2>2, <2>3 DEF AccountKinds
<1> QED
  BY <1>6 DEF S

----------------------------------------------------------------------------
(* The invariant behind the types: with whose steps and up to when the      *)
(* attempts are, which is what the signals of an attempt depend on.         *)

\* An attempt of r: its steps are the first of the writer's for its payload.
AttemptOf(s, r, a) ==
  /\ a.start \in 0..s.horizon \cup {Open} /\ a.finish \in 0..s.horizon \cup {Open}
  /\ \E k \in 0..Len(Steps(s.payload[r])) : a.steps = SubSeq(Steps(s.payload[r]), 1, k)

TimesOk ==
  /\ now \in 0..scenario.horizon
  /\ approvedAt \in [Request -> 0..scenario.horizon \cup {Open}]
  /\ run \in [Run -> [start : 0..scenario.horizon \cup {Open}, finish : 0..scenario.horizon \cup {Open}]]
  /\ faults \in 0..scenario.faults

AttemptsOk ==
  /\ \A r \in Request : row[r] = <<>> \/ \E a : row[r] = <<a>> /\ AttemptOf(scenario, r, a)
  /\ \A r \in Request : \A i \in DOMAIN trail[r] : AttemptOf(scenario, r, trail[r][i])

DoneOk == done \in [Run -> Nat] /\ \A x \in Run : done[x] <= Len(Steps(scenario.payload[scenario.of[x]]))

EventsOk ==
  /\ \A w \in Worker : on[w] \in Entry \cup {0}
  /\ correlation \subseteq [request : Request, event : observed, by : Worker]

TypeInv == TimesOk /\ AttemptsOk /\ DoneOk /\ EventsOk

\* The steps of a request, and which of them an attempt can have.
LEMMA StepsOf ==
  ASSUME NEW s \in Scenarios, NEW r \in Request
  PROVE  /\ Steps(s.payload[r]) \in Seq(StepSet(s.payload[r]))
         /\ Len(Steps(s.payload[r])) \in Nat
         /\ SubSeq(Steps(s.payload[r]), 1, 0) = <<>>
<1>1. s.payload[r].members \in Seq(Range(s.payload[r].members))
  BY ScenariosAssumption
<1>2. Steps(s.payload[r]) \in Seq(StepSet(s.payload[r]))
  BY <1>1, StepsAre
<1> QED
  BY <1>2

LEMMA TypeInit == Init => TypeInv
<1> SUFFICES ASSUME Init PROVE TypeInv
  OBVIOUS
<1>1. scenario \in Scenarios /\ scenario.horizon \in Nat /\ scenario.faults \in Nat /\ \A x \in Run : of[x] \in Request
  BY ScenariosAssumption DEF Init, Run, of
<1>2. TimesOk
  BY <1>1 DEF Init, TimesOk
<1>3. AttemptsOk
  <2>1. \A r \in Request : row[r] = <<>> /\ DOMAIN trail[r] = {}
    BY DEF Init
  <2> QED
    BY <2>1 DEF AttemptsOk
<1>4. DoneOk
  BY <1>1, StepsOf DEF Init, DoneOk, of
<1>5. EventsOk
  BY DEF Init, EventsOk
<1> QED
  BY <1>2, <1>3, <1>4, <1>5 DEF TypeInv

LEMMA AttemptsKept ==
  ASSUME AttemptsOk, UNCHANGED <<scenario, row, trail>>
  PROVE  AttemptsOk'
BY DEF AttemptsOk

LEMMA DoneKept ==
  ASSUME DoneOk, UNCHANGED <<scenario, done>>
  PROVE  DoneOk'
BY DEF DoneOk, Run, of

LEMMA TimesKept ==
  ASSUME TimesOk, UNCHANGED <<scenario, now, approvedAt, run, faults>>
  PROVE  TimesOk'
BY DEF TimesOk, Run, of

LEMMA EventsKept ==
  ASSUME EventsOk, UNCHANGED <<scenario, correlation>>, observed \subseteq observed',
         DOMAIN happened \subseteq DOMAIN happened',
         \A w \in Worker : on'[w] = on[w] \/ on'[w] \in DOMAIN happened' \/ on'[w] = 0
  PROVE  EventsOk'
<1>1. Worker' = Worker
  BY SameWorkers
<1> QED
  BY <1>1 DEF EventsOk, Entry

\* What the steps before and after an execution's directory operation leave.
LEMMA ApproveType ==
  ASSUME Shape, TypeInv, NEW x \in Run, Approve(x)
  PROVE  TypeInv'
<1>1. TimesOk'
  BY DEF Approve, TypeInv, TimesOk, Run, of
<1> QED
  BY <1>1, AttemptsKept, DoneKept, EventsKept DEF Approve, TypeInv, eventVars, evaluation

LEMMA MarkExecutionStartedType ==
  ASSUME Shape, TypeInv, NEW x \in Run, MarkExecutionStarted(x)
  PROVE  TypeInv'
<1>1. of[x] \in Request /\ scenario \in Scenarios
  BY Workers DEF Shape
<1>2. TimesOk'
  BY DEF MarkExecutionStarted, TypeInv, TimesOk, Run, of
<1>3. AttemptsOk'
  <2> DEFINE a == Attempt(now, Open, <<>>)
  <2>1. a.start = now /\ a.finish = Open /\ a.steps = <<>>
    BY DEF Attempt
  <2>2. AttemptOf(scenario, of[x], a)
    <3>1. 0 \in 0..Len(Steps(scenario.payload[of[x]])) /\ SubSeq(Steps(scenario.payload[of[x]]), 1, 0) = <<>>
      BY <1>1, StepsOf
    <3> QED
      BY <2>1, <3>1 DEF AttemptOf, TypeInv, TimesOk
  <2>3. row' = [row EXCEPT ![of[x]] = <<a>>] /\ UNCHANGED <<scenario, trail>> /\ DOMAIN row = Request
    BY DEF MarkExecutionStarted, Shape
  <2> HIDE DEF a
  <2> QED
    BY <2>2, <2>3 DEF AttemptsOk, TypeInv
<1> QED
  BY <1>2, <1>3, DoneKept, EventsKept DEF MarkExecutionStarted, TypeInv, eventVars, evaluation

LEMMA TrailType ==
  ASSUME AttemptsOk, NEW r \in Request, NEW e, AttemptOf(scenario, r, e),
         UNCHANGED <<scenario, row>>, trail' = [trail EXCEPT ![r] = Append(@, e)], DOMAIN trail = Request,
         trail[r] \in Seq(Range(trail[r]))
  PROVE  AttemptsOk'
<1>1. ASSUME NEW q \in Request, NEW i \in DOMAIN trail'[q]
      PROVE  AttemptOf(scenario, q, trail'[q][i])
  <2>1. CASE q = r
    <3>1. trail'[r] = Append(trail[r], e)
      OBVIOUS
    <3>2. \/ i \in DOMAIN trail[r] /\ trail'[r][i] = trail[r][i]
          \/ trail'[r][i] = e
      BY <2>1, <3>1
    <3> QED
      BY <2>1, <3>2 DEF AttemptsOk
  <2>2. CASE q # r
    BY <2>2 DEF AttemptsOk
  <2> QED
    BY <2>1, <2>2
<1> QED
  BY <1>1 DEF AttemptsOk

LEMMA AuditStartedType ==
  ASSUME Shape, TimeInv, TypeInv, NEW x \in Run, AuditStarted(x)
  PROVE  TypeInv'
<1>1. of[x] \in Request /\ scenario \in Scenarios
  BY Workers DEF Shape
<1> DEFINE e == [event |-> "execution_started", start |-> run[x].start, finish |-> Open, steps |-> <<>>, at |-> now]
<1>2. AttemptOf(scenario, of[x], e)
  <2>1. 0 \in 0..Len(Steps(scenario.payload[of[x]])) /\ SubSeq(Steps(scenario.payload[of[x]]), 1, 0) = <<>>
    BY <1>1, StepsOf
  <2> QED
    BY <2>1 DEF AttemptOf, TypeInv, TimesOk
<1>3. trail' = [trail EXCEPT ![of[x]] = Append(@, e)] /\ UNCHANGED <<scenario, row>> /\ DOMAIN trail = Request
  BY DEF AuditStarted, Shape
<1>4. AttemptsOk'
  <2> HIDE DEF e
  <2> QED
    BY <1>1, <1>2, <1>3, TrailType DEF TypeInv, TimeInv, TrailsOk
<1> QED
  BY <1>4, TimesKept, DoneKept, EventsKept DEF AuditStarted, TypeInv, eventVars, evaluation

LEMMA ResultOf ==
  ASSUME Shape, TypeInv, NEW x \in Run
  PROVE  \E k \in 0..Len(Steps(scenario.payload[of[x]])) : Result(x) = SubSeq(Steps(scenario.payload[of[x]]), 1, k)
<1>1. done[x] \in 0..Len(Steps(scenario.payload[of[x]]))
  BY Workers, StepsOf DEF TypeInv, DoneOk, Shape, of
<1> QED
  BY <1>1 DEF Result, Plan, payload

LEMMA AuditFinishedType ==
  ASSUME Shape, TimeInv, TypeInv, NEW x \in Run, AuditFinished(x)
  PROVE  TypeInv'
<1>1. of[x] \in Request /\ scenario \in Scenarios
  BY Workers DEF Shape
<1> DEFINE e == [event |-> IF done[x] = Len(Plan(x)) THEN "execution_finished" ELSE "execution_failed",
                 start |-> run[x].start, finish |-> run[x].finish, steps |-> Result(x), at |-> now]
<1>2. AttemptOf(scenario, of[x], e)
  BY ResultOf DEF AttemptOf, TypeInv, TimesOk
<1>3. trail' = [trail EXCEPT ![of[x]] = Append(@, e)] /\ UNCHANGED <<scenario, row>> /\ DOMAIN trail = Request
  BY DEF AuditFinished, Shape
<1>4. AttemptsOk'
  <2> HIDE DEF e
  <2> QED
    BY <1>1, <1>2, <1>3, TrailType DEF TypeInv, TimeInv, TrailsOk
<1> QED
  BY <1>4, TimesKept, DoneKept, EventsKept DEF AuditFinished, TypeInv, eventVars, evaluation

LEMMA MarkExecutionFinishedType ==
  ASSUME Shape, TimeInv, TypeInv, NEW x \in Run, MarkExecutionFinished(x)
  PROVE  TypeInv'
<1>1. of[x] \in Request
  BY Workers
<1>2. TimesOk'
  BY DEF MarkExecutionFinished, TypeInv, TimesOk, Run, of
<1>3. AttemptsOk'
  <2>1. PICK b : row[of[x]] = <<b>> /\ AttemptOf(scenario, of[x], b)
    BY <1>1 DEF MarkExecutionFinished, TimeInv, RunsOk, TypeInv, AttemptsOk
  <2> DEFINE a == Attempt(b.start, now, Result(x))
  <2>2. a.start = b.start /\ a.finish = now /\ a.steps = Result(x)
    BY DEF Attempt
  <2>3. AttemptOf(scenario, of[x], a)
    BY <2>1, <2>2, ResultOf DEF AttemptOf, TypeInv, TimesOk
  <2>4. row' = [row EXCEPT ![of[x]] = <<a>>] /\ UNCHANGED <<scenario, trail>> /\ DOMAIN row = Request
    BY <2>1 DEF MarkExecutionFinished, Shape
  <2> HIDE DEF a
  <2> QED
    BY <2>3, <2>4 DEF AttemptsOk, TypeInv
<1> QED
  BY <1>2, <1>3, DoneKept, EventsKept DEF MarkExecutionFinished, TypeInv, eventVars, evaluation

LEMMA AppliedType ==
  ASSUME Shape, LogOk, TypeInv, NEW x \in Run, DirectoryStep(x) \/ UnreportedStep(x)
  PROVE  TypeInv'
<1>a. Applied(x)
  BY DEF DirectoryStep, UnreportedStep
<1>1. Grows(happened, happened')
  BY <1>a, DirectoryGrows
<1>2. DoneOk'
  <2>1. Len(Steps(scenario.payload[of[x]])) \in Nat /\ done[x] < Len(Steps(scenario.payload[of[x]]))
    BY <1>a, Workers, StepsOf DEF Applied, Plan, payload, Shape
  <2>2. scenario' = scenario /\ done \in [Run -> Nat]
    BY <1>a DEF Applied, TypeInv, DoneOk
  <2>3. CASE DirectoryStep(x)
    BY <2>1, <2>2, <2>3 DEF DirectoryStep, TypeInv, DoneOk, Run, of
  <2>4. CASE UnreportedStep(x)
    BY <2>2, <2>4 DEF UnreportedStep, TypeInv, DoneOk, Run, of
  <2> QED
    BY <2>3, <2>4
<1> QED
  BY <1>a, <1>1, <1>2, TimesKept, AttemptsKept, EventsKept
     DEF Applied, TypeInv, requestVars, evaluation, Grows

\* The steps that neither record nor log anything.
LEMMA OtherType ==
  ASSUME Shape, LogOk, TypeInv, UNCHANGED <<scenario, now, row, trail, approvedAt, run, done, correlation, faults>>,
         observed \subseteq observed', DOMAIN happened \subseteq DOMAIN happened',
         \A w \in Worker : on'[w] = on[w] \/ on'[w] \in DOMAIN happened' \/ on'[w] = 0
  PROVE  TypeInv'
BY TimesKept, AttemptsKept, DoneKept, EventsKept DEF TypeInv

LEMMA TypeNext == CorrelationInv /\ TimeInv /\ TypeInv /\ [Next]_vars => TypeInv'
<1> SUFFICES ASSUME CorrelationInv, TimeInv, TypeInv, [Next]_vars
             PROVE  TypeInv'
  OBVIOUS
<1>a. Shape /\ LogOk
  BY DEF CorrelationInv
<1>b. DOMAIN on = Worker /\ observed \subseteq DOMAIN happened /\ scenario.horizon \in Nat /\ scenario.faults \in Nat
  BY <1>a, ScenariosAssumption DEF Shape, LogOk, Entry
<1>1. CASE Tick
  <2>1. TimesOk'
    BY <1>b, <1>1 DEF Tick, TypeInv, TimesOk, Run, of, requestVars
  <2> QED
    BY <1>1, <2>1, AttemptsKept, DoneKept, EventsKept DEF Tick, TypeInv, requestVars, eventVars, evaluation
<1>2. CASE HappensOutside
  <2>1. Grows(happened, happened')
    BY <1>a, <1>2, OutsideGrows
  <2> QED
    BY <1>a, <1>2, <2>1, OtherType DEF HappensOutside, requestVars, evaluation, Grows
<1>3. ASSUME NEW x \in Run, Execute(x)
      PROVE  TypeInv'
  <2>1. CASE Retry(x) \/ Candidates(x)
    BY <1>a, <2>1, OtherType DEF Retry, Candidates, requestVars, eventVars, evaluation
  <2>2. CASE NextCandidate(x)
    <3>1. queue[x] \subseteq observed
      BY DEF TimeInv, EvaluatedOk
    <3>2. \A w \in Worker : on'[w] = on[w] \/ on'[w] \in DOMAIN happened
      BY <1>b, <2>2, <3>1 DEF NextCandidate
    <3> QED
      BY <1>a, <2>2, <3>2, OtherType DEF NextCandidate, requestVars, eventVars
  <2> QED
    BY <1>a, <1>3, <2>1, <2>2, ApproveType, MarkExecutionStartedType, AuditStartedType, AppliedType,
       MarkExecutionFinishedType, AuditFinishedType DEF Execute
<1>4. ASSUME NEW n \in scenario.ingests, IngestWithResult(n)
      PROVE  TypeInv'
  <2>1. \A w \in Worker : on'[w] = on[w] \/ on'[w] \in DOMAIN happened
    BY <1>b, <1>4 DEF IngestWithResult, Entry
  <2> QED
    BY <1>a, <1>4, <2>1, OtherType DEF IngestWithResult, requestVars, eventVars
<1>5. ASSUME NEW w \in Worker, ListRequests(w) \/ LookAt(w) \/ Check(w)
      PROVE  TypeInv'
  <2>1. \A v \in Worker : on'[v] = on[v] \/ on'[v] = 0
    BY <1>b, <1>5 DEF ListRequests, LookAt, Check, Leave
  <2> QED
    BY <1>a, <1>5, <2>1, OtherType DEF ListRequests, LookAt, Check, requestVars, eventVars
<1>6. ASSUME NEW w \in Worker, Insert(w)
      PROVE  TypeInv'
  <2>1. PICK r \in found[w] : correlation' = correlation \cup {[request |-> r, event |-> on[w], by |-> w]}
    BY <1>6 DEF Insert
  <2>2. r \in Request /\ on[w] \in observed
    BY <1>a, <1>6 DEF Insert, Shape, TimeInv, EvaluatedOk
  <2>3. /\ UNCHANGED <<scenario, observed, happened>> /\ Worker' = Worker
        /\ \A v \in Worker : on'[v] = on[v] \/ on'[v] = 0
    BY <1>b, <1>6, SameWorkers DEF Insert, Leave, eventVars
  <2>4. EventsOk'
    BY <2>1, <2>2, <2>3 DEF EventsOk, TypeInv, Entry
  <2> QED
    BY <1>6, <2>4, TimesKept, AttemptsKept, DoneKept DEF Insert, TypeInv, requestVars
<1>7. ASSUME NEW w \in Worker, Fault(w)
      PROVE  TypeInv'
  <2>1. TimesOk'
    BY <1>b, <1>7 DEF Fault, TypeInv, TimesOk, Run, of, requestVars
  <2> QED
    BY <1>7, <2>1, AttemptsKept, DoneKept, EventsKept DEF Fault, TypeInv, requestVars, eventVars, evaluation
<1>8. CASE UNCHANGED vars
  BY <1>a, <1>8, OtherType DEF vars, requestVars, eventVars, evaluation
<1> QED
  BY <1>1, <1>2, <1>3, <1>4, <1>5, <1>6, <1>7, <1>8 DEF Next, Evaluate

----------------------------------------------------------------------------
(* What an event is about, and what the request is about that matches it.   *)

\* What a match shows.
Fits(p, e) == About(p, e) \/ GoesByOthersName(p, e)

LEMMA FullIs ==
  ASSUME NEW ref, NEW o \in Object, Matches(o, ref), Names(o, ref)
  PROVE  Full(ref) = o
<1>1. \A q \in Object : Matches(q, ref) => q = o
  BY ObjectAssumption DEF Matches, Names
<1>2. Full(ref) \in Object /\ Matches(Full(ref), ref)
  BY DEF Full
<1> QED
  BY <1>1, <1>2

\* What a payload's target and members are.
LEMMA TargetIs ==
  ASSUME NEW s \in Scenarios, NEW r \in Request
  PROVE  /\ Full(s.payload[r].target) \in Object
         /\ Names(Full(s.payload[r].target), s.payload[r].target)
         /\ \A i \in DOMAIN s.payload[r].members : Full(s.payload[r].members[i].ref) \in Object
<1> DEFINE p == s.payload[r]
<1>1. PICK o \in Object : Matches(o, p.target) /\ Names(o, p.target)
  BY PayloadAssumption
<1>2. Full(p.target) = o
  BY <1>1, FullIs
<1>3. \A i \in DOMAIN p.members : \E q \in Object : Matches(q, p.members[i].ref)
  BY PayloadAssumption
<1> QED
  BY <1>1, <1>2, <1>3 DEF Full

\* Every step of the writer names the target where ResolvedDn looks for it.
LEMMA StepTarget ==
  ASSUME NEW s \in Scenarios, NEW r \in Request, NEW p, p = s.payload[r], NEW t \in StepSet(p)
  PROVE  IF p.kind \in {"group_change"} \cup MembershipKinds
         THEN t.group \in {Absent, Full(p.target).dn} ELSE t.account = Full(p.target).dn
<1>1. p.kind \in {"user_create", "group_change"} \cup AccountKinds \cup MembershipKinds
  BY PayloadAssumption
<1>2. p.kind = "account_update" => p.members = <<>>
  BY PayloadAssumption
<1>3. CASE t \in {PlainStep(p, "create-user"), PlainStep(p, "set-password"),
                  [PlainStep(p, "set-enabled-state") EXCEPT !.enabled = p.enabled],
                  [PlainStep(p, "update-attributes") EXCEPT !.attrs = {c.attr : c \in p.changes}]}
  BY <1>3 DEF PlainStep, Step
<1>4. CASE \E i \in DOMAIN p.members : t = MemberStep(p, p.members[i])
  <2>1. PICK i \in DOMAIN p.members : t = MemberStep(p, p.members[i])
    BY <1>4
  <2>2. p.kind # "account_update"
    BY <1>2, <2>1
  <2> QED
    BY <1>1, <2>1, <2>2 DEF MemberStep, Step, AccountKinds, MembershipKinds
<1> QED
  BY <1>3, <1>4 DEF StepSet

LEMMA ResolvedIs ==
  ASSUME NEW s \in Scenarios, NEW r \in Request, NEW p, p = s.payload[r],
         NEW steps \in Seq(StepSet(p))
  PROVE  ResolvedDn(p, steps) \in {Absent, Full(p.target).dn}
<1> DEFINE Dn(t) == IF p.kind \in {"group_change"} \cup MembershipKinds THEN t.group ELSE t.account
           known == {i \in DOMAIN steps : Dn(steps[i]) # Absent}
<1>1. \A t \in StepSet(p) : Dn(t) \in {Absent, Full(p.target).dn}
  BY StepTarget
<1>2. \A i \in DOMAIN steps : i \in Nat /\ steps[i] \in StepSet(p)
  OBVIOUS
<1>3. ResolvedDn(p, steps) = IF known = {} THEN Absent ELSE Dn(steps[CHOOSE i \in known : \A j \in known : i <= j])
  BY DEF ResolvedDn
<1> HIDE DEF Dn
<1>4. CASE known # {}
  <2>1. known \in SUBSET Nat /\ known \subseteq DOMAIN steps
    BY <1>2
  <2> HIDE DEF known
  <2>2. \E i \in known : \A j \in known : i <= j
    BY <1>4, <2>1, NatLeast
  <2> QED
    BY <1>1, <1>2, <1>3, <1>4, <2>1, <2>2
<1> QED
  BY <1>3, <1>4

LEMMA FirstSteps ==
  ASSUME NEW s \in Scenarios, NEW r \in Request, NEW k \in 0..Len(Steps(s.payload[r]))
  PROVE  SubSeq(Steps(s.payload[r]), 1, k) \in Seq(StepSet(s.payload[r]))
BY StepsOf

LEMMA MatchIsAbout ==
  ASSUME NEW p, NEW e, NEW steps, MatchesRequest(p, e, steps)
  PROVE  AboutTarget(p, e, steps) \/ AboutTarget(p, e, <<>>) \/ Matches(EventMember(e), p.target)
<1>1. CASE p.kind \in MembershipKinds
  BY <1>1 DEF MatchesRequest, AboutMembership
<1>2. CASE p.kind \notin MembershipKinds
  <2>1. DetectedSignals(p, e, steps) # {}
    BY <1>2 DEF MatchesRequest
  <2>2. AboutTarget(p, e, steps) \/ AboutTarget(p, e, <<>>) \/ Matches(EventMember(e), p.target)
    BY <2>1 DEF DetectedSignals
  <2> QED
    BY <2>2
<1> QED
  BY <1>1, <1>2

LEMMA AboutIs ==
  ASSUME NEW s \in Scenarios, NEW r \in Request, NEW p, p = s.payload[r], NEW e, Told(e),
         NEW steps \in Seq(StepSet(p)), AboutTarget(p, e, steps)
  PROVE  Fits(p, e)
<1> DEFINE t == Full(p.target)
<1>1. t \in Object /\ Names(t, p.target)
  BY TargetIs
<1>2. PICK o \in Object, m \in Object : Tells(e, o, m)
  BY DEF Told
<1>3. o = t => Fits(p, e)
  BY <1>2 DEF Tells, About, Fits
<1>4. ASSUME NEW f \in Field \ {"sam"}, EventTarget(e)[f] # Absent, EventTarget(e)[f] = t[f]
      PROVE  Fits(p, e)
  <2>1. EventTarget(e)[f] = o[f]
    BY <1>2, <1>4 DEF Tells
  <2> QED
    BY <1>1, <1>3, <1>4, <2>1, ObjectAssumption
<1>5. CASE Matches(EventTarget(e), p.target)
  <2>1. PICK f \in Field : EventTarget(e)[f] # Absent /\ EventTarget(e)[f] = p.target[f]
    BY <1>5 DEF Matches
  <2>2. p.target[f] = t[f]
    BY <1>1, <2>1 DEF Names
  <2>3. CASE f # "sam"
    BY <1>4, <2>1, <2>2, <2>3
  <2>4. CASE f = "sam"
    <3>1. o.sam = t.sam => Fits(p, e)
      BY <1>1, <1>3, ObjectAssumption DEF Field
    <3>2. /\ p.target.sam # Absent /\ p.target.sam = t.sam
          /\ Coalesce(e.sam, Coalesce(e.data.name, Coalesce(e.data.oldName, e.data.newName))) = p.target.sam
      BY <2>1, <2>2, <2>4 DEF EventTarget, Ref
    <3>3. CASE e.sam # Absent
      <4>1. e.sam = p.target.sam
        BY <3>2, <3>3 DEF Coalesce
      <4>2. CASE e.id \in GroupEvents \/ e.data.name # Absent
        BY <1>2, <3>1, <3>2, <3>3, <4>1, <4>2 DEF Tells
      <4>3. CASE e.id \notin GroupEvents /\ e.data.name = Absent
        BY <3>2, <4>1, <4>3 DEF Fits, GoesByOthersName
      <4> QED
        BY <4>2, <4>3
    <3>4. CASE e.sam = Absent
      <4>1. e.data.name \in {Absent, o.sam} /\ e.data.oldName \in {Absent, o.sam}
        BY <1>2 DEF Tells
      <4>2. e.data.newName # Absent => e.data.oldName # Absent
        BY <1>2 DEF Tells
      <4>3. o.sam = t.sam
        BY <3>2, <3>4, <4>1, <4>2 DEF Coalesce
      <4> QED
        BY <3>1, <4>3
    <3> QED
      BY <3>3, <3>4
  <2> QED
    BY <2>3, <2>4
<1>6. CASE Matches(EventTarget(e), ByDn(ResolvedDn(p, steps)))
  <2>1. ResolvedDn(p, steps) \in {Absent, t.dn}
    BY ResolvedIs
  <2>2. EventTarget(e).dn # Absent /\ EventTarget(e).dn = ResolvedDn(p, steps)
    BY <1>6 DEF Matches, ByDn, Ref, Field
  <2>3. "dn" \in Field \ {"sam"}
    BY DEF Field
  <2> QED
    BY <1>4, <2>1, <2>2, <2>3
<1>7. CASE e.data.oldName # Absent /\ e.data.oldName = p.target.sam
  <2>1. o.sam = t.sam
    BY <1>1, <1>2, <1>7 DEF Tells, Names, Field
  <2> QED
    BY <1>1, <1>3, <2>1, ObjectAssumption DEF Field
<1>8. CASE \E c \in Renames(p) : e.data.newName = <<"sam", c.value>>
  BY <1>8 DEF Fits, GoesByOthersName
<1> QED
  BY <1>5, <1>6, <1>7, <1>8 DEF AboutTarget

LEMMA MemberIs ==
  ASSUME NEW s \in Scenarios, NEW r \in Request, NEW p, p = s.payload[r], NEW e, Told(e),
         Matches(EventMember(e), p.target)
  PROVE  Fits(p, e)
<1> DEFINE t == Full(p.target)
<1>1. t \in Object /\ Names(t, p.target)
  BY TargetIs
<1>2. PICK o \in Object, m \in Object : Tells(e, o, m)
  BY DEF Told
<1>3. PICK f \in Field : EventMember(e)[f] # Absent /\ EventMember(e)[f] = p.target[f]
  BY DEF Matches
<1>4. /\ e.data.memberSid = m.sid
      /\ EventMember(e)[f] \in IF f = "sam" THEN {m.sam, e.data.memberCn} ELSE {m[f]}
  BY <1>2, <1>3 DEF Tells
<1>5. EventMember(e)[f] = t[f]
  BY <1>1, <1>3 DEF Names
<1>6. CASE f = "sam" /\ EventMember(e)[f] = e.data.memberCn
  BY <1>3, <1>6 DEF Fits, GoesByOthersName
<1>7. CASE ~(f = "sam" /\ EventMember(e)[f] = e.data.memberCn)
  <2>1. m = t
    BY <1>1, <1>4, <1>5, <1>7, ObjectAssumption DEF Field
  <2> QED
    BY <1>4, <2>1 DEF About, Fits
<1> QED
  BY <1>6, <1>7

LEMMA NormalisedIs ==
  ASSUME NEW id, NEW data, NEW lookup, NEW user, NEW e, e = Normalised(id, data, lookup, user)
  PROVE  /\ e.id = id /\ e.guid = data.guid /\ e.dn = data.dn /\ e.data = data
         /\ e.sam = IF id \in GroupEvents THEN data.name ELSE Coalesce(data.name, user)
         /\ e.subject = IF id \in GroupEvents THEN Coalesce(data.memberSam, Coalesce(lookup, data.memberCn)) ELSE Absent
BY DEF Normalised

\* What the events that a step leaves tell.
LEMMA AccountTold ==
  ASSUME NEW o \in Object, NEW id \in Nat \ GroupEvents, NEW facts, NEW user
  PROVE  Told(AccountEvent(id, o, facts)) /\ Told(ObjectEvent(id, o, facts, user))
<1> DEFINE a == AccountEvent(id, o, facts)
           b == ObjectEvent(id, o, facts, user)
<1>0. o.sam # Absent
  BY ObjectAssumption DEF Field
<1>1. /\ a.guid = Absent /\ a.dn = Absent /\ a.sam = o.sam /\ a.subject = Absent
      /\ a.data.guid = Absent /\ a.data.sid = o.sid /\ a.data.dn = Absent /\ a.data.name = o.sam
      /\ a.data.oldName = Absent /\ a.data.newName = Absent
      /\ a.data.memberDn = Absent /\ a.data.memberSid = Absent /\ a.data.memberSam = Absent /\ a.data.memberCn = Absent
  BY <1>0 DEF AccountEvent, Normalised, NoData, Coalesce
<1>2. /\ b.id = id /\ b.guid = o.guid /\ b.dn = o.dn /\ b.subject = Absent
      /\ b.data.guid = o.guid /\ b.data.sid = Absent /\ b.data.dn = o.dn /\ b.data.name = Absent
      /\ b.data.oldName = Absent /\ b.data.newName = Absent
      /\ b.data.memberDn = Absent /\ b.data.memberSid = Absent /\ b.data.memberSam = Absent /\ b.data.memberCn = Absent
  BY DEF ObjectEvent, Normalised, NoData
<1> HIDE DEF a, b
<1>3. Tells(a, o, o)
  BY <1>1 DEF Tells, EventTarget, EventMember, Ref, Coalesce, Field
<1>4. Tells(b, o, o)
  BY <1>2 DEF Tells, EventTarget, EventMember, Ref, Coalesce, Field
<1>5. Told(a) /\ Told(b)
  BY <1>3, <1>4 DEF Told
<1> QED
  BY <1>5 DEF a, b

LEMMA RenameTold ==
  ASSUME NEW o \in Object, NEW new, NEW user
  PROVE  Told(RenameEvent(o, new, user))
<1> DEFINE e == RenameEvent(o, new, user)
<1>1. 4781 \notin GroupEvents
  BY DEF GroupEvents, GroupAddEvents, GroupRemoveEvents
<1>2. /\ e.id = 4781 /\ e.guid = Absent /\ e.dn = Absent /\ e.subject = Absent
      /\ e.data.guid = Absent /\ e.data.sid = o.sid /\ e.data.dn = Absent /\ e.data.name = Absent
      /\ e.data.oldName = o.sam /\ e.data.newName = new
      /\ e.data.memberDn = Absent /\ e.data.memberSid = Absent /\ e.data.memberSam = Absent /\ e.data.memberCn = Absent
  <2> DEFINE data == [NoData EXCEPT !.sid = o.sid, !.oldName = o.sam, !.newName = new]
  <2>2. e = Normalised(4781, data, Absent, user)
    BY DEF RenameEvent
  <2> HIDE DEF e
  <2>3. /\ data.guid = Absent /\ data.sid = o.sid /\ data.dn = Absent /\ data.name = Absent
        /\ data.oldName = o.sam /\ data.newName = new
        /\ data.memberDn = Absent /\ data.memberSid = Absent /\ data.memberSam = Absent /\ data.memberCn = Absent
    BY DEF NoData
  <2> HIDE DEF data
  <2> QED
    BY <1>1, <2>2, <2>3, NormalisedIs
<1> HIDE DEF e
<1>4. o.sam # Absent
  BY ObjectAssumption DEF Field
<1>5. Tells(e, o, o)
  BY <1>1, <1>2, <1>4 DEF Tells, EventTarget, EventMember, Ref, Coalesce, Field
<1>6. Told(e)
  BY <1>5 DEF Told
<1> QED
  BY <1>6 DEF e

LEMMA MembershipTold ==
  ASSUME NEW op, NEW group \in Object, NEW member \in Object, NEW lookup \in {Absent, member.sam}
  PROVE  Told(MembershipEvent(op, group, member, lookup))
<1> DEFINE e == MembershipEvent(op, group, member, lookup)
<1>1. /\ e.guid = Absent /\ e.dn = Absent /\ e.sam = group.sam /\ e.subject = Coalesce(Absent, Coalesce(lookup, member.cn))
      /\ e.data.guid = Absent /\ e.data.sid = group.sid /\ e.data.dn = Absent /\ e.data.name = group.sam
      /\ e.data.oldName = Absent /\ e.data.newName = Absent
      /\ e.data.memberDn = member.dn /\ e.data.memberSid = member.sid /\ e.data.memberSam = Absent
      /\ e.data.memberCn = member.cn
  <2>1. (IF op = "add" THEN 4728 ELSE 4729) \in GroupEvents
    BY DEF GroupEvents, GroupAddEvents, GroupRemoveEvents
  <2> DEFINE data == [NoData EXCEPT !.sid = group.sid, !.name = group.sam, !.memberDn = member.dn,
                                    !.memberSid = member.sid, !.memberCn = member.cn]
  <2>2. e = Normalised(IF op = "add" THEN 4728 ELSE 4729, data, lookup, Absent)
    BY DEF MembershipEvent
  <2> HIDE DEF e
  <2>3. /\ data.guid = Absent /\ data.sid = group.sid /\ data.dn = Absent /\ data.name = group.sam
        /\ data.oldName = Absent /\ data.newName = Absent
        /\ data.memberDn = member.dn /\ data.memberSid = member.sid /\ data.memberSam = Absent
        /\ data.memberCn = member.cn
    BY DEF NoData
  <2> HIDE DEF data
  <2> QED
    BY <2>1, <2>2, <2>3, NormalisedIs
<1> HIDE DEF e
<1>2. Tells(e, group, member)
  BY <1>1 DEF Tells, EventTarget, EventMember, Ref, Coalesce, Field
<1>3. Told(e)
  BY <1>2 DEF Told
<1> QED
  BY <1>3 DEF e

LEMMA ChangeTold ==
  ASSUME NEW o \in Object, NEW c
  PROVE  Told(ChangeEvent(o, c))
<1>1. 4722 \in Nat \ GroupEvents /\ 4725 \in Nat \ GroupEvents /\ 4738 \in Nat \ GroupEvents
  BY DEF GroupEvents, GroupAddEvents, GroupRemoveEvents
<1>2. CASE c.attr = "sAMAccountName"
  BY <1>2, RenameTold DEF ChangeEvent
<1>3. CASE c.attr # "sAMAccountName"
  BY <1>1, <1>3, AccountTold DEF ChangeEvent
<1> QED
  BY <1>2, <1>3

LEMMA LoggedTold ==
  ASSUME NEW s \in Scenarios, NEW r \in Request, NEW p, p = s.payload[r],
         NEW t \in StepSet(p), NEW alt \in Logged(p, t), NEW e \in alt
  PROVE  Told(e)
<1> DEFINE o == Full(p.target)
<1>1. o \in Object
  BY TargetIs
<1>2. {4720, 5137, 4724, 4738, 4722, 5136} \subseteq Nat \ GroupEvents
  BY DEF GroupEvents, GroupAddEvents, GroupRemoveEvents
<1>3. CASE t.name \in {"create-user", "set-password", "set-enabled-state"}
  <2>1. \/ \E id \in {4720, 4724, 4738, 4722} : \E facts : e = AccountEvent(id, o, facts)
        \/ \E id \in {5137, 5136} : \E facts : e = ObjectEvent(id, o, facts, actor)
    BY <1>3 DEF Logged
  <2> QED
    BY <1>1, <1>2, <2>1, AccountTold
<1>4. CASE t.name = "update-attributes"
  <2>1. \E c \in p.changes : e = ObjectEvent(5136, o, SignalsOfChange(c), actor) \/ e = ChangeEvent(o, c)
    BY <1>4 DEF Logged
  <2> QED
    BY <1>1, <1>2, <2>1, AccountTold, ChangeTold
<1>5. CASE \E i \in DOMAIN p.members : t = MemberStep(p, p.members[i])
  <2>1. PICK i \in DOMAIN p.members : t = MemberStep(p, p.members[i])
    BY <1>5
  <2>2. Full(p.members[i].ref) \in Object
    BY TargetIs
  <2>3. t.name \in {"group", "member"} /\ (\E q \in Object : q.dn = t.account) /\ (\E q \in Object : q.dn = t.group)
    BY <1>1, <2>1, <2>2 DEF MemberStep, Step
  <2> DEFINE member == CHOOSE q \in Object : q.dn = t.account
             group == CHOOSE q \in Object : q.dn = t.group
  <2>4. member \in Object /\ group \in Object
    BY <2>3
  <2>5. \E lookup \in {Absent, member.sam} : e = MembershipEvent(t.op, group, member, lookup)
    BY <2>3 DEF Logged
  <2> HIDE DEF member, group
  <2> QED
    BY <2>4, <2>5, MembershipTold
<1>6. \/ t.name \in {"create-user", "set-password", "set-enabled-state"}
      \/ t.name = "update-attributes"
      \/ \E i \in DOMAIN p.members : t = MemberStep(p, p.members[i])
  BY DEF StepSet, PlainStep, Step
<1> QED
  BY <1>3, <1>4, <1>5, <1>6

----------------------------------------------------------------------------
(* The invariant behind the justification.                                  *)

AllTold == \A i \in Entry : Told(happened[i].shown)
FoundAbout == \A w \in Worker : \A r \in found[w] : Fits(scenario.payload[r], happened[on[w]].shown)
CorrelationsAbout == \A c \in correlation : Fits(scenario.payload[c.request], happened[c.event].shown)

AboutInv == AllTold /\ FoundAbout /\ CorrelationsAbout

LEMMA AboutInit == Init => AboutInv
BY DEF Init, AboutInv, AllTold, FoundAbout, CorrelationsAbout, Entry

\* The steps that a window of the request tells of.
LEMMA WindowSteps ==
  ASSUME Shape, TimeInv, AttemptsOk, NEW r \in Request, NEW a \in Range(Windows(AttemptsOf(r), approvedAt[r]))
  PROVE  a.steps \in Seq(StepSet(scenario.payload[r]))
<1> DEFINE past == FromTrail(trail[r])
           S == StepSet(scenario.payload[r])
<1>1. \A b : AttemptOf(scenario, r, b) => b.steps \in Seq(S)
  BY FirstSteps DEF AttemptOf, Shape
<1>2. <<>> \in Seq(S)
  OBVIOUS
<1> HIDE DEF S
<1>3. \A i \in DOMAIN past : past[i].steps \in Seq(S)
  <2> SUFFICES ASSUME NEW i \in DOMAIN past PROVE past[i].steps \in Seq(S)
    OBVIOUS
  <2>1. i \in DOMAIN trail[r] /\ past[i] = AttemptAt(trail[r], i)
    BY DEF FromTrail
  <2>2. trail[r][i].steps \in Seq(S)
    BY <1>1, <2>1 DEF AttemptsOk
  <2> QED
    BY <1>2, <2>1, <2>2 DEF AttemptAt, Attempt
<1>4. row[r] # <<>> => row[r][1].steps \in Seq(S)
  <2> SUFFICES ASSUME row[r] # <<>> PROVE row[r][1].steps \in Seq(S)
    OBVIOUS
  <2>1. PICK b : row[r] = <<b>> /\ AttemptOf(scenario, r, b)
    BY DEF AttemptsOk
  <2> QED
    BY <1>1, <2>1
<1> HIDE DEF past
<1>5. \A i \in DOMAIN AttemptsOf(r) : AttemptsOf(r)[i].steps \in Seq(S)
  <2>1. AttemptsOf(r) = past \/ (row[r] # <<>> /\ AttemptsOf(r) =
          [i \in DOMAIN past \cup {Len(trail[r]) + 1} |-> IF i \in DOMAIN past THEN past[i] ELSE row[r][1]])
    BY DEF AttemptsOf, Attempts, past
  <2> QED
    BY <1>3, <1>4, <2>1
<1>6. CASE DOMAIN AttemptsOf(r) = {}
  <2> DEFINE b == Attempt(approvedAt[r], Open, <<>>)
  <2>1. b.steps = <<>>
    BY DEF Attempt
  <2>2. Windows(AttemptsOf(r), approvedAt[r]) = <<b>>
    BY <1>6 DEF Windows
  <2> HIDE DEF b
  <2>3. a = b
    BY <2>2 DEF Range
  <2> QED
    BY <1>2, <2>1, <2>3 DEF S
<1>7. CASE DOMAIN AttemptsOf(r) # {}
  <2>1. PICK i \in DOMAIN AttemptsOf(r) : a = AttemptsOf(r)[i]
    BY <1>7 DEF Windows, Range
  <2> QED
    BY <1>5, <2>1 DEF S
<1> QED
  BY <1>6, <1>7

LEMMA MatchedAbout ==
  ASSUME Shape, TimeInv, AttemptsOk, AllTold, NEW r \in Request, NEW i \in Entry, MatchesNow(r, i)
  PROVE  Fits(scenario.payload[r], happened[i].shown)
<1>1. PICK a \in Range(Windows(AttemptsOf(r), approvedAt[r])) :
        MatchesRequest(scenario.payload[r], happened[i].shown, a.steps)
  BY DEF MatchesNow, payload
<1>2. a.steps \in Seq(StepSet(scenario.payload[r])) /\ <<>> \in Seq(StepSet(scenario.payload[r]))
  BY WindowSteps
<1>3. Told(happened[i].shown) /\ scenario \in Scenarios
  BY DEF AllTold, Shape
<1> QED
  BY <1>1, <1>2, <1>3, MatchIsAbout, AboutIs, MemberIs

\* What was found stays so while the log only grows.
LEMMA AboutKept ==
  ASSUME LogOk, TimeInv, AboutInv, UNCHANGED <<scenario, correlation>>,
         \A i \in observed : happened'[i] = happened[i],
         \A w \in Worker : found'[w] \subseteq found[w],
         \A w \in Worker : found'[w] # {} => on'[w] = on[w]
  PROVE  FoundAbout' /\ CorrelationsAbout'
<1>1. Worker' = Worker
  BY SameWorkers
<1>2. FoundAbout'
  <2> SUFFICES ASSUME NEW w \in Worker, NEW r \in found'[w]
               PROVE  Fits(scenario.payload[r], happened'[on'[w]].shown)
    BY <1>1 DEF FoundAbout
  <2>1. r \in found[w] /\ on'[w] = on[w] /\ on[w] \in observed
    BY DEF TimeInv, EvaluatedOk
  <2> QED
    BY <2>1 DEF AboutInv, FoundAbout
<1>3. CorrelationsAbout'
  BY DEF TimeInv, ApprovedOk, AboutInv, CorrelationsAbout
<1> QED
  BY <1>2, <1>3

LEMMA OutsideTold ==
  ASSUME Shape, LogOk, AllTold, HappensOutside
  PROVE  AllTold'
<1>1. PICK e \in scenario.outside : happened' = Append(happened, [shown |-> e, time |-> now, by |-> None, run |-> None, step |-> 0])
  BY DEF HappensOutside
<1>2. Told(e) /\ scenario' = scenario
  BY OutsideAssumption DEF Shape, HappensOutside
<1> DEFINE d == [shown |-> e, time |-> now, by |-> None, run |-> None, step |-> 0]
<1>3. d.shown = e /\ happened' = Append(happened, d) /\ happened \in Seq(Range(happened))
  BY <1>1 DEF LogOk
<1> HIDE DEF d
<1>4. \A i \in DOMAIN happened' : (i \in DOMAIN happened /\ happened'[i] = happened[i]) \/ happened'[i] = d
  BY <1>3
<1> QED
  BY <1>2, <1>3, <1>4 DEF AllTold, Entry

LEMMA DirectoryTold ==
  ASSUME Shape, LogOk, TypeInv, AllTold, NEW x \in Run, Applied(x)
  PROVE  AllTold'
<1> DEFINE r == of[x]
           p == scenario.payload[r]
           t == Plan(x)[done[x] + 1]
<1>1. r \in Request /\ scenario \in Scenarios /\ scenario' = scenario
  BY Workers DEF Shape, Applied
<1>2. t \in StepSet(p)
  <2>1. Plan(x) = Steps(p)
    BY DEF Plan, payload
  <2>2. done[x] \in Nat /\ done[x] < Len(Steps(p)) /\ Steps(p) \in Seq(StepSet(p))
    BY <1>1, <2>1, StepsOf DEF Applied, TypeInv, DoneOk
  <2> QED
    BY <2>1, <2>2
<1>3. PICK alt \in IF LeftBefore(x, t) THEN {{}} ELSE Logged(p, t) :
        happened' = happened \o SetToSeq({[shown |-> e, time |-> now, by |-> r, run |-> x, step |-> done[x] + 1] : e \in alt})
  BY DEF Applied, payload
<1>4. \A e \in alt : Told(e)
  BY <1>1, <1>2, <1>3, LoggedTold
<1>5. IsFiniteSet(alt)
  <2>1. IsFiniteSet(p.changes)
    BY <1>1, ScenariosAssumption
  <2> QED
    BY <1>3, <2>1, LoggedFinite, FS_EmptySet
<1> DEFINE new == {[shown |-> e, time |-> now, by |-> r, run |-> x, step |-> done[x] + 1] : e \in alt}
<1>6. \A d \in new : Told(d.shown)
  BY <1>4
<1>7. IsFiniteSet(new)
  BY <1>5, ShownSetFinite
<1> HIDE DEF new, r, p, t
<1>8. SetToSeq(new) \in Seq(new) /\ happened' = happened \o SetToSeq(new)
  BY <1>3, <1>7, SetToSeqOfFinite DEF new
<1>9. Grows(happened, happened') /\ \A i \in DOMAIN happened' \ DOMAIN happened : happened'[i] \in new
  BY <1>8, LogGrows DEF LogOk
<1> QED
  BY <1>1, <1>6, <1>9 DEF AllTold, Entry, Grows

LEMMA AboutNext == CorrelationInv /\ TimeInv /\ TypeInv /\ AboutInv /\ [Next]_vars => AboutInv'
<1> SUFFICES ASSUME CorrelationInv, TimeInv, TypeInv, AboutInv, [Next]_vars
             PROVE  AboutInv'
  OBVIOUS
<1>a. Shape /\ LogOk /\ AllTold /\ AttemptsOk
  BY DEF CorrelationInv, AboutInv, TypeInv
<1>b. DOMAIN on = Worker /\ DOMAIN found = Worker /\ observed \subseteq Entry /\ \A w \in Worker : found[w] \in SUBSET Request
  BY <1>a DEF Shape, LogOk
<1>c. \A w \in Worker : found[w] # {} => pc[w] \in {"look", "insert", "aborted"} /\ on[w] \in observed
  BY DEF TimeInv, EvaluatedOk
<1>1. ASSUME HappensOutside \/ \E x \in Run : Applied(x)
      PROVE  AboutInv'
  <2>1. AllTold'
    BY <1>a, <1>1, OutsideTold, DirectoryTold
  <2>2. Grows(happened, happened')
    BY <1>a, <1>1, OutsideGrows, DirectoryGrows
  <2>3. UNCHANGED <<scenario, correlation, found, on>>
    BY <1>1 DEF HappensOutside, Applied, evaluation
  <2>4. \A i \in observed : happened'[i] = happened[i]
    BY <1>b, <2>2 DEF Grows, Entry
  <2>5. FoundAbout' /\ CorrelationsAbout'
    BY <1>a, <2>3, <2>4, AboutKept
  <2> QED
    BY <2>1, <2>5 DEF AboutInv
<1>2. ASSUME UNCHANGED <<scenario, happened, correlation>>,
             \A w \in Worker : found'[w] \subseteq found[w], \A w \in Worker : found'[w] # {} => on'[w] = on[w]
      PROVE  AboutInv'
  <2>1. AllTold'
    BY <1>a, <1>2 DEF AllTold, Entry
  <2>2. FoundAbout' /\ CorrelationsAbout'
    BY <1>a, <1>2, AboutKept
  <2> QED
    BY <2>1, <2>2 DEF AboutInv
<1>3. CASE Tick \/ UNCHANGED vars
  BY <1>2, <1>3 DEF Tick, vars, eventVars, evaluation
<1>4. ASSUME NEW x \in Run, Execute(x)
      PROVE  AboutInv'
  <2>1. CASE NextCandidate(x)
    <3>1. found[x] = {} /\ found' = found /\ \A w \in Worker : w # x => on'[w] = on[w]
      BY <1>a, <1>b, <1>c, <2>1, Workers DEF NextCandidate
    <3> QED
      BY <1>2, <2>1, <3>1 DEF NextCandidate, eventVars
  <2>2. CASE \/ Approve(x) \/ Retry(x) \/ MarkExecutionStarted(x) \/ AuditStarted(x)
             \/ MarkExecutionFinished(x) \/ AuditFinished(x) \/ Candidates(x)
    BY <1>2, <2>2 DEF Approve, Retry, MarkExecutionStarted, AuditStarted, MarkExecutionFinished, AuditFinished,
                      Candidates, eventVars, evaluation
  <2> QED
    BY <1>1, <1>4, <2>1, <2>2 DEF Execute, DirectoryStep, UnreportedStep
<1>5. ASSUME NEW n \in scenario.ingests, IngestWithResult(n)
      PROVE  AboutInv'
  <2>1. n \in Worker
    BY DEF Worker
  <2>2. found[n] = {} /\ found' = found /\ \A w \in Worker : w # n => on'[w] = on[w]
    BY <1>b, <1>c, <1>5, <2>1 DEF IngestWithResult
  <2> QED
    BY <1>2, <1>5, <2>2 DEF IngestWithResult
<1>6. ASSUME NEW w \in Worker, ListRequests(w) \/ Check(w) \/ Fault(w)
      PROVE  AboutInv'
  <2>1. UNCHANGED <<scenario, happened, correlation>>
    BY <1>6 DEF ListRequests, Check, Fault, eventVars
  <2>2. \/ UNCHANGED <<found, on>>
        \/ found' = [found EXCEPT ![w] = {}] /\ \A v \in Worker : v # w => on'[v] = on[v]
    BY <1>b, <1>6 DEF ListRequests, Check, Fault, Leave, evaluation
  <2> QED
    BY <1>2, <1>b, <2>1, <2>2
<1>7. ASSUME NEW w \in Worker, LookAt(w)
      PROVE  AboutInv'
  <2>1. PICK r \in todo[w] : found' = [found EXCEPT ![w] = IF MatchesNow(r, on[w]) THEN @ \cup {r} ELSE @]
    BY <1>7 DEF LookAt
  <2>2. UNCHANGED <<scenario, happened, correlation, on>> /\ pc[w] = "look"
    BY <1>7 DEF LookAt, eventVars
  <2>3. r \in Request /\ on[w] \in Entry
    BY <1>a, <1>b, <2>1, <2>2 DEF Shape, TimeInv, EvaluatedOk
  <2>4. MatchesNow(r, on[w]) => Fits(scenario.payload[r], happened[on[w]].shown)
    BY <1>a, <2>3, MatchedAbout
  <2>5. FoundAbout'
    BY <1>b, <2>1, <2>2, <2>4, SameWorkers DEF AboutInv, FoundAbout
  <2> QED
    BY <2>2, <2>5 DEF AboutInv, AllTold, Entry, CorrelationsAbout
<1>8. ASSUME NEW w \in Worker, Insert(w)
      PROVE  AboutInv'
  <2>1. PICK r \in found[w] : correlation' = correlation \cup {[request |-> r, event |-> on[w], by |-> w]}
    BY <1>8 DEF Insert
  <2>2. UNCHANGED <<scenario, happened>> /\ found' = [found EXCEPT ![w] = {}] /\ on' = [on EXCEPT ![w] = 0]
    BY <1>8 DEF Insert, Leave, eventVars
  <2>3. CorrelationsAbout'
    BY <2>1, <2>2 DEF AboutInv, FoundAbout, CorrelationsAbout
  <2>4. FoundAbout'
    <3>1. \A v \in Worker : found'[v] # {} => v # w /\ found'[v] = found[v] /\ on'[v] = on[v]
      BY <1>b, <2>2
    <3> QED
      BY <2>2, <3>1, SameWorkers DEF AboutInv, FoundAbout
  <2> QED
    BY <2>2, <2>3, <2>4 DEF AboutInv, AllTold, Entry
<1> QED
  BY <1>1, <1>3, <1>4, <1>5, <1>6, <1>7, <1>8 DEF Next, Evaluate

----------------------------------------------------------------------------
(* The theorems.                                                            *)

\* However executions, their retries and the callers of ingestWithResult
\* interleave, an event that has a second correlation (event_correlation) was
\* raced: two workers had looked for the first, and found none, before either
\* inserted one (createEventCorrelation).
THEOREM OneRow == Spec => []OneRowUnlessRaced
<1>1. CorrelationInv => OneRowUnlessRaced
  <2> SUFFICES ASSUME CorrelationInv, NEW i \in observed, i \notin raced
               PROVE  Cardinality(RowsOf(i)) <= 1
    BY DEF OneRowUnlessRaced
  <2>1. \A c, d \in RowsOf(i) : c = d
    BY DEF CorrelationInv, OneEach, RowsOf
  <2>2. RowsOf(i) = {} \/ \E c : RowsOf(i) = {c}
    BY <2>1
  <2>3. Cardinality(RowsOf(i)) \in {0, 1}
    BY <2>2, FS_EmptySet, FS_Singleton
  <2> QED
    BY <2>3
<1> QED
  BY <1>1, CorrelationInit, CorrelationNext, PTL DEF Spec

LEMMA NothingFallsNow == CorrelationInv => NothingFallsBetween
<1> SUFFICES ASSUME CorrelationInv, Undisturbed, NEW i \in observed \ contested,
                    Cardinality(MatchingNow(i)) = 1
             PROVE  RowsOf(i) # {}
  BY DEF NothingFallsBetween
<1>1. PICK r \in Request : status[r] \in Correlatable /\ MatchesNow(r, i)
  BY FS_EmptySet DEF MatchingNow
<1>2. ~Owed(i, r)
  BY Workers DEF CorrelationInv, Undisturbed, Quiet, Owed, WillLook, Considers, Early
<1> QED
  BY <1>1, <1>2 DEF CorrelationInv, Undisturbed, NothingForgotten

\* Without a fault, an event that one request matches when everybody is done has
\* a correlation, whether the end of the execution or the event came first,
\* unless some worker found several requests for it on the way.
THEOREM NothingFalls == Spec => []NothingFallsBetween
<1> QED
  BY NothingFallsNow, CorrelationInit, CorrelationNext, PTL DEF Spec

LEMMA InTimeNow == CorrelationInv /\ TimeInv => CorrelationIsInTime
<1> SUFFICES ASSUME CorrelationInv, TimeInv, NEW c \in correlation
             PROVE  InTime(c.request, happened[c.event].time)
  BY DEF CorrelationIsInTime
<1>1. happened[c.event].time \in Nat
  BY DEF CorrelationInv, LogOk, TimeInv, ApprovedOk
<1> QED
  BY <1>1 DEF TimeInv, CorrelationsInTime

\* However executions, retries that overlap and faults mix up the execution rows
\* of the audit trail, an event that was correlated can be on account of its
\* request by its time (findMatchingAttemptForEvent, loadExecutionAttempts).
THEOREM InTimeOnly == Spec => []CorrelationIsInTime
<1> QED
  BY InTimeNow, CorrelationInit, CorrelationNext, TimeInit, TimeNext, PTL DEF Spec

\* Whatever names the requests and the events are known by, in a directory where
\* account names and identifiers are unique (ObjectAssumption), an event that was
\* correlated is about the account or the group of its request
\* (doesObservedEventMatchRequest), unless it matched by the name of its actor,
\* by a member's common name or by a new name that another account got too, and
\* its time can be on account of the request.
THEOREM Justified == Spec => []CorrelationIsJustified
<1>1. TimeInv /\ CorrelationInv /\ AboutInv => CorrelationIsJustified
  <2> SUFFICES ASSUME CorrelationInv, TimeInv, AboutInv PROVE CorrelationIsJustified
    OBVIOUS
  <2>1. CorrelationIsInTime
    BY InTimeNow
  <2>2. \A c \in correlation : Fits(payload[c.request], happened[c.event].shown)
    BY DEF AboutInv, CorrelationsAbout, payload
  <2> QED
    BY <2>1, <2>2 DEF CorrelationIsJustified, Fits
<1> QED
  BY <1>1, CorrelationInit, CorrelationNext, TimeInit, TimeNext, TypeInit, TypeNext, AboutInit, AboutNext, PTL DEF Spec

\* Whatever the payloads, the workers and their order: the request rows, the
\* audit trail, the correlations and what every worker has in hand are of their
\* types; an attempt's steps are the first steps of its request's plan, and
\* nobody evaluates an event that was not ingested.
THEOREM CorrelationTypeCorrect == Spec => []TypeOK
<1>1. CorrelationInv /\ TimeInv /\ TypeInv => TypeOK
  <2> SUFFICES ASSUME CorrelationInv, TimeInv, TypeInv PROVE TypeOK
    OBVIOUS
  <2> USE DEF CorrelationInv, TypeInv
  <2>1. \A r \in Request : \A a : AttemptOf(scenario, r, a) <=> IsAttempt(r, a)
    BY DEF AttemptOf, IsAttempt, Times, payload
  <2>2. \A r \in Request : row[r] = <<>> \/ (Len(row[r]) = 1 /\ IsAttempt(r, row[r][1]))
    <3> SUFFICES ASSUME NEW r \in Request, row[r] # <<>>
                 PROVE  Len(row[r]) = 1 /\ IsAttempt(r, row[r][1])
      OBVIOUS
    <3>1. PICK a : row[r] = <<a>> /\ AttemptOf(scenario, r, a)
      BY DEF AttemptsOk
    <3>2. IsAttempt(r, a) /\ Len(row[r]) = 1 /\ row[r][1] = a
      BY <2>1, <3>1
    <3> QED
      BY <3>2
  <2>3. \A r \in Request : \A i \in DOMAIN trail[r] : IsAttempt(r, trail[r][i])
    BY <2>1 DEF AttemptsOk
  <2>4. \A x \in Run : done[x] \in 0..Len(Plan(x))
    BY StepsOf, Workers DEF DoneOk, Plan, payload, of, Shape
  <2>5. \A x \in Run : run[x].start \in Times /\ run[x].finish \in Times
    BY DEF TimesOk, Times
  <2>6. approvedAt \in [Request -> Times] /\ now \in 0..scenario.horizon /\ faults \in 0..scenario.faults
    BY DEF TimesOk, Times
  <2>7. on \in [Worker -> Entry \cup {0}] /\ correlation \subseteq [request : Request, event : observed, by : Worker]
    BY DEF EventsOk, Shape
  <2>8. /\ scenario \in Scenarios /\ status \in [Request -> Status] /\ observed \subseteq Entry /\ pc \in [Worker -> PC]
        /\ todo \in [Worker -> SUBSET Request] /\ found \in [Worker -> SUBSET Request]
    BY DEF Shape, LogOk
  <2>9. \A w \in Worker : pc[w] \in {"list", "look", "insert"} => on[w] \in observed
    BY DEF TimeInv, EvaluatedOk
  <2> QED
    BY <2>2, <2>3, <2>4, <2>5, <2>6, <2>7, <2>8, <2>9 DEF TypeOK
<1> QED
  BY <1>1, CorrelationInit, CorrelationNext, TimeInit, TimeNext, TypeInit, TypeNext, PTL DEF Spec

\* The windows of a request are numbered, and their starts are times.
LEMMA WindowsTyped ==
  ASSUME Shape, TrailsOk, TypeInv, NEW r \in Request
  PROVE  LET W == Windows(AttemptsOf(r), approvedAt[r])
         IN  DOMAIN W \subseteq Nat /\ \A k \in DOMAIN W : W[k].start \in Nat \cup {Open}
<1> DEFINE past == FromTrail(trail[r])
           all == AttemptsOf(r)
<1>1. scenario.horizon \in Nat /\ \A t \in 0..scenario.horizon \cup {Open} : t \in Nat \cup {Open}
  BY ScenariosAssumption DEF Shape, Open
<1>2. \A b : AttemptOf(scenario, r, b) => b.start \in Nat \cup {Open}
  BY <1>1 DEF AttemptOf
<1>3. DOMAIN past \subseteq DOMAIN trail[r] /\ DOMAIN trail[r] = 1..Len(trail[r]) /\ Len(trail[r]) \in Nat
  BY DEF TrailsOk, FromTrail
<1>4. \A k \in DOMAIN past : past[k].start \in Nat \cup {Open}
  <2> SUFFICES ASSUME NEW k \in DOMAIN past PROVE past[k].start \in Nat \cup {Open}
    OBVIOUS
  <2>1. k \in DOMAIN trail[r] /\ past[k] = AttemptAt(trail[r], k)
    BY DEF FromTrail
  <2>2. OpenedBy(trail[r], k) \in DOMAIN trail[r]
    BY <2>1 DEF OpenedBy
  <2>3. \A j \in DOMAIN trail[r] : trail[r][j].start \in Nat \cup {Open}
    BY <1>2 DEF TypeInv, AttemptsOk
  <2> QED
    BY <2>1, <2>2, <2>3 DEF AttemptAt, Attempt
<1>5. row[r] # <<>> => row[r][1].start \in Nat \cup {Open}
  <2> SUFFICES ASSUME row[r] # <<>> PROVE row[r][1].start \in Nat \cup {Open}
    OBVIOUS
  <2>1. PICK b : row[r] = <<b>> /\ AttemptOf(scenario, r, b)
    BY DEF TypeInv, AttemptsOk
  <2> QED
    BY <1>2, <2>1
<1>6. DOMAIN all \subseteq Nat /\ \A k \in DOMAIN all : all[k].start \in Nat \cup {Open}
  <2>1. all = past \/ (row[r] # <<>> /\ all =
          [i \in DOMAIN past \cup {Len(trail[r]) + 1} |-> IF i \in DOMAIN past THEN past[i] ELSE row[r][1]])
    BY DEF AttemptsOf, Attempts
  <2> HIDE DEF past, all
  <2> QED
    BY <1>3, <1>4, <1>5, <2>1
<1>7. CASE DOMAIN all = {}
  <2> DEFINE b == Attempt(approvedAt[r], Open, <<>>)
  <2>1. Windows(all, approvedAt[r]) = <<b>>
    BY <1>7 DEF Windows
  <2>2. b.start \in Nat \cup {Open}
    BY <1>1 DEF TypeInv, TimesOk, Attempt
  <2> HIDE DEF b
  <2> QED
    BY <2>1, <2>2
<1>8. CASE DOMAIN all # {}
  BY <1>6, <1>8 DEF Windows
<1> QED
  BY <1>7, <1>8

\* Of some of them, one is the earliest.
LEMMA EarliestIsOne ==
  ASSUME NEW W, NEW S, S \subseteq DOMAIN W, S # {}, DOMAIN W \subseteq Nat,
         \A k \in DOMAIN W : W[k].start \in Nat \cup {Open}
  PROVE  \E k \in S : EarliestOf(W, S) = W[k]
<1> DEFINE starts == {W[k].start + 1 : k \in S}
<1>1. starts \in SUBSET Nat /\ starts # {}
  BY DEF Open
<1> HIDE DEF starts
<1>2. PICK t \in starts : \A u \in starts : t <= u
  BY <1>1, NatLeast
<1> DEFINE first == {k \in S : W[k].start + 1 = t}
<1>3. first \in SUBSET Nat /\ first # {}
  BY <1>2 DEF starts
<1> HIDE DEF first
<1>4. PICK k \in first : \A j \in first : k <= j
  BY <1>3, NatLeast
<1>5. k \in S /\ \A j \in S : Precedes(W, k, j)
  <2>1. k \in S /\ W[k].start + 1 = t
    BY <1>4 DEF first
  <2> SUFFICES ASSUME NEW j \in S PROVE Precedes(W, k, j)
    BY <2>1
  <2>2. W[j].start \in Int /\ W[k].start \in Int /\ t <= W[j].start + 1
    BY <1>2, <2>1 DEF starts, Open
  <2>3. CASE W[j].start + 1 = t
    <3>1. k <= j
      BY <1>4, <2>3 DEF first
    <3> QED
      BY <2>1, <2>2, <2>3, <3>1 DEF Precedes
  <2>4. CASE W[j].start + 1 # t
    BY <2>1, <2>2, <2>4 DEF Precedes
  <2> QED
    BY <2>3, <2>4
<1> QED
  BY <1>5 DEF EarliestOf

\* The reason codes say matched of what matches and of nothing else.
LEMMA MatchedIsMatched ==
  ASSUME NEW p, NEW e, NEW steps, "matched" \in ReasonCodes(p, e, steps)
  PROVE  MatchesRequest(p, e, steps)
<1>1. "matched" \notin MembershipReasons(p, e) /\ "matched" \notin MismatchReasons(p, e, steps)
  BY DEF MembershipReasons, MismatchReasons
<1> QED
  BY <1>1 DEF ReasonCodes

\* An event judged by a result of the attempt it was in is called matched only if
\* the correlation would take it.
LEMMA JudgedMatches ==
  ASSUME Shape, TimeInv, TypeInv, NEW r \in Request, NEW i,
         "matched" \in Diagnosis(r, i),
         JudgedBy(r, i)[1].finish # Open \/ JudgedBy(r, i) = <<LatestOf(Windows(AttemptsOf(r), approvedAt[r]))>>
  PROVE  MatchesNow(r, i)
<1> DEFINE W == Windows(AttemptsOf(r), approvedAt[r])
           inWindow == {k \in DOMAIN W : InWindow(W[k], happened[i].time, now, window)}
           last == LatestOf(W)
           judge == JudgedBy(r, i)
           e == happened[i].shown
           p == payload[r]
<1>1. judge = IF inWindow = {} THEN <<>> ELSE <<EarliestOf(W, inWindow)>>
  BY DEF JudgedBy
<1>2. \/ judge = <<>> /\ "matched" \in {"outside_time_window"}
      \/ judge # <<>> /\ "matched" \in ReasonCodes(p, e, StepsOr(judge[1], last.steps))
  BY DEF Diagnosis
<1>3. DOMAIN W \subseteq Nat /\ \A k \in DOMAIN W : W[k].start \in Nat \cup {Open}
  BY WindowsTyped DEF TimeInv
<1>4. JudgedBy(r, i)[1].finish # Open \/ judge = <<last>>
  OBVIOUS
<1> HIDE DEF W, judge, last, e, p
<1>5. inWindow # {} /\ judge[1] = EarliestOf(W, inWindow)
  BY <1>1, <1>2
<1>6. PICK k \in inWindow : judge[1] = W[k]
  <2>1. inWindow \subseteq DOMAIN W
    OBVIOUS
  <2> HIDE DEF inWindow
  <2> QED
    BY <1>3, <1>5, <2>1, EarliestIsOne
<1>7. StepsOr(judge[1], last.steps) = W[k].steps
  BY <1>4, <1>6 DEF StepsOr, judge
<1>8. MatchesRequest(p, e, W[k].steps)
  BY <1>2, <1>7, MatchedIsMatched
<1>9. W[k] \in Range(W) /\ InWindow(W[k], happened[i].time, now, window)
  BY <1>6 DEF Range
<1> QED
  BY <1>8, <1>9 DEF MatchesNow, W, e, p

\* Whatever the requests, the events and the order of the workers: when everybody
\* is done without a fault, an event that a request's diagnostics call matched
\* (mapDiagnosticObservedEvent) is correlated with the request, or they name the
\* conflict, or a worker found several requests for it.
THEOREM Diagnosed == Spec => []DiagnosisExplains
<1>1. CorrelationInv /\ TimeInv /\ TypeInv => DiagnosisExplains
  <2> SUFFICES ASSUME CorrelationInv, TimeInv, TypeInv, Undisturbed,
                      NEW r \in Request, NEW i \in observed \ contested,
                      status[r] \in Correlatable, "matched" \in Diagnosis(r, i),
                      JudgedBy(r, i)[1].finish # Open \/ JudgedBy(r, i) = <<LatestOf(Windows(AttemptsOf(r), approvedAt[r]))>>,
                      "ambiguous_request_match" \notin Diagnosis(r, i),
                      "already_correlated" \notin Diagnosis(r, i)
               PROVE  \E c \in RowsOf(i) : c.request = r
    BY DEF DiagnosisExplains
  <2>1. r \in MatchingNow(i)
    BY JudgedMatches DEF CorrelationInv, MatchingNow
  <2>2. \A q, s \in MatchingNow(i) : q = s
    BY DEF Diagnosis
  <2>3. MatchingNow(i) = {r}
    BY <2>1, <2>2
  <2>4. RowsOf(i) # {}
    BY <2>3, NothingFallsNow, FS_Singleton DEF NothingFallsBetween
  <2>5. ~(RowsOf(i) # {} /\ \A c \in RowsOf(i) : c.request # r)
    BY DEF Diagnosis
  <2> QED
    BY <2>4, <2>5
<1> QED
  BY <1>1, CorrelationInit, CorrelationNext, TimeInit, TimeNext, TypeInit, TypeNext, PTL DEF Spec

=============================================================================
