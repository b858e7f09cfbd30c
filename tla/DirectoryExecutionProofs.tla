---------------------- MODULE DirectoryExecutionProofs ----------------------
(* Proofs about DirectoryExecution, for every set of requests, payloads and *)
(* operations.                                                              *)
EXTENDS DirectoryExecution, TLAPS

LEMMA PlanType ==
  ASSUME NEW r \in Request
  PROVE  /\ Writes(Payload[r]) \in Seq(WriteType)
         /\ Len(Writes(Payload[r])) \in Nat \ {0}
         /\ \A k \in 1..Len(Writes(Payload[r])) : Writes(Payload[r])[k] \in WriteType
<1>1. Writes(Payload[r]) \in Seq(WriteType) \ {<<>>}
  BY WritesAssumption
<1> QED
  BY <1>1

\* What lies between 1..n and 1..n+1 and misses n+1 is 1..n.
LEMMA UpTo ==
  ASSUME NEW n \in Nat, NEW m \in Nat, m = n + 1, NEW S,
         1..(m - 1) \subseteq S, S \subseteq 1..m, m \notin S
  PROVE  S = 1..n
<1>1. m - 1 = n
  OBVIOUS
<1>2. ASSUME NEW x \in S PROVE x \in 1..n
  OBVIOUS
<1> QED
  BY <1>1, <1>2

LEMMA LabelType ==
  ASSUME NEW plan, NEW k
  PROVE  /\ Label(plan, k) \in {"executed", "findMember", "write"}
         /\ Label(plan, k) = "executed" <=> k > Len(plan)
  BY DEF Label

\* What an operation did, by where it is.  A step whose answer is outstanding may
\* have been applied by an unanswered attempt alone.
Account(o) ==
  /\ 1..(at[o] - 1) \subseteq applied[o]
  /\ applied[o] \subseteq 1..at[o]
  /\ pc[o] \in {"idle", "findTarget"} => at[o] = 1
  /\ pc[o] \in {"idle", "findTarget", "findMember", "executed"} => at[o] \notin applied[o]
  /\ pc[o] = "write" /\ ~unanswered[o] => at[o] \notin applied[o]
  /\ pc[o] \in {"findMember", "write"} => at[o] \in 1..Len(Plan(o))
  /\ pc[o] = "executed" => at[o] = Len(Plan(o)) + 1
  /\ pc[o] = "failed" /\ ~partial[o] => at[o] = 1
  /\ pc[o] = "failed" /\ ~partial[o] /\ ~unanswered[o] => applied[o] = {}

Inv == TypeOK /\ \A o \in Operation : Account(o)

LEMMA InvInit == Init => Inv
  BY GroupAssumption DEF Init, Inv, TypeOK, Account, Fact, PC, MaxAttempts

\* An operation that takes no part in a step keeps its account.
LEMMA OthersKeepAccount ==
  ASSUME Inv, NEW o \in Operation,
         on'[o] = on[o], pc'[o] = pc[o], at'[o] = at[o], attempt'[o] = attempt[o],
         partial'[o] = partial[o], applied'[o] = applied[o], unanswered'[o] = unanswered[o]
  PROVE  Account(o)'
  BY DEF Inv, Account, Plan

\* A write gives and takes facts, and takes neither the account nor its password.
LEMMA WriteFacts ==
  ASSUME NEW w \in WriteType
  PROVE  w.gives \subseteq Fact /\ w.takes \subseteq Fact \ {"account", "password"}
<1> DEFINE create == [op : {"create"}, gives : {{"account"}}, takes : {{}}, lookup : {FALSE}]
           modify == [op : {"modify"}, gives : SUBSET {"password", "enabled", "attributes"},
                      takes : SUBSET {"enabled"}, lookup : {FALSE}]
           add == [op : {"add"}, gives : {{g} : g \in Group}, takes : {{}}, lookup : BOOLEAN]
           remove == [op : {"remove"}, gives : {{}}, takes : {{g} : g \in Group}, lookup : BOOLEAN]
<1>1. w \in create => w.gives = {"account"} /\ w.takes = {}
  OBVIOUS
<1>2. w \in modify => w.gives \subseteq {"password", "enabled", "attributes"} /\ w.takes \subseteq {"enabled"}
  OBVIOUS
<1>3. w \in add => w.gives \subseteq Group /\ w.takes = {}
  OBVIOUS
<1>4. w \in remove => w.gives = {} /\ w.takes \subseteq Group
  OBVIOUS
<1>5. w \in create \cup modify \cup add \cup remove
  BY DEF WriteType
<1> HIDE DEF create, modify, add, remove
<1> QED
  BY <1>1, <1>2, <1>3, <1>4, <1>5, GroupAssumption DEF Fact

\* What the directory holds keeps its type when it applies a write.
LEMMA AfterType ==
  ASSUME facts \subseteq Fact, NEW w \in WriteType
  PROVE  After(w) \subseteq Fact
  BY WriteFacts DEF After

LEMMA StepType ==
  ASSUME Inv, NEW o \in Operation, Execute(o) \/ Step(o)
  PROVE  /\ TypeOK'
         /\ \A other \in Operation \ {o} :
              /\ on'[other] = on[other] /\ pc'[other] = pc[other] /\ at'[other] = at[other]
              /\ attempt'[other] = attempt[other] /\ partial'[other] = partial[other]
              /\ applied'[other] = applied[other] /\ unanswered'[other] = unanswered[other]
<1> DEFINE Others == \A other \in Operation \ {o} :
              /\ on'[other] = on[other] /\ pc'[other] = pc[other] /\ at'[other] = at[other]
              /\ attempt'[other] = attempt[other] /\ partial'[other] = partial[other]
              /\ applied'[other] = applied[other] /\ unanswered'[other] = unanswered[other]
<1>a. TypeOK /\ Account(o)
  BY DEF Inv
<1> USE DEF MaxAttempts
<1>p. ASSUME Applies(o), pc[o] = "write"
      PROVE  facts' \subseteq Fact /\ applied' \in [Operation -> SUBSET (Nat \ {0})]
  <2>1. on[o] \in Request /\ at[o] \in 1..Len(Plan(o))
    BY <1>a, <1>p DEF TypeOK, Account
  <2>2. Plan(o)[at[o]] \in WriteType
    BY <2>1, PlanType DEF Plan
  <2>3. facts' \subseteq Fact
    BY <1>a, <1>p, <2>2, AfterType DEF Applies, TypeOK
  <2> QED
    BY <1>a, <1>p, <2>3 DEF Applies, TypeOK
<1>1. ASSUME Execute(o) PROVE TypeOK' /\ Others
  <2>1. PICK r \in Request :
          /\ on' = [on EXCEPT ![o] = r]
          /\ \/ pc' = [pc EXCEPT ![o] = "failed"]
             \/ pc' = [pc EXCEPT ![o] = "findTarget"]
             \/ pc' = [pc EXCEPT ![o] = Label(Writes(Payload[r]), 1)]
    BY <1>1 DEF Execute, Goto
  <2>2. \E label \in PC : pc' = [pc EXCEPT ![o] = label]
    BY <2>1, LabelType DEF PC
  <2>3. UNCHANGED <<connection, facts, at, attempt, partial, applied, unanswered>>
    BY <1>1 DEF Execute
  <2>4. /\ on' \in [Operation -> Request \cup {None}] /\ on'[o] \in Request
        /\ \A other \in Operation \ {o} : on'[other] = on[other]
    BY <1>a, <2>1 DEF TypeOK
  <2>5. /\ pc' \in [Operation -> PC]
        /\ \A other \in Operation \ {o} : pc'[other] = pc[other]
    BY <1>a, <2>2 DEF TypeOK
  <2> QED
    <3>1. \A x \in Operation : pc'[x] # "idle" => on'[x] \in Request
      BY <1>a, <2>4, <2>5 DEF TypeOK
    <3>2. TypeOK'
      BY <1>a, <2>3, <2>4, <2>5, <3>1 DEF TypeOK
    <3> QED
      BY <2>3, <2>4, <2>5, <3>2
<1>2. ASSUME FindTarget(o) PROVE TypeOK' /\ Others
  <2>1. pc[o] = "findTarget" /\ \E label \in PC : pc' = [pc EXCEPT ![o] = label]
    BY <1>2, LabelType DEF FindTarget, Goto, PC
  <2>2. UNCHANGED <<connection, facts, on, at, attempt, partial, applied, unanswered>>
    BY <1>2 DEF FindTarget
  <2>3. /\ pc' \in [Operation -> PC]
        /\ \A other \in Operation \ {o} : pc'[other] = pc[other]
    BY <1>a, <2>1 DEF TypeOK
  <2> QED
    BY <1>a, <2>1, <2>2, <2>3 DEF TypeOK
<1>3. ASSUME FindMember(o) PROVE TypeOK' /\ Others
  BY <1>3, <1>a DEF FindMember, Fails, Goto, TypeOK, PC
<1>4. ASSUME Completes(o) PROVE TypeOK' /\ Others
  <2>1. facts' \subseteq Fact /\ applied' \in [Operation -> SUBSET (Nat \ {0})]
    BY <1>4, <1>p DEF Completes
  <2>2. Label(Plan(o), at[o] + 1) \in PC
    BY LabelType DEF PC
  <2> QED
    BY <1>4, <1>a, <2>1, <2>2 DEF Completes, Applies, Goto, TypeOK
<1>5. ASSUME Refused(o) PROVE TypeOK' /\ Others
  BY <1>5, <1>a DEF Refused, Fails, Goto, TypeOK, PC
<1>7. ASSUME ConnectionLost(o) PROVE TypeOK' /\ Others
  <2>1. facts' \subseteq Fact /\ applied' \in [Operation -> SUBSET (Nat \ {0})]
    BY <1>7, <1>a, <1>p DEF ConnectionLost, TypeOK
  <2>2. \A other \in Operation \ {o} : applied'[other] = applied[other]
    BY <1>7, <1>a DEF ConnectionLost, Applies, TypeOK
  <2> QED
    BY <1>7, <1>a, <2>1, <2>2 DEF ConnectionLost, Fails, Goto, TypeOK, PC
<1>6. ASSUME SocketBreaks(o) PROVE TypeOK' /\ Others
  <2>0. /\ attempt' \in [Operation -> 1..2] /\ pc' \in [Operation -> PC] /\ partial' \in [Operation -> BOOLEAN]
        /\ \A other \in Operation \ {o} : /\ attempt'[other] = attempt[other] /\ pc'[other] = pc[other]
                                          /\ partial'[other] = partial[other]
        /\ pc'[o] # "idle"
    <3>1. CASE attempt[o] < 2
      <4>2. attempt[o] \in 1..2 /\ attempt[o] + 1 \in 1..2
        BY <1>a, <3>1 DEF TypeOK
      <4>3. attempt[o] # 2
        BY <1>a, <3>1 DEF TypeOK
      <4>1. attempt' = [attempt EXCEPT ![o] = @ + 1] /\ pc' = pc /\ partial' = partial /\ pc[o] = "write"
        BY <1>6, <4>3, Zenon DEF SocketBreaks
      <4> QED
        BY <1>a, <4>1, <4>2 DEF TypeOK
    <3>2. CASE attempt[o] = 2
      <4>1. /\ attempt' = attempt
            /\ pc' = [pc EXCEPT ![o] = "failed"]
            /\ partial' = [partial EXCEPT ![o] = at[o] > 1 \/ TRUE]
        BY <1>6, <3>2 DEF SocketBreaks, Fails, Goto
      <4> QED
        BY <1>a, <4>1 DEF TypeOK, PC
    <3> QED
      BY <1>6, <3>1, <3>2 DEF SocketBreaks
  <2>1. facts' \subseteq Fact /\ applied' \in [Operation -> SUBSET (Nat \ {0})]
    BY <1>6, <1>a, <1>p DEF SocketBreaks, TypeOK
  <2>2. \A other \in Operation \ {o} : applied'[other] = applied[other]
    BY <1>6, <1>a DEF SocketBreaks, Applies, TypeOK
  <2> QED
    BY <1>6, <1>a, <2>0, <2>1, <2>2 DEF SocketBreaks, TypeOK
<1> QED
  BY <1>1, <1>2, <1>3, <1>4, <1>5, <1>6, <1>7 DEF Step

LEMMA StepAccount ==
  ASSUME Inv, NEW o \in Operation, Execute(o) \/ Step(o)
  PROVE  Account(o)'
<1>a. TypeOK /\ Account(o) /\ TypeOK'
  BY StepType DEF Inv
<1> USE DEF MaxAttempts
<1>1. ASSUME Execute(o) PROVE Account(o)'
  <2>1. PICK r \in Request :
          /\ on' = [on EXCEPT ![o] = r]
          /\ \/ pc' = [pc EXCEPT ![o] = "failed"]
             \/ pc' = [pc EXCEPT ![o] = "findTarget"]
             \/ pc' = [pc EXCEPT ![o] = Label(Writes(Payload[r]), 1)]
    BY <1>1 DEF Execute, Goto
  <2>2. Plan(o)' = Writes(Payload[r]) /\ Len(Writes(Payload[r])) \in Nat \ {0}
    BY <1>a, <2>1, PlanType DEF Plan, TypeOK
  <2>3. pc'[o] \in {"failed", "findTarget", "findMember", "write"}
    BY <1>a, <2>1, <2>2, LabelType DEF TypeOK
  <2>4. at[o] = 1 /\ applied[o] = {} /\ UNCHANGED <<at, applied>>
    BY <1>1, <1>a DEF Execute, Account, TypeOK
  <2> QED
    BY <2>2, <2>3, <2>4 DEF Account
<1>p. pc[o] # "idle" => /\ on[o] \in Request /\ Len(Plan(o)) \in Nat \ {0}
                        /\ (on' = on => Plan(o)' = Plan(o))
  BY <1>a, PlanType DEF TypeOK, Plan
<1>2. ASSUME FindTarget(o) PROVE Account(o)'
  <2>1. pc'[o] \in {"failed", "findMember", "write"}
    BY <1>2, <1>a, <1>p, LabelType DEF FindTarget, Goto, TypeOK
  <2> QED
    BY <1>2, <1>a, <1>p, <2>1 DEF FindTarget, Account, TypeOK
<1>3. ASSUME FindMember(o) PROVE Account(o)'
  BY <1>3, <1>a, <1>p DEF FindMember, Fails, Goto, Account, TypeOK
<1>4. ASSUME Completes(o) PROVE Account(o)'
  <2>1. /\ pc'[o] \in {"findMember", "write", "executed"}
        /\ pc'[o] = "executed" <=> at[o] + 1 > Len(Plan(o))
    BY <1>4, <1>a, LabelType DEF Completes, Goto, TypeOK
  <2>2. at'[o] = at[o] + 1 /\ applied'[o] = applied[o] \cup {at[o]}
    BY <1>4, <1>a DEF Completes, Applies, TypeOK
  <2> QED
    BY <1>4, <1>a, <1>p, <2>1, <2>2 DEF Completes, Account, TypeOK
<1>5. ASSUME Refused(o) PROVE Account(o)'
  <2>1. /\ pc[o] = "write" /\ pc'[o] = "failed" /\ (partial'[o] <=> at[o] > 1)
        /\ at'[o] = at[o] /\ unanswered'[o] = unanswered[o] /\ applied'[o] = applied[o]
    BY <1>5, <1>a DEF Refused, Fails, Goto, TypeOK
  <2>2. at[o] = 1 /\ ~unanswered[o] => applied[o] = {}
    BY <1>a, <2>1 DEF Account, TypeOK
  <2>3. at[o] \in Nat \ {0}
    BY <1>a DEF TypeOK
  <2> QED
    BY <1>a, <2>1, <2>2, <2>3 DEF Account
<1>7. ASSUME ConnectionLost(o) PROVE Account(o)'
  <2>1. applied'[o] \in {applied[o], applied[o] \cup {at[o]}}
    BY <1>7, <1>a DEF ConnectionLost, Applies, TypeOK
  <2>2. /\ pc[o] = "write" /\ pc'[o] = "failed" /\ (partial'[o] <=> at[o] > 1)
        /\ at'[o] = at[o] /\ unanswered'[o] /\ at[o] \in Nat \ {0}
    BY <1>7, <1>a DEF ConnectionLost, Fails, Goto, TypeOK
  <2> QED
    BY <1>a, <2>1, <2>2 DEF Account
<1>6. ASSUME SocketBreaks(o) PROVE Account(o)'
  <2>1. applied'[o] \in {applied[o], applied[o] \cup {at[o]}}
    BY <1>6, <1>a DEF SocketBreaks, Applies, TypeOK
  <2>2. CASE attempt[o] < MaxAttempts
    <3>1. pc[o] = "write" /\ pc'[o] = "write" /\ at'[o] = at[o] /\ unanswered'[o] /\ on' = on
      <4>2. attempt[o] # 2
        BY <1>a, <2>2 DEF TypeOK
      <4>1. /\ unanswered' = [unanswered EXCEPT ![o] = TRUE] /\ pc' = pc /\ at' = at /\ on' = on
            /\ pc[o] = "write"
        BY <1>6, <4>2, Zenon DEF SocketBreaks
      <4> QED
        BY <1>a, <4>1 DEF TypeOK
    <3>2. at[o] \in Nat \ {0}
      BY <1>a DEF TypeOK
    <3> QED
      BY <1>a, <1>p, <2>1, <3>1, <3>2 DEF Account
  <2>3. CASE attempt[o] = MaxAttempts
    BY <1>6, <1>a, <1>p, <2>1, <2>3 DEF SocketBreaks, Fails, Goto, Account, TypeOK
  <2> QED
    BY <1>6, <2>2, <2>3 DEF SocketBreaks
<1> QED
  BY <1>1, <1>2, <1>3, <1>4, <1>5, <1>6, <1>7 DEF Step

LEMMA InvNext == Inv /\ [Next]_vars => Inv'
<1> SUFFICES ASSUME Inv, [Next]_vars PROVE Inv'
  OBVIOUS
<1>1. ASSUME NEW o \in Operation, Execute(o) \/ Step(o) PROVE Inv'
  <2>1. ASSUME NEW other \in Operation \ {o} PROVE Account(other)'
    BY <1>1, StepType, OthersKeepAccount
  <2> QED
    BY <1>1, <2>1, StepType, StepAccount DEF Inv
<1>2. ASSUME UNCHANGED vars PROVE Inv'
  BY <1>2, OthersKeepAccount DEF vars, Inv, TypeOK
<1> QED
  BY <1>1, <1>2 DEF Next

(* Type correctness: every operation keeps its type, and the directory      *)
(* holds facts about the account alone.                                     *)
THEOREM TypeCorrect == Spec => []TypeOK
<1>1. Inv => TypeOK
  BY DEF Inv
<1> QED
  BY <1>1, InvInit, InvNext, PTL DEF Spec

(* The result of an operation accounts for what it did to the directory,    *)
(* wherever sockets broke and whatever other operations did meanwhile.      *)
THEOREM ResultAccounts == Spec => []ResultAccountsForChanges
<1>1. Inv => ResultAccountsForChanges
  <2> SUFFICES ASSUME Inv, NEW o \in Operation, pc[o] \in Returned
               PROVE  /\ 1..(at[o] - 1) \subseteq applied[o]
                      /\ applied[o] \subseteq 1..at[o]
                      /\ pc[o] = "executed" => applied[o] = 1..Len(Plan(o))
    BY DEF ResultAccountsForChanges
  <2>1. Account(o) /\ at[o] \in Nat \ {0} /\ Len(Plan(o)) \in Nat
    BY PlanType DEF Inv, TypeOK, Returned, Plan
  <2>2. 1..(at[o] - 1) \subseteq applied[o] /\ applied[o] \subseteq 1..at[o]
    BY <2>1 DEF Account
  <2>3. ASSUME pc[o] = "executed" PROVE applied[o] = 1..Len(Plan(o))
    <3>1. at[o] = Len(Plan(o)) + 1 /\ at[o] \notin applied[o]
      BY <2>1, <2>3 DEF Account
    <3> QED
      BY <2>1, <2>2, <3>1, UpTo
  <2> QED
    BY <2>2, <2>3
<1> QED
  BY <1>1, InvInit, InvNext, PTL DEF Spec

(* A failure that excludes partial changes left the directory as it was, if *)
(* the server answered every attempt of the failed step, and made that      *)
(* step's change at most if it did not.                                     *)
THEOREM NoPartialChanges == Spec => []NoPartialChangesIsTrueWhenAnswered
<1>1. Inv => NoPartialChangesIsTrueWhenAnswered
  <2> SUFFICES ASSUME Inv, NEW o \in Operation, pc[o] = "failed", ~partial[o]
               PROVE  applied[o] \subseteq {1} /\ (~unanswered[o] => applied[o] = {})
    BY DEF NoPartialChangesIsTrueWhenAnswered
  <2>1. at[o] = 1 /\ applied[o] \subseteq 1..at[o] /\ (~unanswered[o] => applied[o] = {})
    BY DEF Inv, Account
  <2> QED
    BY <2>1
<1> QED
  BY <1>1, InvInit, InvNext, PTL DEF Spec

(* The LDAP operations implement what the request workflow relies on.       *)
THEOREM OperationImplemented == Spec => ImplementsOperation
<1> DEFINE wanted == [o \in Operation |-> IF pc[o] = "idle" THEN {} ELSE 1..Len(Plan(o))]
           phase == [o \in Operation |-> IF pc[o] \in {"idle"} \cup Returned THEN pc[o] ELSE "running"]
<1>1. Init => Promise!Init
  BY DEF Init, Promise!Init
<1>2. Inv /\ Inv' /\ [Next]_vars => [Promise!Next]_(Promise!vars)
  <2> SUFFICES ASSUME Inv, Inv', [Next]_vars PROVE [Promise!Next]_(Promise!vars)
    OBVIOUS
  <2>1. ASSUME NEW o \in Operation, Execute(o) PROVE Promise!Start(o)
    <3>a. TypeOK /\ TypeOK' /\ Account(o)
      BY DEF Inv
    <3>1. PICK r \in Request : /\ on' = [on EXCEPT ![o] = r] /\ pc[o] = "idle"
                               /\ \/ pc' = [pc EXCEPT ![o] = "failed"]
                                  \/ pc' = [pc EXCEPT ![o] = "findTarget"]
                                  \/ pc' = [pc EXCEPT ![o] = Label(Writes(Payload[r]), 1)]
      BY <2>1 DEF Execute, Goto
    <3>2. Plan(o)' = Writes(Payload[r]) /\ Len(Writes(Payload[r])) \in Nat \ {0}
      BY <3>a, <3>1, PlanType DEF Plan, TypeOK
    <3>3. pc'[o] \in {"failed", "findTarget", "findMember", "write"}
      BY <3>a, <3>1, <3>2, LabelType DEF TypeOK
    <3>4. \A other \in Operation \ {o} : pc'[other] = pc[other] /\ on'[other] = on[other]
      BY <3>a, <3>1 DEF TypeOK
    <3>5. phase[o] = "idle" /\ phase' = [phase EXCEPT ![o] = IF pc'[o] = "failed" THEN "failed" ELSE "running"]
      BY <3>1, <3>3, <3>4 DEF Returned
    <3>6. wanted'[o] = 1..Len(Writes(Payload[r]))
      BY <3>2, <3>3
    <3>7. wanted' = [wanted EXCEPT ![o] = wanted'[o]]
      BY <3>4 DEF Plan
    <3>8. applied' = applied
      BY <2>1 DEF Execute
    <3>9. wanted'[o] \subseteq Nat /\ wanted'[o] # {}
      <4>1. \A n \in Nat \ {0} : 1..n \subseteq Nat /\ 1 \in 1..n
        OBVIOUS
      <4> HIDE DEF wanted
      <4> QED
        BY <3>2, <3>6, <4>1
    <3> HIDE DEF phase, wanted
    <3> QED
      BY <3>5, <3>7, <3>8, <3>9 DEF Promise!Start, phase, wanted
  <2>2. ASSUME NEW o \in Operation, Step(o) PROVE Promise!Work(o)
    <3>a. TypeOK /\ TypeOK' /\ Account(o) /\ Account(o)'
      BY DEF Inv
    <3>0. /\ pc[o] \in {"findTarget", "findMember", "write"} /\ on' = on /\ pc'[o] # "idle"
          /\ pc' = [pc EXCEPT ![o] = pc'[o]]
      <4>1. CASE FindTarget(o)
        <5>1. pc[o] = "findTarget" /\ on' = on /\ \E label \in {"executed", "findMember", "write", "failed"} :
                 pc' = [pc EXCEPT ![o] = label]
          BY <4>1, LabelType DEF FindTarget, Goto
        <5> QED
          BY <3>a, <5>1 DEF TypeOK
      <4>2. CASE FindMember(o)
        BY <4>2, <3>a DEF FindMember, Fails, Goto, TypeOK
      <4>3. CASE Completes(o)
        BY <4>3, <3>a, LabelType DEF Completes, Goto, TypeOK
      <4>4. CASE Refused(o)
        BY <4>4, <3>a DEF Refused, Fails, Goto, TypeOK
      <4>6. CASE ConnectionLost(o)
        BY <4>6, <3>a DEF ConnectionLost, Fails, Goto, TypeOK
      <4>5. CASE SocketBreaks(o)
        BY <4>5, <3>a DEF SocketBreaks, Fails, Goto, TypeOK
      <4> QED
        BY <2>2, <4>1, <4>2, <4>3, <4>4, <4>5, <4>6 DEF Step
    <3>1. Plan(o)' = Plan(o) /\ Len(Plan(o)) \in Nat \ {0} /\ at[o] \in Nat \ {0} /\ at'[o] \in Nat \ {0}
      BY <3>a, <3>0, PlanType DEF Plan, TypeOK
    <3>b. /\ pc[o] # "idle" /\ pc[o] \notin {"idle"} \cup Returned /\ pc'[o] # "idle"
          /\ \A other \in Operation \ {o} : pc'[other] = pc[other]
      BY <3>0, <3>a DEF Returned, TypeOK
    <3>2. phase[o] = "running" /\ phase' = [phase EXCEPT ![o] = IF pc'[o] \in Returned THEN pc'[o] ELSE "running"]
      BY <3>b
    <3>3. wanted[o] = 1..Len(Plan(o)) /\ wanted' = wanted
      BY <3>0, <3>b DEF Plan
    <3>c. applied' = applied \/ applied' = [applied EXCEPT ![o] = @ \cup {at[o]}]
      BY <2>2, Zenon DEF Step, FindTarget, FindMember, Completes, Refused, ConnectionLost, SocketBreaks, Applies
    <3>4. applied[o] \subseteq applied'[o] /\ applied' = [applied EXCEPT ![o] = applied'[o]]
      BY <3>a, <3>c DEF TypeOK
    <3>5. applied'[o] \subseteq 1..Len(Plan(o))
      <4>1. applied'[o] \subseteq applied[o] \cup {at[o]}
        BY <3>a, <3>c DEF TypeOK
      <4>2. applied[o] \cup {at[o]} \subseteq 1..at[o] /\ at[o] <= Len(Plan(o))
        BY <3>a, <3>0, <3>1 DEF Account
      <4> QED
        BY <3>1, <4>1, <4>2
    <3>6. ASSUME pc'[o] = "executed" PROVE applied'[o] = 1..Len(Plan(o))
      <4>1. at'[o] = Len(Plan(o)) + 1 /\ at'[o] \notin applied'[o]
            /\ 1..(at'[o] - 1) \subseteq applied'[o] /\ applied'[o] \subseteq 1..at'[o]
        BY <3>a, <3>1, <3>6 DEF Account
      <4> QED
        BY <3>1, <3>5, <4>1, UpTo
    <3>7. phase'[o] = "executed" => applied'[o] = wanted[o]
      BY <3>0, <3>2, <3>3, <3>6 DEF Returned
    <3>8. \E label \in {"running", "executed", "failed"} : phase' = [phase EXCEPT ![o] = label]
      BY <3>2 DEF Returned
    <3>9. applied'[o] \subseteq wanted[o]
      BY <3>3, <3>5
    <3> HIDE DEF phase, wanted
    <3> QED
      BY <3>2, <3>3, <3>4, <3>7, <3>8, <3>9 DEF Promise!Work, phase, wanted
  <2>3. ASSUME UNCHANGED vars PROVE UNCHANGED Promise!vars
    BY <2>3 DEF vars, Promise!vars, Plan
  <2> QED
    BY <2>1, <2>2, <2>3 DEF Next, Promise!Next
<1> QED
  BY <1>1, <1>2, InvInit, InvNext, PTL DEF Spec, ImplementsOperation, Promise!Spec

----------------------------------------------------------------------------
(* What the writes of a payload are.                                        *)

\* Nothing takes an account or its password away.
LEMMA AccountStays ==
  ASSUME NEW w \in WriteType
  PROVE  /\ "account" \in facts => "account" \in After(w)
         /\ "password" \in facts => "password" \in After(w)
         /\ w = CreateUser => "account" \in After(w)
         /\ w = SetPassword => "password" \in After(w)
         /\ "enabled" \in After(w) => "enabled" \in facts \/ "enabled" \in w.gives
  BY WriteFacts DEF After, CreateUser, SetPassword, Write

\* A function on 1..n is a sequence.
LEMMA SeqByIndex ==
  ASSUME NEW n \in Nat, NEW S, NEW f \in [1..n -> S]
  PROVE  f \in Seq(S) /\ Len(f) = n /\ \A i \in 1..n : f[i] \in S
  OBVIOUS

\* Where the elements of two sequences stand in the one they are put together to.
LEMMA Concatenated ==
  ASSUME NEW S, NEW s \in Seq(S), NEW t \in Seq(S)
  PROVE  /\ s \o t \in Seq(S) /\ Len(s) \in Nat /\ Len(t) \in Nat
         /\ Len(s \o t) = Len(s) + Len(t)
         /\ \A i \in 1..(Len(s) + Len(t)) :
              (s \o t)[i] = IF i <= Len(s) THEN s[i] ELSE t[i - Len(s)]
  OBVIOUS

\* A user is created by the first write, and enabled after the password was set.
LEMMA CreatePlan ==
  ASSUME NEW r \in Request, Payload[r].kind = "user_create"
  PROVE  /\ Writes(Payload[r])[1] = CreateUser
         /\ Payload[r].password =>
              \A k \in 1..Len(Writes(Payload[r])) :
                "enabled" \in Writes(Payload[r])[k].gives =>
                  k = 3 /\ Writes(Payload[r])[2] = SetPassword
<1> DEFINE p == Payload[r]
           groups == GroupsOfNewUser(p)
           first == <<CreateUser>>
           password == IF p.password THEN <<SetPassword>> ELSE <<>>
           enabled == <<SetEnabled(p.enabled)>>
           joins == [i \in DOMAIN groups |-> ModifyMember("add", groups[i].group)]
<1>1. Writes(p) = first \o password \o enabled \o joins
  BY DEF Writes, UserCreateWrites
<1>2. p \in PayloadType
  BY PayloadAssumption
<1>3. /\ groups \in Seq(Member) /\ joins \in Seq(WriteType) /\ Len(joins) = Len(groups)
      /\ \A i \in 1..Len(joins) : "enabled" \notin joins[i].gives
  <2>1. groups \in Seq(Member)
    BY GroupsOfNewUserAssumption
  <2> HIDE DEF groups
  <2>2. DOMAIN groups = 1..Len(groups) /\ Len(groups) \in Nat /\ \A i \in 1..Len(groups) : groups[i] \in Member
    BY <2>1
  <2>3. \A g \in Group : ModifyMember("add", g) \in WriteType /\ "enabled" \notin ModifyMember("add", g).gives
    BY GroupAssumption DEF ModifyMember, Write, WriteType
  <2>6. \A i \in 1..Len(groups) : groups[i].group \in Group
    BY <2>2 DEF Member
  <2>4. joins \in [1..Len(groups) -> WriteType]
    BY <2>2, <2>3, <2>6
  <2>5. \A i \in 1..Len(groups) : "enabled" \notin joins[i].gives
    BY <2>2, <2>3, <2>6
  <2> HIDE DEF joins
  <2> QED
    BY <2>1, <2>2, <2>4, <2>5, SeqByIndex
<1>w. CreateUser \in WriteType /\ SetPassword \in WriteType /\ SetEnabled(p.enabled) \in WriteType
  <2>1. CreateUser \in WriteType
    BY DEF CreateUser, Write, WriteType
  <2>2. SetPassword \in WriteType
    BY DEF SetPassword, Write, WriteType
  <2>3. SetEnabled(TRUE) \in WriteType /\ SetEnabled(FALSE) \in WriteType
    BY DEF SetEnabled, Write, WriteType
  <2>4. p.enabled \in BOOLEAN
    BY <1>2 DEF PayloadType
  <2> QED
    BY <2>1, <2>2, <2>3, <2>4
<1>4. /\ first \in Seq(WriteType) /\ Len(first) = 1 /\ first[1] = CreateUser
      /\ enabled \in Seq(WriteType) /\ Len(enabled) = 1
  BY <1>w
<1>5. /\ p.password => password = <<SetPassword>>
      /\ password \in Seq(WriteType)
  BY <1>w
<1> DEFINE set == first \o password
           use == set \o enabled
<1> HIDE DEF groups, first, password, enabled, joins
<1>s. /\ set \in Seq(WriteType) /\ Len(password) \in Nat /\ Len(set) = 1 + Len(password)
      /\ set[1] = first[1] /\ \A i \in 2..Len(set) : set[i] = password[i - 1]
  <2>1. /\ set \in Seq(WriteType) /\ Len(password) \in Nat /\ Len(set) = Len(first) + Len(password)
        /\ \A i \in 1..(Len(first) + Len(password)) :
             set[i] = IF i <= Len(first) THEN first[i] ELSE password[i - Len(first)]
    BY <1>4, <1>5, Concatenated DEF set
  <2> QED
    BY <1>4, <2>1
<1> HIDE DEF set
<1>u. /\ use \in Seq(WriteType) /\ Len(use) = Len(set) + 1
      /\ \A i \in 1..Len(set) : use[i] = set[i]
  <2>1. /\ use \in Seq(WriteType) /\ Len(set) \in Nat /\ Len(use) = Len(set) + Len(enabled)
        /\ \A i \in 1..(Len(set) + Len(enabled)) :
             use[i] = IF i <= Len(set) THEN set[i] ELSE enabled[i - Len(set)]
    BY <1>4, <1>s, Concatenated DEF use
  <2> QED
    BY <1>4, <2>1
<1> HIDE DEF use
<1>p. /\ Writes(p) = use \o joins /\ Len(joins) \in Nat /\ Len(Writes(p)) = Len(use) + Len(joins)
      /\ \A i \in 1..Len(use) : Writes(p)[i] = use[i]
      /\ \A i \in 1..Len(Writes(p)) : i > Len(use) => Writes(p)[i] = joins[i - Len(use)]
  <2>1. Writes(p) = use \o joins
    BY <1>1 DEF use, set
  <2> HIDE DEF p
  <2> QED
    <3>0. use \in Seq(WriteType) /\ joins \in Seq(WriteType)
      BY <1>3, <1>u
    <3>1. /\ Len(use) \in Nat /\ Len(joins) \in Nat /\ Len(use \o joins) = Len(use) + Len(joins)
          /\ \A i \in 1..(Len(use) + Len(joins)) :
               (use \o joins)[i] = IF i <= Len(use) THEN use[i] ELSE joins[i - Len(use)]
      BY <3>0, Concatenated
    <3> QED
      BY <2>1, <3>1
<1>6. Writes(p)[1] = CreateUser
  BY <1>4, <1>s, <1>u, <1>p
<1>7. ASSUME p.password, NEW k \in 1..Len(Writes(p)), "enabled" \in Writes(p)[k].gives
      PROVE  k = 3 /\ Writes(p)[2] = SetPassword
  <2>1. /\ Len(password) = 1 /\ password[1] = SetPassword
    BY <1>5, <1>7
  <2>2. /\ Len(Writes(p)) = 3 + Len(joins) /\ Writes(p)[2] = password[1]
        /\ \A i \in 1..Len(Writes(p)) : i > 3 => Writes(p)[i] = joins[i - 3]
    BY <1>s, <1>u, <1>p, <2>1
  <2>3. k # 1 /\ k # 2
    BY <1>6, <1>7, <2>1, <2>2 DEF Write, CreateUser, SetPassword
  <2>4. ~(k > 3)
    BY <1>3, <1>7, <2>2
  <2> QED
    BY <1>7, <2>1, <2>2, <2>3, <2>4
<1> QED
  BY <1>6, <1>7

----------------------------------------------------------------------------
(* What the operations do to the account between them.                      *)

Creates(o) == pc[o] # "idle" /\ Payload[on[o]].kind = "user_create"

\* What a user's creation has left in the directory.
CreationAt(o) ==
  /\ Creates(o) /\ 1 \in applied[o] => "account" \in facts
  /\ \A k \in applied[o] :
       pc[o] # "idle" /\ Plan(o)[k] = SetPassword => "password" \in facts
  /\ pc[o] # "idle" /\ PasswordInTheOpen(Payload[on[o]]) => pc[o] = "failed" /\ applied[o] = {}

\* No two operations have both created the user.
CreatedOnce ==
  \A o, other \in Operation :
    o # other /\ Creates(o) /\ Creates(other) => 1 \notin applied[o] \/ 1 \notin applied[other]

CreationInv ==
  /\ Inv
  /\ \A o \in Operation : CreationAt(o)
  /\ CreatedOnce
  /\ EnabledWithoutPasswordWasAsked

LEMMA CreationInit == Init => CreationInv
<1> SUFFICES ASSUME Init PROVE CreationInv
  OBVIOUS
<1>1. "enabled" \in facts => "password" \in facts
  BY GroupAssumption DEF Init
<1> QED
  BY <1>1, InvInit DEF Init, CreationInv, CreationAt, Creates, CreatedOnce, EnabledWithoutPasswordWasAsked

\* A step either applies the write it is at or leaves the directory alone.
LEMMA StepShape ==
  ASSUME Inv, NEW o \in Operation, Execute(o) \/ Step(o)
  PROVE  /\ connection' = connection
         /\ pc'[o] # "idle"
         /\ \/ pc[o] = "idle" /\ applied[o] = {} /\ facts' = facts /\ applied' = applied
            \/ pc[o] # "idle" /\ on' = on /\ facts' = facts /\ applied' = applied
            \/ pc[o] = "write" /\ on' = on /\ Applies(o)
         /\ pc[o] = "failed" => FALSE
<1>a. TypeOK /\ Account(o) /\ TypeOK'
  BY StepType DEF Inv
<1>1. CASE Execute(o)
  <2>1. applied[o] = {}
    BY <1>1, <1>a DEF Execute, Account, TypeOK
  <2>2. pc[o] = "idle" /\ UNCHANGED <<connection, facts, applied>>
    BY <1>1 DEF Execute
  <2>3. PICK r \in Request :
          \/ pc' = [pc EXCEPT ![o] = "failed"]
          \/ pc' = [pc EXCEPT ![o] = "findTarget"]
          \/ pc' = [pc EXCEPT ![o] = Label(Writes(Payload[r]), 1)]
    BY <1>1 DEF Execute, Goto
  <2>4. Label(Writes(Payload[r]), 1) # "idle"
    BY LabelType
  <2>5. pc'[o] # "idle"
    BY <1>a, <2>3, <2>4 DEF TypeOK
  <2> QED
    BY <2>1, <2>2, <2>5
<1>2. CASE FindTarget(o)
  <2>1. pc[o] = "findTarget" /\ UNCHANGED <<connection, facts, on, applied>>
    BY <1>2 DEF FindTarget
  <2>2. pc' = [pc EXCEPT ![o] = "failed"] \/ pc' = [pc EXCEPT ![o] = Label(Plan(o), 1)]
    BY <1>2 DEF FindTarget, Goto
  <2>3. Label(Plan(o), 1) # "idle"
    BY LabelType
  <2>4. pc'[o] # "idle"
    BY <1>a, <2>2, <2>3 DEF TypeOK
  <2> QED
    BY <2>1, <2>4
<1>5. CASE FindMember(o) \/ Refused(o)
  BY <1>5, <1>a DEF FindMember, Refused, Fails, Goto, TypeOK
<1>3. CASE Completes(o)
  BY <1>3, <1>a, LabelType DEF Completes, Goto, TypeOK
<1>4. CASE SocketBreaks(o)
  BY <1>4, <1>a DEF SocketBreaks, Fails, Goto, TypeOK
<1>6. CASE ConnectionLost(o)
  BY <1>6, <1>a DEF ConnectionLost, Fails, Goto, TypeOK
<1> QED
  BY <1>1, <1>2, <1>3, <1>4, <1>5, <1>6 DEF Step

\* Where a step applies a write, what that is.
LEMMA AppliedWrite ==
  ASSUME Inv, NEW o \in Operation, pc[o] = "write", Applies(o)
  PROVE  /\ on[o] \in Request /\ at[o] \in 1..Len(Plan(o)) /\ Plan(o)[at[o]] \in WriteType
         /\ facts' = After(Plan(o)[at[o]]) /\ Accepts(Plan(o)[at[o]])
         /\ applied'[o] = applied[o] \cup {at[o]}
         /\ \A other \in Operation \ {o} : applied'[other] = applied[other]
<1>1. TypeOK /\ on[o] \in Request /\ at[o] \in 1..Len(Plan(o))
  BY DEF Inv, TypeOK, Account
<1> QED
  BY <1>1, PlanType DEF Plan, Applies, TypeOK

\* A creation whose password would show fails before it begins.
LEMMA OpenFails ==
  ASSUME CreationInv, NEW o \in Operation, Execute(o) \/ Step(o)
  PROVE  PasswordInTheOpen(Payload[on[o]])' => pc'[o] = "failed" /\ applied'[o] = {}
<1>a. Inv /\ TypeOK /\ CreationAt(o) /\ Account(o)
  BY DEF CreationInv, Inv
<1>1. CASE Execute(o)
  <2>1. PICK r \in Request :
          /\ pc[o] = "idle" /\ on' = [on EXCEPT ![o] = r] /\ UNCHANGED <<connection, applied>>
          /\ PasswordInTheOpen(Payload[r]) => pc' = [pc EXCEPT ![o] = "failed"]
    BY <1>1 DEF Execute, Goto
  <2>2. applied[o] = {}
    BY <1>a, <2>1 DEF Account, TypeOK
  <2> QED
    BY <1>a, <2>1, <2>2 DEF TypeOK, PasswordInTheOpen
<1>2. CASE Step(o)
  <2>1. pc[o] \in {"findTarget", "findMember", "write"} /\ on' = on /\ connection' = connection
    BY <1>2, Zenon DEF Step, FindTarget, FindMember, Completes, Refused, ConnectionLost, SocketBreaks
  <2> QED
    BY <1>a, <2>1 DEF CreationAt, PasswordInTheOpen
<1> QED
  BY <1>1, <1>2

LEMMA CreationStep ==
  ASSUME CreationInv, NEW o \in Operation, Execute(o) \/ Step(o)
  PROVE  /\ \A x \in Operation : CreationAt(x)'
         /\ CreatedOnce'
         /\ EnabledWithoutPasswordWasAsked'
<1> DEFINE Asked(x, k) == /\ pc[x] # "idle" /\ k \in applied[x]
                          /\ ~(Payload[on[x]].kind = "user_create" /\ Payload[on[x]].password)
                          /\ "enabled" \in Plan(x)[k].gives
<1>a. /\ Inv /\ TypeOK /\ Account(o) /\ CreatedOnce /\ EnabledWithoutPasswordWasAsked
      /\ \A x \in Operation : CreationAt(x)
  BY DEF CreationInv, Inv
<1>b. \A x \in Operation \ {o} :
        pc'[x] = pc[x] /\ on'[x] = on[x] /\ applied'[x] = applied[x] /\ Plan(x)' = Plan(x)
  BY <1>a, StepType DEF Plan
<1>c. connection' = connection /\ pc'[o] # "idle"
  BY <1>a, StepShape
<1>1. CASE facts' = facts /\ applied' = applied
  <2>1. (pc[o] = "idle" /\ applied[o] = {}) \/ (pc[o] # "idle" /\ on' = on)
    BY <1>a, StepShape
  <2>2. ASSUME NEW x \in Operation PROVE CreationAt(x)'
    <3>1. CASE x # o
      BY <1>1, <1>a, <1>b, <1>c, <3>1 DEF CreationAt, Creates, PasswordInTheOpen
    <3>2. CASE x = o
      <4>1. PasswordInTheOpen(Payload[on[o]])' => pc'[o] = "failed" /\ applied'[o] = {}
        BY OpenFails
      <4> QED
        BY <1>1, <1>a, <1>c, <2>1, <3>2, <4>1 DEF CreationAt, Creates, Plan
    <3> QED
      BY <3>1, <3>2
  <2>3. CreatedOnce'
    <3>1. \A x \in Operation : Creates(x)' /\ 1 \in applied'[x] => Creates(x) /\ 1 \in applied[x]
      BY <1>1, <1>b, <2>1 DEF Creates
    <3> QED
      BY <1>a, <3>1 DEF CreatedOnce
  <2>4. EnabledWithoutPasswordWasAsked'
    <3> SUFFICES ASSUME "enabled" \in facts', "password" \notin facts'
                 PROVE  \E x \in Operation : \E k \in applied'[x] : Asked(x, k)'
      BY Zenon DEF EnabledWithoutPasswordWasAsked
    <3>1. PICK x \in Operation : \E k \in applied[x] : Asked(x, k)
      BY <1>1, <1>a, Zenon DEF EnabledWithoutPasswordWasAsked
    <3>2. PICK k \in applied[x] : Asked(x, k)
      BY <3>1
    <3>3. x # o \/ on' = on
      BY <2>1, <3>2
    <3>4. k \in applied'[x] /\ pc'[x] # "idle" /\ on'[x] = on[x] /\ Plan(x)' = Plan(x)
      BY <1>1, <1>b, <1>c, <3>2, <3>3 DEF Plan
    <3> QED
      BY <3>2, <3>4
  <2> QED
    BY <2>2, <2>3, <2>4
<1>2. CASE pc[o] = "write" /\ on' = on /\ Applies(o)
  <2> DEFINE w == Plan(o)[at[o]]
  <2>1. /\ on[o] \in Request /\ at[o] \in 1..Len(Plan(o)) /\ w \in WriteType
        /\ facts' = After(w) /\ Accepts(w)
        /\ applied'[o] = applied[o] \cup {at[o]}
        /\ \A other \in Operation \ {o} : applied'[other] = applied[other]
        /\ Plan(o)' = Plan(o)
    BY <1>2, <1>a, AppliedWrite DEF Plan
  <2> HIDE DEF w
  <2>2. /\ "account" \in facts => "account" \in facts'
        /\ "password" \in facts => "password" \in facts'
        /\ w = SetPassword => "password" \in facts'
        /\ w = CreateUser => "account" \in facts' /\ "account" \notin facts
        /\ "enabled" \in facts' => "enabled" \in facts \/ "enabled" \in w.gives
    <3>1. w = CreateUser => "account" \notin facts
      BY <2>1 DEF CreateUser, Write, Accepts
    <3> QED
      BY <2>1, <3>1, AccountStays
  <2> USE DEF w
  <2>3. Creates(o) /\ at[o] = 1 => w = CreateUser
    BY <2>1, CreatePlan DEF Creates, Plan
  <2>4. ASSUME NEW x \in Operation PROVE CreationAt(x)'
    <3>1. CASE x # o
      BY <1>a, <1>b, <1>c, <2>2, <3>1 DEF CreationAt, Creates, PasswordInTheOpen
    <3>2. CASE x = o
      <4>1. ~PasswordInTheOpen(Payload[on[o]])
        BY <1>2, <1>a DEF CreationAt
      <4>2. Creates(o) /\ 1 \in applied'[o] => "account" \in facts'
        BY <1>a, <2>1, <2>2, <2>3 DEF CreationAt
      <4>3. \A k \in applied'[o] : Plan(o)[k] = SetPassword => "password" \in facts'
        BY <1>2, <1>a, <2>1, <2>2 DEF CreationAt
      <4> QED
        BY <1>2, <1>c, <2>1, <3>2, <4>1, <4>2, <4>3 DEF CreationAt, Creates, PasswordInTheOpen
    <3> QED
      BY <3>1, <3>2
  <2>5. CreatedOnce'
    <3>1. \A x \in Operation : Creates(x)' => Creates(x)
      BY <1>2, <1>b DEF Creates
    <3>2. ASSUME Creates(o), 1 \in applied'[o], 1 \notin applied[o], NEW x \in Operation \ {o}, Creates(x)
          PROVE  1 \notin applied'[x]
      <4>1. "account" \notin facts
        BY <2>1, <2>2, <2>3, <3>2
      <4> QED
        BY <1>a, <2>1, <3>2, <4>1 DEF CreationAt
    <3> QED
      BY <1>a, <2>1, <3>1, <3>2 DEF CreatedOnce
  <2>6. EnabledWithoutPasswordWasAsked'
    <3> SUFFICES ASSUME "enabled" \in facts', "password" \notin facts'
                 PROVE  \E x \in Operation : \E k \in applied'[x] : Asked(x, k)'
      BY Zenon DEF EnabledWithoutPasswordWasAsked
    <3>1. CASE "enabled" \in facts
      <4>1. PICK x \in Operation : \E k \in applied[x] : Asked(x, k)
        BY <1>a, <2>2, <3>1, Zenon DEF EnabledWithoutPasswordWasAsked
      <4>3. PICK k \in applied[x] : Asked(x, k)
        BY <4>1
      <4>2. k \in applied'[x] /\ pc'[x] # "idle" /\ on'[x] = on[x] /\ Plan(x)' = Plan(x)
        BY <1>2, <1>b, <1>c, <2>1, <4>3
      <4> QED
        BY <4>2, <4>3
    <3>2. CASE "enabled" \notin facts
      <4>1. "enabled" \in w.gives
        BY <2>2, <3>2
      <4>2. ~(Payload[on[o]].kind = "user_create" /\ Payload[on[o]].password)
        <5> SUFFICES ASSUME Payload[on[o]].kind = "user_create", Payload[on[o]].password PROVE FALSE
          OBVIOUS
        <5>1. at[o] = 3 /\ Plan(o)[2] = SetPassword
          BY <2>1, <4>1, CreatePlan DEF Plan
        <5>2. 2 \in applied[o]
          BY <1>a, <5>1 DEF Account
        <5> QED
          BY <1>2, <1>a, <2>2, <5>1, <5>2 DEF CreationAt
      <4>3. PICK k : k = at[o]
        OBVIOUS
      <4>4. k \in applied'[o] /\ "enabled" \in Plan(o)'[k].gives /\ pc'[o] # "idle" /\ on'[o] = on[o]
        BY <1>2, <1>c, <2>1, <4>1, <4>3
      <4>5. Asked(o, k)'
        BY <4>2, <4>4
      <4> QED
        BY <4>4, <4>5
    <3> QED
      BY <3>1, <3>2
  <2> QED
    BY <2>4, <2>5, <2>6
<1> QED
  BY <1>a, <1>1, <1>2, StepShape

LEMMA CreationNext == CreationInv /\ [Next]_vars => CreationInv'
<1> SUFFICES ASSUME CreationInv, [Next]_vars PROVE CreationInv'
  OBVIOUS
<1>1. Inv'
  BY InvNext DEF CreationInv
<1>2. ASSUME NEW o \in Operation, Execute(o) \/ Step(o) PROVE CreationInv'
  BY <1>1, <1>2, CreationStep DEF CreationInv
<1>3. ASSUME UNCHANGED vars PROVE CreationInv'
  BY <1>1, <1>3 DEF vars, CreationInv, CreationAt, Creates, CreatedOnce, EnabledWithoutPasswordWasAsked,
     Plan, PasswordInTheOpen
<1> QED
  BY <1>2, <1>3 DEF Next

(* The creation of a user with a password leaves no account enabled         *)
(* without one, wherever operations stop: where there is one, another       *)
(* operation was asked to enable it.                                        *)
THEOREM EnabledWithoutPassword == Spec => []EnabledWithoutPasswordWasAsked
<1>1. CreationInv => EnabledWithoutPasswordWasAsked
  BY DEF CreationInv
<1> QED
  BY <1>1, CreationInit, CreationNext, PTL DEF Spec

(* Over a connection that would show the password, execute() touches        *)
(* nothing.                                                                 *)
THEOREM UnprotectedTouchesNothing == Spec => []UnprotectedCreatesNothing
<1>1. CreationInv => UnprotectedCreatesNothing
  BY DEF CreationInv, CreationAt, UnprotectedCreatesNothing
<1> QED
  BY <1>1, CreationInit, CreationNext, PTL DEF Spec

(* A user that one operation created, whether it knows or not, is never     *)
(* completed by another.                                                    *)
THEOREM RetryDoesNotComplete == Spec => []CreatedUserIsNotCompletedByRetry
<1>1. CreationInv => CreatedUserIsNotCompletedByRetry
  <2> SUFFICES ASSUME CreationInv, NEW o \in Operation, NEW other \in Operation, o # other,
                      Creates(o), Creates(other), 1 \in applied[o], pc[other] = "executed"
               PROVE  FALSE
    BY DEF CreatedUserIsNotCompletedByRetry, Creates
  <2>1. Account(other) /\ Len(Plan(other)) \in Nat \ {0}
    BY PlanType DEF CreationInv, Inv, TypeOK, Plan
  <2>2. 1 \in applied[other]
    BY <2>1 DEF Account
  <2> QED
    BY <2>2 DEF CreationInv, CreatedOnce
<1> QED
  BY <1>1, CreationInit, CreationNext, PTL DEF Spec
=============================================================================
