-------------------------- MODULE ExecutionAttempts --------------------------
(***************************************************************************)
(* The executions of a request as the correlation sees them: rebuilt from  *)
(* the execution rows of its audit trail and its current request_execution *)
(* row (CorrelationService.loadExecutionAttempts).                         *)
(*                                                                         *)
(* An attempt is [start, finish, steps]: finish is Open until it is known, *)
(* steps are the completed steps of its result, none while there is no     *)
(* result.  An audit row is [event, start, finish, steps, at].             *)
(***************************************************************************)
EXTENDS Integers, Sequences, SequencesExt

Open == -1
Attempt(start, finish, steps) == [start |-> start, finish |-> finish, steps |-> steps]

\* buildAttemptsFromAuditRows goes through the rows with one current attempt: a
\* start sets it aside unfinished, an end finishes it or, when there is none,
\* stands for an attempt of its own.  So an end finishes the start right before
\* it, and a start stays unfinished if another start or nothing comes after it.
\* The attempts are numbered by the row that completes them, which is the order
\* in which they are pushed.
IsStart(entry) == entry.event = "execution_started"

Completes(trail, i) ==
  IsStart(trail[i]) => i + 1 \notin DOMAIN trail \/ IsStart(trail[i + 1])

OpenedBy(trail, i) == IF i - 1 \in DOMAIN trail /\ IsStart(trail[i - 1]) THEN i - 1 ELSE i

AttemptAt(trail, i) ==
  IF IsStart(trail[i]) THEN Attempt(trail[i].start, Open, <<>>)
  ELSE Attempt(trail[OpenedBy(trail, i)].start, trail[i].finish, trail[i].steps)

FromTrail(trail) == [i \in {j \in DOMAIN trail : Completes(trail, j)} |-> AttemptAt(trail, i)]

\* loadExecutionAttempts, ahead of its sort: the row is pushed last.  row: <<>>,
\* or the attempt that the request_execution row shows.
Attempts(trail, row) ==
  LET past == FromTrail(trail) IN
  IF row = <<>> \/ \E i \in DOMAIN past : past[i].start = row[1].start THEN past
  ELSE [i \in DOMAIN past \cup {Len(trail) + 1} |-> IF i \in DOMAIN past THEN past[i] ELSE row[1]]

\* Array.sort by startedAt is stable: the position decides between equals.
Precedes(attempts, i, j) ==
  attempts[i].start < attempts[j].start \/ (attempts[i].start = attempts[j].start /\ i <= j)

EarliestOf(attempts, S) == attempts[CHOOSE i \in S : \A j \in S : Precedes(attempts, i, j)]
LatestOf(attempts) ==
  attempts[CHOOSE i \in DOMAIN attempts : \A j \in DOMAIN attempts : Precedes(attempts, j, i)]

\* The correlation window of an attempt.
InWindow(a, time, now, window) ==
  /\ time >= a.start - window
  /\ time <= (IF a.finish = Open THEN now ELSE a.finish) + window

\* The attempts to look at, sorted or not: a request without any has been in
\* reach since its approval.
Windows(attempts, approvedAt) ==
  IF DOMAIN attempts = {} THEN <<Attempt(approvedAt, Open, <<>>)>> ELSE attempts
=============================================================================
