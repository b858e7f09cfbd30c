---------------------------- MODULE SiemPolling ----------------------------
(***************************************************************************)
(* Pull of audit events from Elasticsearch (modules/siem): the poller's    *)
(* timer and manual triggers share one poll in flight; a poll reads the    *)
(* checkpoint, fetches pages of the index from a point in time, ingests    *)
(* their events one by one in the order of their timestamps, and moves the *)
(* checkpoint after each.  To meet events that reach the index late, the   *)
(* next poll starts pollOverlapSeconds ahead of the checkpoint.            *)
(*                                                                         *)
(* Each action is one awaited call with the synchronous code around it.    *)
(* The source is enabled and configured: otherwise pollSource returns      *)
(* before its first await and nothing changes.  Times are whole units of   *)
(* the API's clock.                                                        *)
(***************************************************************************)
EXTENDS Integers, FiniteSets

CONSTANTS
  Event,      \* documents of the index
  Looked,     \* events whose account is looked up to tell whether they are in scope
  None,       \* no event, no time
  Overlaps,   \* values of SIEM_POLL_OVERLAP_SECONDS
  Lookback,   \* SIEM_INITIAL_LOOKBACK_SECONDS
  BatchSize,  \* SIEM_BATCH_SIZE
  Skew,       \* how far a domain controller's clock may be ahead of the API's
  MaxLate,    \* bound: how late an event reaches the index
  MaxTime,    \* bound: where the clock stops
  MaxFaults   \* bound: crashes and throwing calls in a behaviour

ASSUME NoneAssumption == None \notin Event /\ None \notin Int /\ \A events \in SUBSET Event : None # events
ASSUME LookedAssumption == Looked \subseteq Event
ASSUME EventAssumption == IsFiniteSet(Event)
ASSUME NumbersAssumption ==
  /\ Overlaps \subseteq Nat
  /\ Lookback \in Nat /\ Skew \in Nat /\ MaxLate \in Nat /\ MaxTime \in Nat /\ MaxFaults \in Nat
  /\ BatchSize \in Nat \ {0}

VARIABLES
  overlap,     \* pollOverlapSeconds, which is maxFutureSkewSeconds too
  now,         \* the API's clock
  time,        \* @timestamp of the documents in the index
  prompt,      \* history: events that reached the index within the overlap
  stored,      \* rows of observed_event
  examined,    \* history: stored events that were correlated
  rejected,    \* history: events turned away because a lookup failed
  checkpoint,  \* last_event_time and last_source_reference of siem_source_checkpoint
  timer,       \* the poller's timer: armed, fired and awaiting a poll, or off
  pc,          \* where the poll in flight is; idle, or the process is down
  trigger,     \* what began the poll in flight
  cursor,      \* pollCursor
  reached,     \* checkpointCursor
  gte, lte,    \* bounds of the query
  pit,         \* what the poll's point in time shows; None when it has none to close
  strays,      \* history: points in time that were left for Elasticsearch to end
  fetched,     \* the hits of the poll up to search_after
  page,        \* the events of the batch that are not ingested yet
  event,       \* the one that is being ingested
  more,        \* batch.hasMore
  cache,       \* account lookups the driver remembers
  faults       \* how many faults there were

indexVars == <<overlap, time, prompt>>
storeVars == <<stored, examined>>
pollVars == <<cursor, reached, gte, lte, pit, fetched, page, event, more>>
vars == <<indexVars, now, storeVars, checkpoint, timer, pc, trigger, pollVars, strays,
          cache, rejected, faults>>

Clock == 0..MaxTime
Position == [time : Int \cup {None}, event : Event \cup {None}]
NoPosition == [time |-> None, event |-> None]

\* Calls in pollSource's try, whose error is caught, and those outside of it.
Caught == {"query", "search", "store", "correlate", "save", "finish", "audit"}
Uncaught == {"load", "updateError", "auditError"}
Polling == Caught \cup Uncaught \cup {"dispose"}

Indexed == {e \in Event : time[e] # None}

Larger(a, b) == IF a >= b THEN a ELSE b
Smaller(a, b) == IF a <= b THEN a ELSE b

TypeOK ==
  /\ overlap \in Overlaps
  /\ now \in Clock
  /\ time \in [Event -> Int \cup {None}]
  /\ prompt \subseteq Indexed
  /\ examined \subseteq stored /\ stored \subseteq Indexed
  /\ checkpoint \in Position /\ cursor \in Position /\ reached \in Position
  /\ timer \in {"armed", "fired", "off"}
  /\ pc \in Polling \cup {"idle", "down"}
  /\ trigger \in {"interval", "manual"}
  /\ gte \in Int \cup {None} /\ lte \in Int
  /\ pit \in (SUBSET Indexed) \cup {None}
  /\ strays \in Nat
  /\ fetched \subseteq Indexed /\ page \subseteq Indexed
  /\ event \in Event \cup {None} /\ more \in BOOLEAN
  /\ cache \in [Looked -> {"unknown", "found", "missing"}]
  /\ faults \in 0..MaxFaults

Init ==
  /\ overlap \in Overlaps
  /\ now = 0
  /\ time = [e \in Event |-> None]
  /\ prompt = {} /\ stored = {} /\ examined = {} /\ rejected = {}
  /\ checkpoint = NoPosition
  /\ timer = "armed" /\ pc = "idle" /\ trigger = "interval"
  /\ cursor = NoPosition /\ reached = NoPosition
  /\ gte = None /\ lte = 0
  /\ pit = None /\ strays = 0 /\ fetched = {} /\ page = {} /\ event = None /\ more = FALSE
  /\ cache = [e \in Looked |-> "unknown"]
  /\ faults = 0

----------------------------------------------------------------------------
(* The world around the poller.                                             *)

Tick ==
  /\ now < MaxTime
  /\ now' = now + 1
  /\ UNCHANGED <<indexVars, storeVars, checkpoint, timer, pc, trigger, pollVars, strays, cache, rejected, faults>>

\* A document reaches the index, some time after its event.
Index ==
  \E e \in Event \ Indexed, t \in (now - MaxLate)..(now + Skew) :
    /\ time' = [time EXCEPT ![e] = t]
    /\ prompt' = IF overlap > 0 /\ now + Skew - t <= overlap THEN prompt \cup {e} ELSE prompt
    /\ UNCHANGED <<overlap, now, storeVars, checkpoint, timer, pc, trigger, pollVars, strays, cache, rejected, faults>>

----------------------------------------------------------------------------
(* SiemPollerService.                                                       *)

Begin(by) ==
  /\ trigger' = by
  /\ pc' = "load"
  /\ UNCHANGED <<indexVars, now, storeVars, checkpoint, pollVars, strays, cache, rejected, faults>>

\* triggerPollNow; a second trigger shares the poll in flight and changes nothing.
Manual ==
  /\ pc = "idle"
  /\ Begin("manual")
  /\ UNCHANGED timer

\* The timer fires: it begins a poll, or shares the one in flight.
Interval ==
  /\ timer = "armed"
  /\ timer' = "fired"
  /\ IF pc = "idle" THEN Begin("interval")
     ELSE UNCHANGED <<indexVars, now, storeVars, checkpoint, pc, trigger, pollVars, strays, cache, rejected, faults>>

\* The locals of pollSource are gone.
Forget ==
  /\ cursor' = NoPosition /\ reached' = NoPosition
  /\ gte' = None /\ lte' = 0
  /\ fetched' = {} /\ page' = {} /\ event' = None /\ more' = FALSE
  /\ trigger' = "interval"

\* Mutant: the timer is set again by the polls that it began.
SettlesAlone ==
  /\ pc' = "idle"
  /\ timer' = IF trigger = "interval" THEN "armed" ELSE timer
  /\ Forget
  /\ UNCHANGED <<pit, strays>>

\* The promise of the poll settles: runScheduledPoll, if it awaits it, sets the
\* timer again.
Settles ==
  /\ pc' = "idle"
  /\ timer' = "armed"
  /\ Forget
  /\ UNCHANGED <<pit, strays>>

\* The process ends: what it held in memory is gone, the id of its point in time
\* too.
Ends ==
  /\ pc' = "down"
  /\ timer' = "off"
  /\ Forget
  /\ pit' = None
  /\ strays' = IF pit = None THEN strays ELSE strays + 1
  /\ cache' = [e \in Looked |-> "unknown"]

\* onApplicationBootstrap.
Restart ==
  /\ pc = "down"
  /\ pc' = "idle"
  /\ timer' = "armed"
  /\ UNCHANGED <<indexVars, now, storeVars, checkpoint, trigger, pollVars, strays, cache, rejected, faults>>

----------------------------------------------------------------------------
(* SiemService.pollSource and the Elasticsearch driver.                     *)

\* getOrCreate and toCursor: a checkpoint that lies too far ahead is dropped.
Load ==
  /\ pc = "load"
  /\ LET ahead == checkpoint.time # None /\ checkpoint.time > now + overlap
         from == [time |-> IF checkpoint.time = None \/ ahead THEN now - Lookback ELSE checkpoint.time,
                  event |-> IF ahead THEN None ELSE checkpoint.event]
     IN  cursor' = from /\ reached' = from
  /\ pc' = "query"
  /\ UNCHANGED <<indexVars, now, storeVars, checkpoint, timer, trigger, gte, lte, pit, fetched, page, event, more, strays, cache, rejected, faults>>

\* Mutant: a poll starts where the last one ended.
LowerBoundFlat(from) == Larger(now - Lookback, Smaller(from, now))

\* getEffectiveQueryLowerBound.
LowerBound(from) == Larger(now - Lookback, Smaller(from, now) - overlap)

\* fetchBatch up to its search: the bounds, and on the first page the point in
\* time.  Without an overlap the search goes on after the checkpoint's sort
\* values, whose _shard_doc says nothing about the order in a new point in time.
Query ==
  /\ pc = "query"
  /\ lte' = now + overlap
  /\ IF pit # None THEN UNCHANGED <<gte, pit, fetched>>
     ELSE /\ gte' = LowerBound(cursor.time)
          /\ pit' = Indexed
          /\ IF overlap > 0 \/ cursor.event = None THEN UNCHANGED fetched
             ELSE \E ties \in SUBSET {e \in Indexed : time[e] = cursor.time} :
                    fetched' = ties \cup {e \in Indexed : time[e] < cursor.time}
  /\ pc' = "search"
  /\ UNCHANGED <<indexVars, now, storeVars, checkpoint, timer, trigger, cursor, reached, page, event, more, strays, cache, rejected, faults>>

\* What the search finds after search_after.
Remaining == {e \in pit : gte <= time[e] /\ time[e] <= lte} \ fetched

\* The first BatchSize documents of those, by time.
Pages ==
  {hits \in SUBSET Remaining :
     /\ Cardinality(hits) = Smaller(BatchSize, Cardinality(Remaining))
     /\ \A hit \in hits, later \in Remaining \ hits : time[hit] <= time[later]}

Duplicate(e) == cursor.event = e /\ cursor.time = time[e]

\* Mutant: every event moves the checkpoint.
AdvancedAlways(position, e) == [time |-> time[e], event |-> e]

\* The position that stands for e, if it does not lie behind.
Advanced(position, e) ==
  IF time[e] < position.time THEN position ELSE [time |-> time[e], event |-> e]

\* disposePit: an error of the close is swallowed.
Closes(before) ==
  /\ pit' = None
  /\ \/ faults' = before /\ UNCHANGED strays
     \/ pit # None /\ before < MaxFaults /\ faults' = before + 1 /\ strays' = strays + 1

\* Mutant: a page without a new event is taken for the last one.
SearchStopsEarly ==
  /\ pc = "search"
  /\ \E hits \in Pages :
       LET events == {e \in hits : ~Duplicate(e)} IN
       /\ page' = events
       /\ fetched' = fetched \cup hits
       /\ more' = (events # {} /\ Cardinality(hits) = BatchSize)
       /\ pit' = IF more' THEN pit ELSE None
       /\ IF events = {} THEN UNCHANGED cursor
          ELSE \E last \in {e \in events : \A other \in events : time[other] <= time[e]} :
                 cursor' = Advanced(cursor, last)
  /\ pc' = IF page' # {} THEN "store" ELSE IF more' THEN "query" ELSE "finish"
  /\ UNCHANGED <<indexVars, now, storeVars, checkpoint, timer, trigger, reached, gte, lte, event, strays, cache, rejected, faults>>

\* The search answers and its hits are normalized.  A lookup finds an account in
\* scope or fails, and both are remembered.
Search ==
  /\ pc = "search"
  /\ \E hits \in Pages, found \in SUBSET Looked :
       LET asked == {e \in hits \cap Looked : ~Duplicate(e) /\ cache[e] = "unknown"}
           events == {e \in hits : ~Duplicate(e) /\ (e \in Looked => cache'[e] = "found")}
       IN  /\ found \subseteq asked
           /\ cache' = [e \in Looked |->
                IF e \notin asked THEN cache[e] ELSE IF e \in found THEN "found" ELSE "missing"]
           /\ rejected' = rejected \cup {e \in hits \cap Looked : ~Duplicate(e) /\ cache'[e] = "missing"}
           /\ page' = events
           /\ fetched' = fetched \cup hits
           /\ more' = (Cardinality(hits) = BatchSize)
           /\ IF more' THEN UNCHANGED <<pit, strays, faults>> ELSE Closes(faults)
           /\ IF events = {} THEN UNCHANGED cursor
              ELSE \E last \in {e \in events : \A other \in events : time[other] <= time[e]} :
                     cursor' = Advanced(cursor, last)
  /\ pc' = IF page' # {} THEN "store" ELSE IF more' THEN "query" ELSE "finish"
  /\ UNCHANGED <<indexVars, now, storeVars, checkpoint, timer, trigger, reached, gte, lte, event>>

\* Mutant: any error of the insert is taken for a duplicate.
StoreSwallowed ==
  /\ pc = "store"
  /\ \E e \in {e \in page : \A other \in page : time[e] <= time[other]} :
       /\ event' = e
       /\ stored' \in {stored, stored \cup {e}}
  /\ pc' = "correlate"
  /\ UNCHANGED <<indexVars, now, examined, checkpoint, timer, trigger, cursor, reached, gte, lte, pit, fetched, page, more, strays, cache, rejected, faults>>

\* Mutant: the checkpoint is advanced ahead of the correlation.
StoreAdvances ==
  /\ pc = "store"
  /\ \E e \in {e \in page : \A other \in page : time[e] <= time[other]} :
       /\ event' = e
       /\ stored' = stored \cup {e}
       /\ reached' = Advanced(reached, e)
  /\ pc' = "correlate"
  /\ UNCHANGED <<indexVars, now, examined, checkpoint, timer, trigger, cursor, gte, lte, pit, fetched, page, more, strays, cache, rejected, faults>>

\* ObservedEventsService.ingestWithResult up to its correlation: the row is
\* inserted or found.  One found matched is not correlated again.
Store ==
  /\ pc = "store"
  /\ \E e \in {e \in page : \A other \in page : time[e] <= time[other]} :
       /\ event' = e
       /\ stored' = stored \cup {e}
       /\ \/ pc' = "correlate" /\ UNCHANGED reached
          \/ e \in examined /\ pc' = "save" /\ reached' = Advanced(reached, e)
  /\ UNCHANGED <<indexVars, now, examined, checkpoint, timer, trigger, cursor, gte, lte, pit, fetched, page, more, strays, cache, rejected, faults>>

\* correlateObservedEvent, and advanceCheckpointCursor after it.
Correlate ==
  /\ pc = "correlate"
  /\ examined' = examined \cup {event}
  /\ reached' = Advanced(reached, event)
  /\ pc' = "save"
  /\ UNCHANGED <<indexVars, now, stored, checkpoint, timer, trigger, cursor, gte, lte, pit, fetched, page, event, more, strays, cache, rejected, faults>>

\* updateSuccess after each event.
Save ==
  /\ pc = "save"
  /\ checkpoint' = reached
  /\ page' = page \ {event}
  /\ pc' = IF page' # {} THEN "store" ELSE IF more THEN "query" ELSE "finish"
  /\ UNCHANGED <<indexVars, now, storeVars, timer, trigger, cursor, reached, gte, lte, pit, fetched, event, more, strays, cache, rejected, faults>>

\* updateSuccess at the end of the poll.
Finish ==
  /\ pc = "finish"
  /\ checkpoint' = reached
  /\ IF trigger = "manual"
     THEN pc' = "audit" /\ UNCHANGED <<timer, trigger, pollVars, strays>>
     ELSE Settles
  /\ UNCHANGED <<indexVars, now, storeVars, strays, cache, rejected, faults>>

\* The audit entry of a manual pull, or of one that failed.
Audit ==
  /\ pc \in {"audit", "auditError"}
  /\ Settles
  /\ UNCHANGED <<indexVars, now, storeVars, checkpoint, strays, cache, rejected, faults>>

\* Mutant: the point in time is left to run out.
DisposeNothing ==
  /\ pc = "dispose"
  /\ pc' = "updateError"
  /\ UNCHANGED <<indexVars, now, storeVars, checkpoint, timer, trigger, pollVars, strays, cache, rejected, faults>>

\* The catch of pollSource: disposeCursor...
Dispose ==
  /\ pc = "dispose"
  /\ Closes(faults)
  /\ pc' = "updateError"
  /\ UNCHANGED <<indexVars, now, storeVars, checkpoint, timer, trigger, cursor, reached, gte, lte, fetched, page, event, more, cache, rejected>>

\* ...and updateError.
UpdateError ==
  /\ pc = "updateError"
  /\ checkpoint' = reached
  /\ pc' = "auditError"
  /\ UNCHANGED <<indexVars, now, storeVars, timer, trigger, pollVars, strays, cache, rejected, faults>>

----------------------------------------------------------------------------
(* Faults.                                                                  *)

\* A call in the try throws.  A point in time that fetchBatch had open is closed
\* by the driver's catch; one of an earlier page is known to pollSource too.
Throw ==
  /\ pc \in Caught /\ faults < MaxFaults
  /\ pc' = "dispose"
  /\ \/ /\ pc \notin {"query", "search"}
        /\ faults' = faults + 1 /\ UNCHANGED <<pit, strays>>
     \/ /\ pc = "query" /\ ~more  \* the open, carried out or not
        /\ faults' = faults + 1 /\ strays' \in {strays, strays + 1} /\ UNCHANGED pit
     \/ /\ pc = "search" /\ ~more
        /\ Closes(faults + 1)
     \/ /\ pc \in {"query", "search"} /\ more
        /\ \/ faults' = faults + 1 /\ pit' = None
           \/ faults + 1 < MaxFaults /\ faults' = faults + 2 /\ UNCHANGED pit
        /\ UNCHANGED strays
  /\ UNCHANGED <<indexVars, now, storeVars, checkpoint, timer, trigger, cursor, reached, gte, lte, fetched, page, event, more, cache, rejected>>

\* A call outside of it throws and the poll rejects.  Nobody handles the rejection
\* of a poll that the timer began or shares: Node ends the process.
Reject ==
  /\ pc \in Uncaught /\ faults < MaxFaults
  /\ faults' = faults + 1
  /\ IF timer = "fired" THEN Ends ELSE Settles /\ UNCHANGED cache
  /\ UNCHANGED <<indexVars, now, storeVars, checkpoint, rejected>>

Crash ==
  /\ pc # "down" /\ faults < MaxFaults
  /\ faults' = faults + 1
  /\ Ends
  /\ UNCHANGED <<indexVars, now, storeVars, checkpoint, rejected>>

Step == Load \/ Query \/ Search \/ Store \/ Correlate \/ Save \/ Finish \/ Audit \/ Dispose \/ UpdateError

Next == Tick \/ Index \/ Manual \/ Interval \/ Restart \/ Step \/ Throw \/ Reject \/ Crash

\* The timer fires, an awaited call is answered, and somebody starts the process
\* again.
Fairness == WF_vars(Step) /\ WF_vars(Interval) /\ WF_vars(Restart)

Spec == Init /\ [][Next]_vars /\ Fairness

----------------------------------------------------------------------------
\* Where a poll that begins now would start to look.
NextBound ==
  LET cp == checkpoint.time IN
  LowerBound(IF cp = None \/ cp > now + overlap THEN now - Lookback ELSE cp)

OutOfLookback(e) == e \in Indexed /\ time[e] < now - Lookback

\* An event that reached the index within the overlap stays in the reach of the
\* next poll until it was stored and correlated, whatever pages, faults and
\* restarts moved the checkpoint, unless polls stop for longer than the lookback.
PromptEventStaysInReach ==
  \A e \in prompt \ (examined \cup rejected) : NextBound <= time[e] \/ OutOfLookback(e)

\* The checkpoint stands for an event that was stored and correlated, and never
\* lies so far ahead that toCursor would drop it.
CheckpointIsEarned ==
  /\ checkpoint.event # None => checkpoint.event \in examined
  /\ checkpoint.time # None => checkpoint.time <= now + overlap

\* 'does not move the checkpoint backwards for overlapped duplicate events': nor
\* does anything else.
CheckpointMovesForward ==
  [][checkpoint.time # None => checkpoint'.time # None /\ checkpoint'.time >= checkpoint.time]_vars

\* However a poll ended, it tried to close its point in time: Elasticsearch keeps
\* one only for a crash, or for an open or a close that was not answered.
PointInTimeIsGivenUp == pc \in {"idle", "down"} => pit = None /\ strays <= faults

\* Between polls the timer is set: neither a manual poll that the timer came to
\* share nor one that failed stops the schedule.
SchedulerStaysArmed == pc = "idle" => timer = "armed"

\* An event that reached the index within the overlap is stored and correlated at
\* last.
PromptEventIsExamined ==
  \A e \in Event : e \in prompt ~> (e \in examined \cup rejected \/ OutOfLookback(e))
=============================================================================
