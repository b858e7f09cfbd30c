-------------------------- MODULE SiemPollingProofs --------------------------
(***************************************************************************)
(* Theorems about SiemPolling, for any index, any pages, any overlap and   *)
(* lookback, and any number of crashes and throwing calls.                 *)
(*                                                                         *)
(* The invariant follows an event from the index to the checkpoint: no     *)
(* position that a poll holds lies further ahead of an event still to be   *)
(* examined than the overlap, and a page holds whatever comes before what  *)
(* was fetched after it.                                                   *)
(***************************************************************************)
EXTENDS SiemPolling, TLAPS

----------------------------------------------------------------------------
(* The schedule and the point in time.                                      *)

\* Where a poll goes through its pages, and where its point in time may be open.
Walk == {"query", "search", "store", "correlate", "save"}
Walking == Walk \cup {"dispose"}
Paging == {"store", "correlate", "save"}

PitInv ==
  /\ pc \notin Walking => pit = None
  /\ pc = "search" => pit # None
  /\ pc \in Paging => (more <=> pit # None)
  /\ strays <= faults

----------------------------------------------------------------------------
(* Events and positions.                                                    *)

\* A position, once there is one, has a time, which is not far ahead; and its
\* event was examined.
Earned(position) ==
  /\ position.event # None => position.event \in examined
  /\ position.time # None => position.time <= now + overlap /\ position.time <= now + Skew

\* The poll is past its load.
Loaded == Polling \ {"load"}

\* Positions of the poll in flight.
PositionInv ==
  /\ Earned(checkpoint)
  /\ pc \in Loaded =>
       /\ Earned(reached)
       /\ reached.time # None
       /\ checkpoint.time # None => checkpoint.time <= reached.time
       /\ cursor.time # None /\ cursor.time <= now + Skew
       /\ cursor.event \in {None} \cup examined \cup fetched
  /\ pc = "query" /\ pit = None => cursor = reached

\* No poll, or one that did not read its checkpoint yet.
Fresh == {"idle", "down", "load"}

\* Pages and the event in hand.
PageInv ==
  /\ page \subseteq fetched
  /\ \A e \in page : time[e] <= now + overlap
  /\ lte <= now + overlap
  /\ pc \in {"correlate", "save"} =>
       event \in page \cap stored /\ \A e \in page : time[event] <= time[e]
  /\ pc = "save" => event \in examined
  /\ pc \in Fresh => fetched = {}
  /\ pc \in Fresh \cup {"query", "search"} => page = {}
  /\ pc = "search" \/ pit # None => gte # None

\* Documents are dated by clocks that are not far ahead.
IndexInv == \A e \in Indexed : time[e] <= now + Skew

Waiting == prompt \ (examined \cup rejected)

\* A position that polls may start from without missing e.
InReach(e, position) ==
  \/ position.time = None
  \/ position.time <= time[e] + overlap
  \/ OutOfLookback(e)

\* An event that was fetched does not lie far ahead of one that was not.
Before(e, fetchedEvent) == time[fetchedEvent] <= time[e] + overlap \/ OutOfLookback(e)

\* What holds of an event that was prompt and waits to be examined.
ReachOf(e) ==
  /\ InReach(e, checkpoint)
  /\ pc \in Loaded => InReach(e, reached)
  \* Whatever was fetched and is not in the page was examined or rejected.
  /\ pc \in Walk => e \notin fetched \ page
  /\ pc \in Walk /\ e \notin fetched => \A f \in fetched : Before(e, f)
  /\ pc \in Walk /\ pit # None /\ e \notin pit => \A f \in pit : Before(e, f)
  /\ pc \in Walk /\ pit # None /\ e \in pit => gte <= time[e] \/ OutOfLookback(e)

ReachInv ==
  /\ prompt # {} => overlap > 0
  /\ \A e \in Waiting : ReachOf(e)

IInv == TypeOK /\ PitInv /\ PositionInv /\ PageInv /\ IndexInv /\ ReachInv

----------------------------------------------------------------------------
LEMMA NoPositionType == NoPosition \in Position
BY DEF NoPosition, Position

LEMMA Typed ==
  ASSUME IInv
  PROVE  /\ overlap \in Nat /\ now \in Nat /\ Skew \in Nat /\ Lookback \in Nat /\ None \notin Int /\ None \notin Event
         /\ \A e \in Indexed : e \in Event /\ time[e] \in Int
         /\ prompt \subseteq Indexed /\ Waiting \subseteq Indexed
BY NumbersAssumption, NoneAssumption DEF IInv, TypeOK, Clock, Indexed, Waiting

LEMMA IInvInit == Init => IInv
<1> SUFFICES ASSUME Init PROVE IInv
  OBVIOUS
<1>1. TypeOK
  <2>1. Indexed = {} BY DEF Init, Indexed
  <2>2. now \in Clock /\ faults \in 0..MaxFaults BY NumbersAssumption DEF Init, Clock
  <2>3. more \in BOOLEAN BY DEF Init
  <2>4. time \in [Event -> Int \cup {None}] /\ cache \in [Looked -> {"unknown", "found", "missing"}]
    BY DEF Init
  <2> QED BY <2>1, <2>2, <2>3, <2>4, NoPositionType DEF Init, TypeOK
<1>2. PitInv /\ PageInv /\ IndexInv
  BY NumbersAssumption, NoneAssumption DEF Init, PitInv, PageInv, IndexInv, Walking, Walk, Paging, Indexed
<1>3. PositionInv
  BY DEF Init, PositionInv, Earned, NoPosition, Loaded, Polling, Caught, Uncaught
<1>4. ReachInv
  BY DEF Init, ReachInv, ReachOf, Waiting, InReach, Loaded, Polling, Caught, Uncaught, Walk, NoPosition
<1> QED BY <1>1, <1>2, <1>3, <1>4 DEF IInv

LEMMA ForgetType ==
  ASSUME Forget
  PROVE  /\ cursor' \in Position /\ reached' \in Position
         /\ gte' \in Int \cup {None} /\ lte' \in Int
         /\ fetched' \subseteq Indexed /\ page' \subseteq Indexed
         /\ event' \in Event \cup {None} /\ trigger' \in {"interval", "manual"}
         /\ more' \in BOOLEAN
<1>1. more' \in BOOLEAN BY DEF Forget
<1> QED BY <1>1, NoPositionType DEF Forget

LEMMA AdvancedType ==
  ASSUME NEW position \in Position, NEW e \in Event, time[e] \in Int
  PROVE  /\ Advanced(position, e) \in Position
         /\ Advanced(position, e) \in {position, [time |-> time[e], event |-> e]}
BY DEF Advanced, Position

\* A position only moves ahead, and then to the event it was advanced by.
LEMMA AdvancedFacts ==
  ASSUME NEW position \in Position, position.time \in Int, NEW e \in Event, time[e] \in Int
  PROVE  /\ Advanced(position, e).time \in Int
         /\ position.time <= Advanced(position, e).time
         /\ time[e] <= Advanced(position, e).time
         /\ \/ Advanced(position, e) = position
            \/ Advanced(position, e).time = time[e] /\ Advanced(position, e).event = e
BY DEF Advanced, Position

LEMMA InPage ==
  ASSUME IInv, NEW e \in page
  PROVE  e \in Indexed /\ e \in Event /\ time[e] \in Int /\ e \in fetched /\ time[e] <= now + overlap /\ time[e] <= now + Skew
BY Typed DEF IInv, TypeOK, PageInv, IndexInv

\* What the bounds and the order of a page say of its hits.
LEMMA InPages ==
  ASSUME IInv, pc = "search", NEW hits \in Pages
  PROVE  /\ pit \in SUBSET Indexed /\ gte \in Int /\ lte \in Int
         /\ \A h \in hits : /\ h \in pit /\ h \notin fetched /\ h \in Indexed /\ h \in Event /\ time[h] \in Int
                            /\ gte <= time[h] /\ time[h] <= lte
         /\ \A h \in hits, e \in pit \ (fetched \cup hits) : gte <= time[e] => time[h] <= time[e]
<1>1. pit \in SUBSET Indexed /\ gte \in Int /\ lte \in Int
  BY DEF IInv, TypeOK, PitInv, PageInv
<1>2. /\ hits \subseteq Remaining
      /\ \A h \in hits, later \in Remaining \ hits : time[h] <= time[later]
  BY DEF Pages
<1>3. ASSUME NEW h \in hits
      PROVE  /\ h \in pit /\ h \notin fetched /\ h \in Indexed /\ h \in Event /\ time[h] \in Int
             /\ gte <= time[h] /\ time[h] <= lte
  BY <1>1, <1>2, Typed DEF Remaining
<1>4. ASSUME NEW h \in hits, NEW e \in pit \ (fetched \cup hits), gte <= time[e]
      PROVE  time[h] <= time[e]
  <2>1. CASE time[e] <= lte BY <1>2, <1>4, <2>1 DEF Remaining
  <2>2. CASE ~(time[e] <= lte) BY <1>1, <1>3, <2>2, Typed
  <2> QED BY <2>1, <2>2
<1> QED BY <1>1, <1>3, <1>4

\* What an attempt to close leaves behind.
LEMMA ClosesFacts ==
  ASSUME NEW before \in 0..MaxFaults, Closes(before), strays \in Nat
  PROVE  /\ pit' = None /\ strays' \in Nat /\ faults' \in 0..MaxFaults
         /\ strays' - strays <= faults' - before
BY NumbersAssumption DEF Closes

\* A call that throws leaves the poll's point in time to Dispose, if it did not
\* close it, and takes a fault for each one that is lost.
LEMMA ThrowFacts ==
  ASSUME TypeOK, PitInv, Throw
  PROVE  /\ pit' \in {pit, None} /\ strays' \in Nat /\ faults' \in 0..MaxFaults
         /\ strays' - strays <= faults' - faults
<1>1. /\ strays \in Nat /\ faults \in 0..MaxFaults /\ faults + 1 \in 0..MaxFaults
  BY NumbersAssumption DEF TypeOK, Throw
<1>2. CASE pc = "query" /\ ~more BY <1>1, <1>2 DEF Throw
<1>3. CASE pc = "search" /\ ~more
  <2>1. Closes(faults + 1) BY <1>3 DEF Throw
  <2> QED BY <1>1, <2>1, ClosesFacts
<1>4. CASE pc \in {"query", "search"} /\ more
  <2>1. /\ UNCHANGED strays
        /\ \/ faults' = faults + 1 /\ pit' = None
           \/ faults + 1 < MaxFaults /\ faults' = faults + 2 /\ UNCHANGED pit
    BY <1>4 DEF Throw
  <2> QED BY <1>1, <2>1, NumbersAssumption
<1>5. CASE pc \notin {"query", "search"} BY <1>1, <1>5 DEF Throw
<1> QED BY <1>2, <1>3, <1>4, <1>5 DEF TypeOK

\* What a search leaves behind.
LEMMA SearchFacts ==
  ASSUME IInv, Search
  PROVE  \E hits \in Pages :
           /\ fetched' = fetched \cup hits
           /\ page' \subseteq hits
           /\ \A e \in hits \ page' : Duplicate(e) \/ e \in rejected'
           /\ rejected \subseteq rejected'
           /\ cursor' = cursor \/ \E last \in hits : cursor' = Advanced(cursor, last)
           /\ cache' \in [Looked -> {"unknown", "found", "missing"}]
           /\ more' \in BOOLEAN /\ pit' = IF more' THEN pit ELSE None
           /\ strays' \in Nat /\ faults' \in 0..MaxFaults /\ strays' - strays <= faults' - faults
<1>1. PICK hits \in Pages, found \in SUBSET Looked :
        LET asked == {e \in hits \cap Looked : ~Duplicate(e) /\ cache[e] = "unknown"}
            events == {e \in hits : ~Duplicate(e) /\ (e \in Looked => cache'[e] = "found")}
        IN  /\ cache' = [e \in Looked |->
                 IF e \notin asked THEN cache[e] ELSE IF e \in found THEN "found" ELSE "missing"]
            /\ rejected' = rejected \cup {e \in hits \cap Looked : ~Duplicate(e) /\ cache'[e] = "missing"}
            /\ page' = events
            /\ fetched' = fetched \cup hits
            /\ more' = (Cardinality(hits) = BatchSize)
            /\ IF more' THEN UNCHANGED <<pit, strays, faults>> ELSE Closes(faults)
            /\ IF events = {} THEN UNCHANGED cursor
               ELSE \E last \in {e \in events : \A other \in events : time[other] <= time[e]} :
                      cursor' = Advanced(cursor, last)
  BY DEF Search
<1>2. cache' \in [Looked -> {"unknown", "found", "missing"}]
  BY <1>1 DEF IInv, TypeOK
<1>3. ASSUME NEW e \in hits \ page' PROVE Duplicate(e) \/ e \in rejected'
  <2>1. e \in Looked /\ ~Duplicate(e) => cache'[e] \in {"found", "missing"}
    BY <1>1 DEF IInv, TypeOK
  <2> QED BY <1>1, <2>1
<1>4. cursor' = cursor \/ \E last \in hits : cursor' = Advanced(cursor, last)
  BY <1>1
<1>5. /\ pit' = IF more' THEN pit ELSE None
      /\ strays' \in Nat /\ faults' \in 0..MaxFaults /\ strays' - strays <= faults' - faults
  <2>1. strays \in Nat /\ faults \in 0..MaxFaults BY DEF IInv, TypeOK
  <2> QED BY <1>1, <2>1, ClosesFacts
<1> QED BY <1>1, <1>2, <1>3, <1>4, <1>5

----------------------------------------------------------------------------
(* Every step preserves each part of the invariant.                         *)

\* Types.  Positions stay positions because nothing is advanced to an event
\* without a time.
LEMMA TypeNext == IInv /\ [Next]_vars => TypeOK'
<1> SUFFICES ASSUME IInv, [Next]_vars PROVE TypeOK'
  OBVIOUS
<1> USE NumbersAssumption, ForgetType DEF IInv, TypeOK, Clock, Indexed, Polling, Caught, Uncaught, indexVars, storeVars, pollVars
<1>1. CASE Tick BY <1>1 DEF Tick
<1>2. CASE Index
  <2>1. PICK e \in Event \ Indexed, t \in (now - MaxLate)..(now + Skew) :
          /\ time' = [time EXCEPT ![e] = t]
          /\ prompt' = (IF overlap > 0 /\ now + Skew - t <= overlap THEN prompt \cup {e} ELSE prompt)
    BY <1>2 DEF Index
  <2>2. t \in Int BY Typed
  <2>3. time' \in [Event -> Int \cup {None}] BY <2>1, <2>2
  <2>4. Indexed' = Indexed \cup {e} BY <2>1, <2>2, NoneAssumption
  <2> QED BY <1>2, <2>1, <2>3, <2>4 DEF Index
<1>3. CASE Manual BY <1>3 DEF Manual, Begin
<1>4. CASE Interval BY <1>4 DEF Interval, Begin
<1>5. CASE Restart BY <1>5 DEF Restart
<1>6. CASE Load
  <2>1. cursor' \in Position /\ reached' \in Position BY <1>6 DEF Load, Position
  <2> QED BY <1>6, <2>1 DEF Load
<1>7. CASE Query
  <2>1. gte' \in Int \cup {None} /\ lte' \in Int
    BY <1>7, Typed DEF Query, LowerBound, Larger, Smaller, PositionInv, Loaded, Position
  <2> QED BY <1>7, <2>1 DEF Query
<1>8. CASE Search
  <2>1. PICK hits \in Pages :
          /\ fetched' = fetched \cup hits /\ page' \subseteq hits
          /\ cursor' = cursor \/ \E last \in hits : cursor' = Advanced(cursor, last)
          /\ cache' \in [Looked -> {"unknown", "found", "missing"}]
          /\ more' \in BOOLEAN /\ pit' = IF more' THEN pit ELSE None
          /\ strays' \in Nat /\ faults' \in 0..MaxFaults
    BY <1>8, SearchFacts
  <2>2. hits \subseteq Indexed BY <1>8, InPages DEF Search
  <2>3. cursor' \in Position
    <3>1. ASSUME NEW e \in hits PROVE Advanced(cursor, e) \in Position
      BY <1>8, <2>2, Typed, AdvancedType
    <3> QED BY <2>1, <3>1
  <2> QED BY <1>8, <2>1, <2>2, <2>3 DEF Search
<1>9. CASE Store
  <2>1. PICK e \in page : /\ event' = e /\ stored' = stored \cup {e}
                          /\ \/ pc' = "correlate" /\ UNCHANGED reached
                             \/ pc' = "save" /\ reached' = Advanced(reached, e)
    BY <1>9 DEF Store
  <2>2. Advanced(reached, e) \in Position BY InPage, AdvancedType
  <2> QED BY <1>9, <2>1, <2>2, InPage DEF Store
<1>10. CASE Correlate
  <2>1. event \in page \cap stored BY <1>10 DEF Correlate, PageInv
  <2>2. event \in Indexed /\ Advanced(reached, event) \in Position BY <2>1, InPage, AdvancedType
  <2> QED BY <1>10, <2>1, <2>2 DEF Correlate
<1>11. CASE Save BY <1>11 DEF Save
<1>12. CASE Finish BY <1>12 DEF Finish, Settles
<1>13. CASE Audit BY <1>13 DEF Audit, Settles
<1>14. CASE Dispose BY <1>14, ClosesFacts DEF Dispose
<1>15. CASE UpdateError BY <1>15 DEF UpdateError
<1>16. CASE Throw BY <1>16, ThrowFacts DEF Throw
<1>17. CASE Reject BY <1>17 DEF Reject, Ends, Settles
<1>18. CASE Crash BY <1>18 DEF Crash, Ends
<1>19. CASE UNCHANGED vars BY <1>19 DEF vars
<1> QED BY <1>1, <1>2, <1>3, <1>4, <1>5, <1>6, <1>7, <1>8, <1>9, <1>10, <1>11, <1>12, <1>13, <1>14, <1>15, <1>16, <1>17, <1>18, <1>19 DEF Next, Step

LEMMA Grown ==
  ASSUME NEW a \in Nat, NEW b \in Nat, NEW c \in Int, NEW d \in Int, a <= b, c - a <= d - b
  PROVE  c <= d
OBVIOUS

\* The point in time is open on every page but the last, and in the catch only
\* until disposeCursor; no more were left to end of their own than calls failed.
LEMMA PitNext == IInv /\ [Next]_vars => PitInv'
<1> SUFFICES ASSUME IInv, [Next]_vars PROVE PitInv'
  OBVIOUS
<1> USE DEF IInv, PitInv, Walking, Walk, Paging, TypeOK, Polling, Caught, Uncaught, indexVars, storeVars, pollVars
<1>1. CASE Tick BY <1>1 DEF Tick
<1>2. CASE Index BY <1>2 DEF Index
<1>3. CASE Manual BY <1>3 DEF Manual, Begin
<1>4. CASE Interval BY <1>4 DEF Interval, Begin
<1>5. CASE Restart BY <1>5 DEF Restart
<1>6. CASE Load BY <1>6 DEF Load
<1>7. CASE Query
  <2>1. Indexed # None BY NoneAssumption DEF Indexed
  <2> QED BY <1>7, <2>1 DEF Query
<1>8. CASE Search
  <2>1. /\ more' \in BOOLEAN /\ pit' = IF more' THEN pit ELSE None
        /\ strays' \in Nat /\ faults' \in 0..MaxFaults /\ strays' - strays <= faults' - faults
    BY <1>8, SearchFacts
  <2>2. strays' <= faults' BY <2>1
  <2>3. pc' \in {"store", "finish"} \/ (pc' = "query" /\ more') BY <1>8 DEF Search
  <2>4. pc' # "query" => pc' = "finish" \/ page' # {} BY <1>8 DEF Search
  <2> QED BY <1>8, <2>1, <2>2, <2>3, <2>4 DEF Search
<1>9. CASE Store BY <1>9 DEF Store, Advanced
<1>10. CASE Correlate BY <1>10 DEF Correlate, Advanced
<1>11. CASE Save BY <1>11 DEF Save
<1>12. CASE Finish BY <1>12 DEF Finish, Settles, Forget, NoPosition
<1>13. CASE Audit BY <1>13 DEF Audit, Settles, Forget, NoPosition
<1>14. CASE Dispose
  <2>1. Closes(faults) /\ pc' = "updateError" BY <1>14 DEF Dispose
  <2>2. pit' = None /\ strays' \in Nat /\ faults' \in 0..MaxFaults /\ strays' - strays <= faults' - faults
    BY <2>1, ClosesFacts
  <2>3. strays' <= faults'
    <3>1. strays \in Nat /\ faults \in Nat /\ strays <= faults BY NumbersAssumption
    <3>2. strays' \in Int /\ faults' \in Int BY <2>2, NumbersAssumption
    <3> HIDE DEF IInv, PitInv, TypeOK
    <3> QED BY <2>2, <3>1, <3>2, Grown
  <2> QED BY <2>1, <2>2, <2>3
<1>15. CASE UpdateError BY <1>15 DEF UpdateError
<1>16. CASE Throw
  <2>1. /\ pit' \in {pit, None} /\ strays' \in Nat /\ faults' \in 0..MaxFaults
        /\ strays' - strays <= faults' - faults /\ pc' = "dispose"
    BY <1>16, ThrowFacts DEF Throw
  <2>2. strays' <= faults'
    <3>1. strays \in Nat /\ faults \in Nat /\ strays <= faults BY NumbersAssumption
    <3>2. strays' \in Int /\ faults' \in Int BY <2>1, NumbersAssumption
    <3> HIDE DEF IInv, PitInv, TypeOK
    <3> QED BY <2>1, <3>1, <3>2, Grown
  <2> QED BY <2>1, <2>2
<1>17. CASE Reject BY <1>17 DEF Reject, Ends, Settles, Forget, NoPosition
<1>18. CASE Crash BY <1>18 DEF Crash, Ends, Forget, NoPosition
<1>19. CASE UNCHANGED vars BY <1>19 DEF vars
<1> QED BY <1>1, <1>2, <1>3, <1>4, <1>5, <1>6, <1>7, <1>8, <1>9, <1>10, <1>11, <1>12, <1>13, <1>14, <1>15, <1>16, <1>17, <1>18, <1>19 DEF Next, Step

\* Positions: a page lies before lte, and reached is advanced to examined events.
LEMMA PositionNext == IInv /\ [Next]_vars => PositionInv'
<1> SUFFICES ASSUME IInv, [Next]_vars PROVE PositionInv'
  OBVIOUS
<1> USE Typed, NumbersAssumption DEF IInv, PositionInv, Earned, Loaded, TypeOK, Position, PageInv, Indexed, Polling, Caught, Uncaught, indexVars, storeVars, pollVars
<1>1. CASE Tick BY <1>1 DEF Tick
<1>2. CASE Index BY <1>2 DEF Index
<1>3. CASE Manual BY <1>3 DEF Manual, Begin
<1>4. CASE Interval BY <1>4 DEF Interval, Begin
<1>5. CASE Restart BY <1>5 DEF Restart
<1>6. CASE Load BY <1>6 DEF Load
<1>7. CASE Query BY <1>7 DEF Query, LowerBound, Larger, Smaller
<1>8. CASE Search
  <2>1. PICK hits \in Pages :
          /\ fetched' = fetched \cup hits
          /\ cursor' = cursor \/ \E last \in hits : cursor' = Advanced(cursor, last)
          /\ more' \in BOOLEAN /\ pit' = IF more' THEN pit ELSE None
    BY <1>8, SearchFacts
  <2>2. /\ cursor'.time # None /\ cursor'.time <= now + Skew
        /\ cursor'.event \in {None} \cup examined \cup fetched'
    <3>1. ASSUME NEW e \in hits, cursor' = Advanced(cursor, e)
          PROVE  /\ cursor'.time # None /\ cursor'.time <= now + Skew
                /\ cursor'.event \in {None} \cup examined \cup fetched'
      <4>1. e \in Event /\ time[e] \in Int /\ e \in Indexed BY <1>8, InPages DEF Search
      <4>2. cursor.time \in Int /\ pc \in Loaded BY <1>8 DEF Search
      <4>3. time[e] <= now + Skew BY <4>1 DEF IndexInv
      <4> QED BY <2>1, <3>1, <4>1, <4>2, <4>3, AdvancedFacts
    <3>2. CASE cursor' = cursor BY <1>8, <2>1, <3>2 DEF Search
    <3> QED BY <2>1, <3>1, <3>2
  <2>3. pc' \in {"store", "finish"} \/ (pc' = "query" /\ pit' # None)
    <3>1. pc' \in {"store", "finish"} \/ (pc' = "query" /\ more') BY <1>8 DEF Search
    <3>2. pit # None BY <1>8 DEF Search, PitInv
    <3> QED BY <2>1, <3>1, <3>2
  <2> QED BY <1>8, <2>2, <2>3 DEF Search
<1>9. CASE Store
  <2>1. PICK e \in page :
          \/ pc' = "correlate" /\ UNCHANGED reached
          \/ e \in examined /\ pc' = "save" /\ reached' = Advanced(reached, e)
    BY <1>9 DEF Store
  <2>2. e \in Event /\ time[e] \in Int /\ time[e] <= now + overlap /\ time[e] <= now + Skew BY InPage
  <2>3. reached \in Position /\ reached.time \in Int /\ pc \in Loaded BY <1>9 DEF Store
  <2>4. /\ Earned(reached)' /\ reached'.time \in Int /\ reached.time <= reached'.time
    BY <1>9, <2>1, <2>2, <2>3, AdvancedFacts DEF Store
  <2>5. Earned(checkpoint)' BY <1>9 DEF Store
  <2> QED BY <1>9, <2>1, <2>3, <2>4, <2>5 DEF Store
<1>10. CASE Correlate
  <2>1. event \in page BY <1>10 DEF Correlate
  <2>2. event \in Event /\ time[event] \in Int /\ time[event] <= now + overlap /\ time[event] <= now + Skew BY <2>1, InPage
  <2>3. reached \in Position /\ reached.time \in Int /\ pc \in Loaded BY <1>10 DEF Correlate
  <2>4. /\ Earned(reached)' /\ reached'.time \in Int /\ reached.time <= reached'.time
    BY <1>10, <2>2, <2>3, AdvancedFacts DEF Correlate
  <2>5. Earned(checkpoint)' BY <1>10 DEF Correlate
  <2> QED BY <1>10, <2>3, <2>4, <2>5 DEF Correlate
<1>11. CASE Save
  <2>1. pc' \in {"store", "finish"} \/ (pc' = "query" /\ pit' # None)
    <3>1. pc' \in {"store", "finish"} \/ (pc' = "query" /\ more) BY <1>11 DEF Save
    <3>2. more <=> pit # None BY <1>11 DEF Save, PitInv, Paging
    <3> QED BY <1>11, <3>1, <3>2 DEF Save
  <2>2. pc \in Loaded BY <1>11 DEF Save
  <2> QED BY <1>11, <2>1, <2>2 DEF Save
<1>12. CASE Finish BY <1>12 DEF Finish, Settles, Forget, NoPosition
<1>13. CASE Audit BY <1>13 DEF Audit, Settles, Forget, NoPosition
<1>14. CASE Dispose BY <1>14, ClosesFacts DEF Dispose
<1>15. CASE UpdateError BY <1>15 DEF UpdateError
<1>16. CASE Throw BY <1>16, ThrowFacts DEF Throw
<1>17. CASE Reject BY <1>17 DEF Reject, Ends, Settles, Forget, NoPosition
<1>18. CASE Crash BY <1>18 DEF Crash, Ends, Forget, NoPosition
<1>19. CASE UNCHANGED vars BY <1>19 DEF vars
<1> QED BY <1>1, <1>2, <1>3, <1>4, <1>5, <1>6, <1>7, <1>8, <1>9, <1>10, <1>11, <1>12, <1>13, <1>14, <1>15, <1>16, <1>17, <1>18, <1>19 DEF Next, Step

\* Pages are made of what was just fetched, and emptied one event at a time.
LEMMA PageNext == IInv /\ [Next]_vars => PageInv'
<1> SUFFICES ASSUME IInv, [Next]_vars PROVE PageInv'
  OBVIOUS
<1> USE Typed, NumbersAssumption DEF IInv, PageInv, Fresh, TypeOK, Indexed, PitInv, Walking, Walk, Polling, Caught, Uncaught, indexVars, storeVars, pollVars
<1>1. CASE Tick BY <1>1 DEF Tick
<1>2. CASE Index BY <1>2 DEF Index
<1>3. CASE Manual BY <1>3 DEF Manual, Begin
<1>4. CASE Interval BY <1>4 DEF Interval, Begin
<1>5. CASE Restart BY <1>5 DEF Restart
<1>6. CASE Load BY <1>6 DEF Load
<1>7. CASE Query
  <2>1. lte' = now + overlap BY <1>7 DEF Query
  <2>2. gte' # None
    <3>1. CASE pit # None BY <1>7, <3>1 DEF Query
    <3>2. CASE pit = None
      <4>1. cursor.time \in Int BY <1>7 DEF Query, PositionInv, Loaded, Position
      <4>2. gte' = LowerBound(cursor.time) BY <1>7, <3>2 DEF Query
      <4> QED BY <4>1, <4>2 DEF LowerBound, Larger, Smaller
    <3> QED BY <3>1, <3>2
  <2> QED BY <1>7, <2>1, <2>2 DEF Query
<1>8. CASE Search
  <2>1. PICK hits \in Pages :
          /\ fetched' = fetched \cup hits /\ page' \subseteq hits
          /\ more' \in BOOLEAN /\ pit' = IF more' THEN pit ELSE None
    BY <1>8, SearchFacts
  <2>2. \A e \in page' : time[e] <= now + overlap
    <3>1. lte \in Int /\ \A h \in hits : time[h] \in Int /\ time[h] <= lte BY <1>8, InPages DEF Search
    <3>2. lte <= now + overlap BY DEF IInv, PageInv
    <3> QED BY <2>1, <3>1, <3>2
  <2>3. gte # None BY <1>8 DEF Search
  <2>4. pc' \in {"store", "finish"} \/ (pc' = "query" /\ page' = {}) BY <1>8 DEF Search
  <2> QED BY <1>8, <2>1, <2>2, <2>3, <2>4 DEF Search
<1>9. CASE Store BY <1>9 DEF Store, Advanced
<1>10. CASE Correlate BY <1>10 DEF Correlate, Advanced
<1>11. CASE Save BY <1>11 DEF Save
<1>12. CASE Finish BY <1>12 DEF Finish, Settles, Forget, NoPosition
<1>13. CASE Audit BY <1>13 DEF Audit, Settles, Forget, NoPosition
<1>14. CASE Dispose BY <1>14, ClosesFacts DEF Dispose
<1>15. CASE UpdateError BY <1>15 DEF UpdateError
<1>16. CASE Throw BY <1>16, ThrowFacts DEF Throw
<1>17. CASE Reject BY <1>17 DEF Reject, Ends, Settles, Forget, NoPosition
<1>18. CASE Crash BY <1>18 DEF Crash, Ends, Forget, NoPosition
<1>19. CASE UNCHANGED vars BY <1>19 DEF vars
<1> QED BY <1>1, <1>2, <1>3, <1>4, <1>5, <1>6, <1>7, <1>8, <1>9, <1>10, <1>11, <1>12, <1>13, <1>14, <1>15, <1>16, <1>17, <1>18, <1>19 DEF Next, Step

\* The clock only moves ahead.
LEMMA IndexNext == IInv /\ [Next]_vars => IndexInv'
<1> SUFFICES ASSUME IInv, [Next]_vars PROVE IndexInv'
  OBVIOUS
<1> USE Typed, NumbersAssumption DEF IInv, IndexInv, Indexed, TypeOK, indexVars, storeVars, pollVars
<1>1. CASE Tick BY <1>1 DEF Tick
<1>2. CASE Index BY <1>2 DEF Index
<1>3. CASE Manual BY <1>3 DEF Manual, Begin
<1>4. CASE Interval BY <1>4 DEF Interval, Begin
<1>5. CASE Restart BY <1>5 DEF Restart
<1>6. CASE Load BY <1>6 DEF Load
<1>7. CASE Query BY <1>7 DEF Query, LowerBound, Larger, Smaller
<1>8. CASE Search BY <1>8 DEF Search, Advanced
<1>9. CASE Store BY <1>9 DEF Store, Advanced
<1>10. CASE Correlate BY <1>10 DEF Correlate, Advanced
<1>11. CASE Save BY <1>11 DEF Save
<1>12. CASE Finish BY <1>12 DEF Finish, Settles, Forget, NoPosition
<1>13. CASE Audit BY <1>13 DEF Audit, Settles, Forget, NoPosition
<1>14. CASE Dispose BY <1>14, ClosesFacts DEF Dispose
<1>15. CASE UpdateError BY <1>15 DEF UpdateError
<1>16. CASE Throw BY <1>16, ThrowFacts DEF Throw
<1>17. CASE Reject BY <1>17 DEF Reject, Ends, Settles, Forget, NoPosition
<1>18. CASE Crash BY <1>18 DEF Crash, Ends, Forget, NoPosition
<1>19. CASE UNCHANGED vars BY <1>19 DEF vars
<1> QED BY <1>1, <1>2, <1>3, <1>4, <1>5, <1>6, <1>7, <1>8, <1>9, <1>10, <1>11, <1>12, <1>13, <1>14, <1>15, <1>16, <1>17, <1>18, <1>19 DEF Next, Step

\* Reach: the positions of a poll wait for what is prompt and still to be examined.
LEMMA ReachNext == IInv /\ TypeOK' /\ [Next]_vars => ReachInv'
<1> SUFFICES ASSUME IInv /\ TypeOK', [Next]_vars PROVE ReachInv'
  OBVIOUS
<1> USE Typed, NumbersAssumption DEF IInv, ReachInv, ReachOf, Waiting, InReach, Before, OutOfLookback, Walk, Loaded, TypeOK, Indexed, PageInv, Fresh, Polling, Caught, Uncaught, indexVars, storeVars, pollVars
<1>1. CASE Tick BY <1>1 DEF Tick
<1>2. CASE Index
  <2>1. PICK e \in Event \ Indexed, t \in (now - MaxLate)..(now + Skew) :
          /\ time' = [time EXCEPT ![e] = t]
          /\ prompt' = (IF overlap > 0 /\ now + Skew - t <= overlap THEN prompt \cup {e} ELSE prompt)
    BY <1>2 DEF Index
  <2>2. t \in Int /\ time'[e] = t BY <2>1
  <2>3. /\ checkpoint.time # None => checkpoint.time <= now + Skew
        /\ pc \in Loaded => reached.time \in Int /\ reached.time <= now + Skew
        /\ \A f \in Indexed : f # e /\ time'[f] = time[f] /\ time[f] \in Int /\ time[f] <= now + Skew
    BY <2>1 DEF PositionInv, Earned, IndexInv, Position
  <2>4. prompt' # {} => overlap' > 0 BY <1>2, <2>1 DEF Index
  <2>5. ASSUME NEW x \in Waiting' PROVE ReachOf(x)'
    <3>1. CASE x = e
      <4>1. x \in prompt' /\ x \notin prompt BY <3>1, <2>1
      <4>2. now + Skew - t <= overlap BY <4>1, <2>1, <3>1
      <4> QED BY <1>2, <3>1, <2>2, <2>3, <4>2 DEF Index, Position
    <3>2. CASE x # e
      <4>1. x \in Waiting /\ x \in Indexed /\ time'[x] = time[x] BY <1>2, <3>2, <2>1 DEF Index
      <4>2. OutOfLookback(x)' <=> OutOfLookback(x) BY <1>2, <4>1 DEF Index
      <4> QED BY <1>2, <4>1, <4>2, <2>3 DEF Index
    <3> QED BY <3>1, <3>2
  <2> QED BY <2>4, <2>5
<1>3. CASE Manual BY <1>3 DEF Manual, Begin
<1>4. CASE Interval BY <1>4 DEF Interval, Begin
<1>5. CASE Restart BY <1>5 DEF Restart
<1>6. CASE Load
  <2>1. fetched = {} /\ pit = None BY <1>6 DEF Load, PitInv, Walking, Walk
  <2>2. pc' = "query" BY <1>6 DEF Load
  <2>3. ASSUME NEW e \in Waiting PROVE InReach(e, reached)'
    <3>1. e \in Indexed /\ time[e] \in Int BY <2>3
    <3>2. checkpoint.time \in Int \cup {None} /\ InReach(e, checkpoint) BY <2>3 DEF Position
    <3>3. CASE reached'.time = now - Lookback BY <1>6, <3>1, <3>3 DEF Load
    <3>4. CASE reached'.time = checkpoint.time BY <1>6, <3>1, <3>2, <3>4 DEF Load
    <3> QED BY <1>6, <3>3, <3>4 DEF Load
  <2> QED BY <1>6, <2>1, <2>2, <2>3 DEF Load
<1>7. CASE Query
  <2>1. CASE pit # None BY <1>7, <2>1 DEF Query
  <2>2. CASE pit = None
    <3>1. cursor = reached /\ reached.time \in Int BY <1>7, <2>2 DEF Query, PositionInv, Position
    <3>2. pit' = Indexed /\ gte' = LowerBound(reached.time) BY <1>7, <2>2, <3>1 DEF Query
    <3>3. ASSUME NEW e \in Waiting PROVE gte' <= time[e] \/ OutOfLookback(e)
      <4>1. e \in Indexed /\ time[e] \in Int /\ InReach(e, reached) BY <1>7, <3>3 DEF Query
      <4> QED BY <3>1, <3>2, <4>1 DEF LowerBound, Larger, Smaller
    <3>4. prompt # {} => fetched' = fetched BY <1>7, <2>2 DEF Query
    <3>5. ASSUME NEW e \in Waiting PROVE ReachOf(e)'
      <4>1. fetched' = fetched /\ e \in pit' BY <3>2, <3>4, <3>5
      <4> QED BY <1>7, <3>2, <3>3, <3>5, <4>1 DEF Query
    <3> QED BY <1>7, <3>5 DEF Query
  <2> QED BY <2>1, <2>2
<1>8. CASE Search
  <2>1. PICK hits \in Pages :
          /\ fetched' = fetched \cup hits
          /\ \A e \in hits \ page' : Duplicate(e) \/ e \in rejected'
          /\ rejected \subseteq rejected'
          /\ more' \in BOOLEAN /\ pit' = IF more' THEN pit ELSE None
    BY <1>8, SearchFacts
  <2>2. /\ pit \in SUBSET Indexed /\ gte \in Int
        /\ \A h \in hits : h \in pit /\ h \notin fetched /\ h \in Indexed /\ time[h] \in Int
        /\ \A h \in hits, e \in pit \ (fetched \cup hits) : gte <= time[e] => time[h] <= time[e]
    BY <1>8, InPages DEF Search
  <2>3. ASSUME NEW e \in Waiting' PROVE ReachOf(e)'
    <3>1. e \in Waiting /\ e \notin rejected' /\ e \in Event /\ e \in Indexed /\ time[e] \in Int
      BY <1>8, <2>1, <2>3 DEF Search
    <3>2. page = {} /\ pit # None BY <1>8 DEF Search, PitInv
    <3>3. e \notin fetched' \ page'
      <4>1. e \notin fetched BY <1>8, <3>1, <3>2 DEF Search
      <4>2. ~Duplicate(e)
        BY <1>8, <3>1, <4>1 DEF Search, Duplicate, PositionInv
      <4> QED BY <2>1, <3>1, <4>1, <4>2
    <3>4. ASSUME e \notin fetched', NEW f \in fetched' PROVE Before(e, f)
      <4>1. CASE f \in fetched BY <1>8, <2>1, <3>1, <3>4, <4>1 DEF Search
      <4>2. CASE f \in hits /\ e \in pit
        BY <1>8, <2>1, <2>2, <3>1, <3>2, <3>4, <4>2 DEF Search
      <4>3. CASE f \in hits /\ e \notin pit
        BY <1>8, <2>2, <3>1, <3>2, <4>3 DEF Search
      <4> QED BY <2>1, <3>4, <4>1, <4>2, <4>3
    <3>5. pit' # None => pit' = pit BY <2>1
    <3> QED BY <1>8, <3>1, <3>2, <3>3, <3>4, <3>5 DEF Search
  <2> QED BY <1>8, <2>3 DEF Search
<1>9. CASE Store BY <1>9 DEF Store, Advanced
<1>10. CASE Correlate BY <1>10 DEF Correlate, Advanced
<1>11. CASE Save BY <1>11 DEF Save
<1>12. CASE Finish BY <1>12 DEF Finish, Settles, Forget, NoPosition
<1>13. CASE Audit BY <1>13 DEF Audit, Settles, Forget, NoPosition
<1>14. CASE Dispose BY <1>14, ClosesFacts DEF Dispose
<1>15. CASE UpdateError BY <1>15 DEF UpdateError
<1>16. CASE Throw BY <1>16, ThrowFacts DEF Throw
<1>17. CASE Reject BY <1>17 DEF Reject, Ends, Settles, Forget, NoPosition
<1>18. CASE Crash BY <1>18 DEF Crash, Ends, Forget, NoPosition
<1>19. CASE UNCHANGED vars BY <1>19 DEF vars
<1> QED BY <1>1, <1>2, <1>3, <1>4, <1>5, <1>6, <1>7, <1>8, <1>9, <1>10, <1>11, <1>12, <1>13, <1>14, <1>15, <1>16, <1>17, <1>18, <1>19 DEF Next, Step

\* The invariant holds in every state.
LEMMA IInvNext == IInv /\ [Next]_vars => IInv'
BY TypeNext, PitNext, PositionNext, PageNext, IndexNext, ReachNext DEF IInv

LEMMA IInvAlways == Spec => []IInv
BY IInvInit, IInvNext, PTL DEF Spec

----------------------------------------------------------------------------
(* The theorems.                                                            *)

\* Types: a poll holds documents of the index only, its positions have the form
\* of a checkpoint, and no step of SiemService leaves a value of another kind.
THEOREM TypeCorrect == Spec => []TypeOK
<1>1. IInv => TypeOK BY DEF IInv
<1> QED BY <1>1, IInvAlways, PTL

\* An event that reached the index within the overlap stays in the reach of the
\* next poll until it was stored and correlated, whatever pages, faults and
\* restarts moved the checkpoint of SiemService.pollSource.
THEOREM NoPromptEventIsMissed == Spec => []PromptEventStaysInReach
<1>1. IInv => PromptEventStaysInReach
  <2> SUFFICES ASSUME IInv, NEW e \in Waiting PROVE NextBound <= time[e] \/ OutOfLookback(e)
    BY DEF PromptEventStaysInReach, Waiting
  <2>1. e \in Indexed /\ time[e] \in Int /\ InReach(e, checkpoint)
    BY Typed DEF IInv, ReachInv, ReachOf
  <2>2. checkpoint.time \in Int \cup {None} BY DEF IInv, TypeOK, Position
  <2> QED BY <2>1, <2>2, Typed
        DEF NextBound, LowerBound, Larger, Smaller, InReach, OutOfLookback
<1> QED BY <1>1, IInvAlways, PTL

\* The checkpoint of siem_source_checkpoint stands for an event that was stored and
\* correlated, and toCursor never has to drop it for lying ahead.
THEOREM CheckpointIsAlwaysEarned == Spec => []CheckpointIsEarned
<1>1. IInv => CheckpointIsEarned BY DEF IInv, PositionInv, Earned, CheckpointIsEarned
<1> QED BY <1>1, IInvAlways, PTL

\* However a poll ended, it tried to close the point in time whose id it had: at
\* its last page, in the driver's catch, or in that of pollSource.  Elasticsearch
\* keeps no more of them than there were crashes and calls not answered.
THEOREM PointInTimeIsAlwaysGivenUp == Spec => []PointInTimeIsGivenUp
<1>1. IInv => PointInTimeIsGivenUp BY DEF IInv, PitInv, Walking, Walk, PointInTimeIsGivenUp
<1> QED BY <1>1, IInvAlways, PTL

\* Between polls the timer of SiemPollerService is set.
THEOREM SchedulerIsAlwaysArmed == Spec => []SchedulerStaysArmed
<1>1. Init => SchedulerStaysArmed BY DEF Init, SchedulerStaysArmed
<1>2. SchedulerStaysArmed /\ [Next]_vars => SchedulerStaysArmed'
  <2> SUFFICES ASSUME SchedulerStaysArmed, [Next]_vars, pc' = "idle" PROVE timer' = "armed"
    BY DEF SchedulerStaysArmed
  <2>1. CASE Tick \/ Index \/ UNCHANGED vars BY <2>1 DEF Tick, Index, vars, SchedulerStaysArmed
  <2>2. CASE Manual \/ Interval BY <2>2 DEF Manual, Interval, Begin, SchedulerStaysArmed
  <2>3. CASE Restart BY <2>3 DEF Restart
  <2>4. CASE Load \/ Query \/ Store \/ Correlate \/ Dispose \/ UpdateError \/ Throw
    BY <2>4 DEF Load, Query, Store, Correlate, Dispose, UpdateError, Throw
  <2>5. CASE Search \/ Save BY <2>5 DEF Search, Save
  <2>6. CASE Finish \/ Audit BY <2>6 DEF Finish, Audit, Settles
  <2>7. CASE Reject \/ Crash BY <2>7 DEF Reject, Crash, Ends, Settles
  <2> QED BY <2>1, <2>2, <2>3, <2>4, <2>5, <2>6, <2>7 DEF Next, Step
<1> QED BY <1>1, <1>2, PTL DEF Spec

\* Nothing moves the checkpoint of siem_source_checkpoint back in time: neither an
\* overlapped duplicate, nor a poll that failed, nor one that begins again.
THEOREM CheckpointOnlyMovesForward == Spec => CheckpointMovesForward
<1>1. IInv /\ [Next]_vars =>
        [checkpoint.time # None => checkpoint'.time # None /\ checkpoint'.time >= checkpoint.time]_vars
  <2> SUFFICES ASSUME IInv, [Next]_vars, checkpoint.time # None
               PROVE  checkpoint'.time # None /\ checkpoint'.time >= checkpoint.time
    OBVIOUS
  <2>1. checkpoint.time \in Int BY DEF IInv, TypeOK, Position
  <2>2. pc \in Loaded => reached.time \in Int /\ checkpoint.time <= reached.time
    BY DEF IInv, TypeOK, PositionInv, Position
  <2>3. CASE Save \/ Finish \/ UpdateError
    BY <2>1, <2>2, <2>3, NoneAssumption
    DEF Save, Finish, UpdateError, Loaded, Polling, Caught, Uncaught
  <2>4. CASE UNCHANGED checkpoint BY <2>1, <2>4
  <2>5. [Next]_vars => Save \/ Finish \/ UpdateError \/ UNCHANGED checkpoint
    BY DEF Next, Step, vars, Tick, Index, Manual, Interval, Begin, Restart, Load, Query,
      Search, Store, Correlate, Audit, Dispose, Throw, Reject, Crash
  <2> QED BY <2>3, <2>4, <2>5
<1> QED BY <1>1, IInvAlways, PTL DEF Spec, CheckpointMovesForward
=============================================================================
