------------------------- MODULE ConsolePagesProofs -------------------------
(* Proofs about ConsolePages: what its lists, the page of a request and the *)
(* audit of an object show, for any rows, pages, objects and number of      *)
(* calls in flight, whichever is answered first.  The three pages are       *)
(* proved apart; a step of one leaves what the others rely on.              *)
EXTENDS ConsolePages, FiniteSetTheorems, TLAPS

----------------------------------------------------------------------------
(* Pages of a set of numbers, newest first.                                 *)

Above(S, i) == {j \in S : j > i}

LEMMA AboveCounts ==
  ASSUME NEW S, S \subseteq Nat, IsFiniteSet(S), NEW i \in Nat
  PROVE  /\ IsFiniteSet(Above(S, i)) /\ Cardinality(Above(S, i)) \in Nat
         /\ i \in S => Cardinality(Above(S, i)) < Cardinality(S)
         /\ \A j \in S : i < j => Cardinality(Above(S, j)) < Cardinality(Above(S, i))
<1>1. Above(S, i) \in SUBSET S
  BY DEF Above
<1>2. IsFiniteSet(Above(S, i)) /\ Cardinality(Above(S, i)) \in Nat /\ Cardinality(S) \in Nat
  BY <1>1, FS_Subset, FS_CardinalityType
<1>3. ASSUME i \in S PROVE Cardinality(Above(S, i)) < Cardinality(S)
  <2>1. Above(S, i) # S
    BY <1>3 DEF Above
  <2> QED
    BY <1>1, <1>2, <2>1, FS_Subset
<1>4. ASSUME NEW j \in S, i < j PROVE Cardinality(Above(S, j)) < Cardinality(Above(S, i))
  <2>0. j \in Nat /\ \A k \in S : k \in Nat /\ (k > j => k > i)
    BY <1>4
  <2>1. Above(S, j) \in SUBSET Above(S, i)
    BY <2>0 DEF Above
  <2>2. Above(S, j) # Above(S, i)
    BY <1>4 DEF Above
  <2>3. IsFiniteSet(Above(S, j)) /\ Cardinality(Above(S, j)) \in Nat /\ Cardinality(Above(S, j)) <= Cardinality(Above(S, i))
    BY <1>2, <2>1, FS_Subset, FS_CardinalityType
  <2>4. Cardinality(Above(S, j)) # Cardinality(Above(S, i))
    BY <1>2, <2>1, <2>2, FS_Subset
  <2> QED
    BY <1>2, <2>3, <2>4
<1> QED
  BY <1>2, <1>3, <1>4

\* Every place but the last ones is taken.
LEMMA PlaceTaken ==
  ASSUME NEW S, S \subseteq Nat, IsFiniteSet(S), NEW n \in Nat, n < Cardinality(S)
  PROVE  \E i \in S : Cardinality(Above(S, i)) = n
<1> DEFINE c == Cardinality(S)
           f == [i \in S |-> Cardinality(Above(S, i))]
<1>1. c \in Nat /\ c > 0
  BY FS_CardinalityType
<1>2. IsFiniteSet(0 .. c - 1) /\ Cardinality(0 .. c - 1) = c
  <2>1. c - 1 \in Int /\ 0 \in Int /\ ~(0 > c - 1) /\ c - 1 - 0 + 1 = c
    BY <1>1
  <2> QED
    BY <2>1, FS_Interval
<1>3. f \in [S -> 0 .. c - 1]
  <2>1. \A i \in S : Cardinality(Above(S, i)) \in Nat /\ Cardinality(Above(S, i)) < c
    BY AboveCounts
  <2> QED
    BY <1>1, <2>1
<1>4. \A i, j \in S : f[i] = f[j] => i = j
  <2> SUFFICES ASSUME NEW i \in S, NEW j \in S, i < j PROVE f[i] # f[j]
    OBVIOUS
  <2>1. Cardinality(Above(S, j)) < Cardinality(Above(S, i))
    BY AboveCounts
  <2>2. Cardinality(Above(S, j)) \in Nat /\ Cardinality(Above(S, i)) \in Nat
    BY AboveCounts
  <2> QED
    BY <2>1, <2>2
<1>5. f \in Injection(S, 0 .. c - 1)
  BY <1>3, <1>4 DEF Injection, IsInjective
<1>6. f \in Surjection(S, 0 .. c - 1)
  BY <1>2, <1>5, FS_Injection
<1>7. n \in 0 .. c - 1
  BY <1>1
<1> QED
  BY <1>6, <1>7 DEF Surjection

LEMMA Quotient ==
  ASSUME NEW a \in Nat, NEW p \in Nat \ {0}
  PROVE  a \div p \in Nat /\ (a \div p) * p <= a /\ a < (a \div p) * p + p
  OBVIOUS

LEMMA QuotientIs ==
  ASSUME NEW a \in Nat, NEW p \in Nat \ {0}, NEW q \in Nat, q * p <= a, a < q * p + p
  PROVE  a \div p = q
<1> DEFINE r == a \div p
<1>1. r \in Nat /\ r * p <= a /\ a < r * p + p
  BY Quotient
<1> HIDE DEF r
<1>2. ~(r < q)
  <2> SUFFICES ASSUME r < q PROVE FALSE
    OBVIOUS
  <2>1. PICK d \in Nat : q = r + 1 + d
    BY <1>1
  <2>2. q * p = r * p + p + d * p /\ d * p >= 0
    BY <1>1, <2>1
  <2> QED
    BY <1>1, <2>2
<1>3. ~(q < r)
  <2> SUFFICES ASSUME q < r PROVE FALSE
    OBVIOUS
  <2>1. PICK d \in Nat : r = q + 1 + d
    BY <1>1
  <2>2. r * p = q * p + p + d * p /\ d * p >= 0
    BY <1>1, <2>1
  <2> QED
    BY <1>1, <2>2
<1> QED
  BY <1>1, <1>2, <1>3 DEF r

\* There is a page, and the last one begins within what was counted.
LEMMA LastPage ==
  ASSUME ConsoleAssumption, NEW total \in Nat
  PROVE  /\ PageCount(total) \in Nat \ {0}
         /\ total > 0 => (PageCount(total) - 1) * PageSize < total
<1> DEFINE q == (total + PageSize - 1) \div PageSize
<1>1. PageSize \in Nat \ {0} /\ total + PageSize - 1 \in Nat
  BY DEF ConsoleAssumption
<1>2. q \in Nat /\ q * PageSize <= total + PageSize - 1 /\ total + PageSize - 1 < q * PageSize + PageSize
  BY <1>1, Quotient
<1> HIDE DEF q
<1>3. CASE total = 0
  BY <1>3 DEF PageCount
<1>4. CASE total > 0
  <2>1. PageCount(total) = q
    BY <1>4 DEF PageCount, q
  <2>2. q # 0
    BY <1>1, <1>2, <1>4
  <2>3. (q - 1) * PageSize = q * PageSize - PageSize
    BY <1>1, <1>2
  <2> QED
    BY <1>1, <1>2, <2>1, <2>2, <2>3
<1> QED
  BY <1>3, <1>4

LEMMA Normalized ==
  ASSUME ConsoleAssumption, NEW total \in Nat, NEW asked \in Nat \ {0}
  PROVE  /\ NormalizedPage(asked, total) \in 1 .. PageCount(total)
         /\ total > 0 => (NormalizedPage(asked, total) - 1) * PageSize < total
<1> DEFINE p == NormalizedPage(asked, total)
<1>1. PageCount(total) \in Nat \ {0}
  BY LastPage
<1>2. p \in 1 .. PageCount(total)
  BY <1>1 DEF NormalizedPage
<1>3. ASSUME total > 0 PROVE (p - 1) * PageSize < total
  <2>1. (PageCount(total) - 1) * PageSize < total /\ PageSize \in Nat
    BY <1>3, LastPage DEF ConsoleAssumption
  <2> HIDE DEF p
  <2>3. p \in Nat /\ p >= 1 /\ p <= PageCount(total)
    BY <1>1, <1>2
  <2>5. PICK d \in Nat : PageCount(total) = p + d
    <3>1. PageCount(total) - p \in Nat /\ PageCount(total) = p + (PageCount(total) - p)
      BY <1>1, <2>3
    <3> QED
      BY <3>1
  <2>4. (PageCount(total) - 1) * PageSize = (p - 1) * PageSize + d * PageSize /\ d * PageSize \in Nat /\ (p - 1) * PageSize \in Nat
    BY <2>1, <2>5, <2>3
  <2> QED
    BY <2>1, <2>4
<1> QED
  BY <1>2, <1>3

\* A slice has at most as many members as a page, and none is missing in it.
LEMMA SliceFits ==
  ASSUME ConsoleAssumption, NEW S, S \subseteq Nat, IsFiniteSet(S), NEW page \in Nat \ {0}
  PROVE  /\ Slice(S, page) \subseteq S
         /\ Cardinality(Slice(S, page)) <= PageSize
         /\ \A i, j \in Slice(S, page) : \A k \in S : i < k /\ k < j => k \in Slice(S, page)
<1> DEFINE ids == Slice(S, page)
           low == (page - 1) * PageSize
           high == low + PageSize - 1
           f == [i \in ids |-> Cardinality(Above(S, i))]
<1>1. ids = {i \in S : Cardinality(Above(S, i)) \div PageSize = page - 1}
  BY DEF Slice, Above
<1>2. PageSize \in Nat \ {0} /\ low \in Nat /\ high \in Nat
  BY DEF ConsoleAssumption
<1>3. \A i \in ids : /\ i \in S /\ i \in Nat
                     /\ Cardinality(Above(S, i)) \in low .. high
  <2> SUFFICES ASSUME NEW i \in ids
               PROVE  i \in S /\ i \in Nat /\ Cardinality(Above(S, i)) \in low .. high
    OBVIOUS
  <2>1. i \in S /\ i \in Nat /\ Cardinality(Above(S, i)) \div PageSize = page - 1
    BY <1>1
  <2>2. Cardinality(Above(S, i)) \in Nat
    BY <2>1, AboveCounts
  <2>3. (page - 1) * PageSize <= Cardinality(Above(S, i)) /\ Cardinality(Above(S, i)) < (page - 1) * PageSize + PageSize
    BY <1>2, <2>1, <2>2, Quotient
  <2> QED
    BY <1>2, <2>1, <2>2, <2>3
<1>4. Cardinality(ids) <= PageSize
  <2>1. f \in [ids -> low .. high]
    BY <1>3
  <2>2. \A i, j \in ids : f[i] = f[j] => i = j
    <3> SUFFICES ASSUME NEW i \in ids, NEW j \in ids, i < j PROVE f[i] # f[j]
      BY <1>3
    <3>1. Cardinality(Above(S, j)) < Cardinality(Above(S, i)) /\ Cardinality(Above(S, j)) \in Nat /\ Cardinality(Above(S, i)) \in Nat
      BY <1>3, AboveCounts
    <3> QED
      BY <3>1
  <2>3. f \in Injection(ids, low .. high)
    BY <2>1, <2>2 DEF Injection, IsInjective
  <2>4. low \in Int /\ high \in Int /\ ~(low > high) /\ high - low + 1 = PageSize
    BY <1>2
  <2>5. IsFiniteSet(low .. high) /\ Cardinality(low .. high) = PageSize
    BY <2>4, FS_Interval
  <2> QED
    BY <2>3, <2>5, FS_Injection
<1>5. ASSUME NEW i \in ids, NEW j \in ids, NEW k \in S, i < k, k < j PROVE k \in ids
  <2>1. k \in Nat /\ i \in Nat /\ j \in S
    BY <1>3
  <2>2. Cardinality(Above(S, j)) < Cardinality(Above(S, k)) /\ Cardinality(Above(S, k)) \in Nat
    BY <1>5, <2>1, AboveCounts
  <2>3. Cardinality(Above(S, k)) < Cardinality(Above(S, i))
    BY <1>5, <2>1, AboveCounts
  <2>4. Cardinality(Above(S, k)) \in low .. high
    BY <1>2, <1>3, <2>2, <2>3
  <2> HIDE DEF ids
  <2>5. Cardinality(Above(S, k)) \div PageSize = page - 1
    BY <1>2, <2>2, <2>4, QuotientIs
  <2> QED
    BY <1>1, <2>5
<1> QED
  BY <1>1, <1>4, <1>5

\* A page of what was counted is not empty, nor is it when more was added since.
LEMMA SliceHolds ==
  ASSUME ConsoleAssumption, NEW S, S \subseteq Nat, IsFiniteSet(S),
         NEW total \in Nat, 0 < total, total <= Cardinality(S), NEW asked \in Nat \ {0}
  PROVE  Slice(S, NormalizedPage(asked, total)) # {}
<1> DEFINE page == NormalizedPage(asked, total)
           place == (page - 1) * PageSize
<1>1. page \in Nat /\ page >= 1 /\ place < total /\ PageSize \in Nat \ {0}
  <2>1. PageCount(total) \in Nat \ {0} /\ page \in 1 .. PageCount(total) /\ place < total
    BY Normalized, LastPage
  <2> HIDE DEF page
  <2> QED
    BY <2>1 DEF ConsoleAssumption
<1> HIDE DEF page
<1>2. place \in Nat /\ page - 1 \in Nat /\ place < place + PageSize
  BY <1>1
<1>3. Cardinality(S) \in Nat /\ place < Cardinality(S)
  BY <1>1, <1>2, FS_CardinalityType
<1>4. PICK i \in S : Cardinality(Above(S, i)) = place
  BY <1>2, <1>3, PlaceTaken
<1>5. place \div PageSize = page - 1
  BY <1>1, <1>2, QuotientIs
<1> QED
  BY <1>4, <1>5 DEF Slice, Above, page

----------------------------------------------------------------------------
(* What the API reads.                                                      *)

Filter == Tag \cup {Null}
RequestType ==
  [status : Statuses, decision : Decisions \cup {Null}, execution : {"executing", "executed", "failed", Null}, log : Nat]

StoreOk ==
  /\ plan \in Plans
  /\ store \in [rows : Seq(Tag), request : RequestType]
  /\ store.request.status = "submitted" <=> store.request.decision = Null

----------------------------------------------------------------------------
(* Lists.                                                                   *)

CallType ==
  [step : {"sent", "counted", "read", "failed", "done"}, page : Nat \ {0}, filter : Filter, total : Nat, ids : SUBSET Nat]
EntriesType == [page : Nat \ {0}, total : Nat, ids : SUBSET Nat, filter : Filter, by : Nat]
ListType ==
  [filter : Filter, entries : EntriesType \cup {Null}, loading : BOOLEAN, error : BOOLEAN, page : Nat \ {0},
   polling : Nat \cup {Null}, calls : Seq(CallType), late : BOOLEAN]

\* What was read is a page of the rows.
IsPage(e, rows) ==
  /\ e.ids = {} => e.total = 0
  /\ plan.kind # "requests" => Cardinality(e.ids) <= PageSize /\ e.page \in 1 .. PageCount(e.total)
  /\ e.ids \subseteq Matching(rows, e.filter)
  /\ \A i, j \in e.ids : \A k \in Matching(rows, e.filter) : i < k /\ k < j => k \in e.ids

CallOk(k, rows) ==
  /\ k.step = "counted" => k.total <= Cardinality(Matching(rows, k.filter))
  /\ k.step = "read" => IsPage(k, rows)
  /\ plan.kind = "requests" => k.filter = Null

\* The last call was answered, and none that came after it.
LastIsShown(l) ==
  l.calls # <<>> /\ l.calls[Len(l.calls)].step = "done" /\ ~l.late => l.error \/ l.entries.by = Len(l.calls)

ListOk(l, rows) ==
  /\ l \in ListType
  /\ \A n \in DOMAIN l.calls : CallOk(l.calls[n], rows)
  /\ l.entries # Null => IsPage(l.entries, rows) /\ l.page = l.entries.page /\ l.entries.by \in DOMAIN l.calls
  /\ plan.kind = "requests" => l.filter = Null
  /\ LastIsShown(l)

ListInv == ListOk(list, store.rows)

LEMMA MatchingRows ==
  ASSUME NEW rows \in Seq(Tag), NEW filter
  PROVE  Matching(rows, filter) \subseteq Nat /\ IsFiniteSet(Matching(rows, filter)) /\ Cardinality(Matching(rows, filter)) \in Nat
<1>1. Len(rows) \in Nat
  OBVIOUS
<1>2. IsFiniteSet(1 .. Len(rows))
  BY <1>1, FS_Interval
<1>3. Matching(rows, filter) \in SUBSET (1 .. Len(rows))
  BY DEF Matching
<1>4. IsFiniteSet(Matching(rows, filter)) /\ Cardinality(Matching(rows, filter)) \in Nat
  BY <1>2, <1>3, FS_Subset, FS_CardinalityType
<1> QED
  BY <1>1, <1>3, <1>4

\* Rows that are added come after those that were read.
LEMMA AddedRow ==
  ASSUME NEW rows \in Seq(Tag), NEW tag \in Tag, NEW filter
  PROVE  LET later == Append(rows, tag) IN
         /\ Matching(rows, filter) \subseteq Matching(later, filter)
         /\ Cardinality(Matching(rows, filter)) <= Cardinality(Matching(later, filter))
         /\ \A k \in Matching(later, filter) : k \notin Matching(rows, filter) => k = Len(rows) + 1
<1> DEFINE later == Append(rows, tag)
<1>1. later \in Seq(Tag) /\ Len(later) = Len(rows) + 1 /\ \A k \in 1 .. Len(rows) : later[k] = rows[k]
  OBVIOUS
<1> HIDE DEF later
<1>2. Matching(rows, filter) \in SUBSET Matching(later, filter)
  BY <1>1 DEF Matching
<1>3. IsFiniteSet(Matching(later, filter))
  BY <1>1, MatchingRows
<1>4. Cardinality(Matching(rows, filter)) <= Cardinality(Matching(later, filter))
  BY <1>2, <1>3, FS_Subset
<1>5. \A k \in Matching(later, filter) : k \notin Matching(rows, filter) => k = Len(rows) + 1
  BY <1>1 DEF Matching
<1> QED
  BY <1>2, <1>4, <1>5 DEF later

LEMMA PageStays ==
  ASSUME NEW rows \in Seq(Tag), NEW tag \in Tag, NEW e, IsPage(e, rows)
  PROVE  IsPage(e, Append(rows, tag))
<1> DEFINE later == Append(rows, tag)
<1>1. Matching(rows, e.filter) \subseteq Matching(later, e.filter)
  BY AddedRow
<1>2. ASSUME NEW i \in e.ids, NEW j \in e.ids, NEW k \in Matching(later, e.filter), i < k, k < j
      PROVE  k \in e.ids
  <2>1. j \in 1 .. Len(rows)
    BY DEF IsPage, Matching
  <2>2. k \in Nat /\ k <= Len(rows)
    BY <1>2, <2>1 DEF Matching
  <2>3. k \in Matching(rows, e.filter)
    BY <2>2, AddedRow
  <2> QED
    BY <1>2, <2>3 DEF IsPage
<1> QED
  BY <1>1, <1>2 DEF IsPage

\* The rows of a page that was counted before.
LEMMA ReadIsPage ==
  ASSUME ConsoleAssumption, NEW rows \in Seq(Tag), NEW filter, NEW total \in Nat, NEW asked \in Nat \ {0}, NEW e,
         total <= Cardinality(Matching(rows, filter)), e.filter = filter, e.total = total,
         e.page = NormalizedPage(asked, total), e.ids = Slice(Matching(rows, filter), e.page)
  PROVE  IsPage(e, rows) /\ e.page \in Nat \ {0} /\ e.ids \subseteq Nat
<1> DEFINE S == Matching(rows, filter)
<1>1. S \subseteq Nat /\ IsFiniteSet(S) /\ Cardinality(S) \in Nat
  BY MatchingRows
<1> HIDE DEF S
<1>2. e.page \in 1 .. PageCount(total) /\ PageCount(total) \in Nat
  BY Normalized, LastPage
<1>3. e.page \in Nat \ {0}
  BY <1>2
<1>4. /\ e.ids \subseteq S
      /\ Cardinality(e.ids) <= PageSize
      /\ \A i, j \in e.ids : \A k \in S : i < k /\ k < j => k \in e.ids
  BY <1>1, <1>3, SliceFits DEF S
<1>5. ASSUME total > 0 PROVE e.ids # {}
  BY <1>1, <1>5, SliceHolds DEF S
<1> QED
  BY <1>1, <1>2, <1>3, <1>4, <1>5 DEF IsPage, S

LEMMA ListInit ==
  ASSUME ConsoleAssumption, ConsoleInit
  PROVE  ListInv
<1>1. PICK c \in {<<>>, <<Asked(1, Null)>>} : list.calls = c
  BY DEF ConsoleInit
<1>2. Asked(1, Null) \in CallType /\ CallOk(Asked(1, Null), store.rows) /\ Asked(1, Null).step # "done"
  BY DEF Asked, CallType, Filter, CallOk
<1>3. list.calls \in Seq(CallType)
  <2>1. CASE c = <<>>
    BY <1>1, <2>1
  <2>2. CASE c = <<Asked(1, Null)>>
    BY <1>1, <1>2, <2>2
  <2> QED
    BY <2>1, <2>2
<1>4. list \in ListType /\ list.entries = Null /\ list.filter = Null
  BY <1>3 DEF ConsoleInit, ListType, Filter
<1>5. \A n \in DOMAIN list.calls : CallOk(list.calls[n], store.rows) /\ list.calls[n].step # "done"
  BY <1>1, <1>2
<1>6. LastIsShown(list)
  BY <1>3, <1>5 DEF LastIsShown
<1> QED
  BY <1>4, <1>5, <1>6 DEF ListInv, ListOk

\* A call goes on.
LEMMA PutCallOk ==
  ASSUME ListInv, NEW n \in DOMAIN list.calls, list.calls[n].step # "done",
         NEW k \in CallType, k.step # "done", CallOk(k, store.rows), PutCall(n, k), UNCHANGED <<plan, store>>
  PROVE  ListInv'
<1>1. list \in ListType /\ list.calls \in Seq(CallType)
  BY DEF ListInv, ListOk, ListType
<1>2. /\ list' = [list EXCEPT !.calls = [list.calls EXCEPT ![n] = k]]
      /\ list'.calls = [list.calls EXCEPT ![n] = k]
  BY <1>1 DEF PutCall, ListType
<1>3. list'.calls \in Seq(CallType) /\ Len(list'.calls) = Len(list.calls) /\ DOMAIN list'.calls = DOMAIN list.calls
  BY <1>1, <1>2
<1>4. list' \in ListType
  BY <1>1, <1>2, <1>3 DEF ListType
<1>5. \A m \in DOMAIN list'.calls : CallOk(list'.calls[m], store.rows)
  BY <1>1, <1>2 DEF ListInv, ListOk
<1>6. LastIsShown(list')
  BY <1>1, <1>2, <1>3 DEF ListInv, ListOk, LastIsShown, ListType
<1>7. UNCHANGED <<list.entries, list.page, list.filter>>
  BY <1>1, <1>2 DEF ListType
<1> QED
  BY <1>3, <1>4, <1>5, <1>6, <1>7 DEF ListInv, ListOk, IsPage, CallOk

LEMMA CallReads ==
  ASSUME ConsoleAssumption, StoreOk, ListInv, NEW n \in DOMAIN list.calls,
         CountRows(n) \/ ReadRows(n) \/ ReadLog(n) \/ ReadRequests(n) \/ FailList(n)
  PROVE  ListInv'
<1> DEFINE k == list.calls[n]
           S == Matching(store.rows, k.filter)
<1>1. k \in CallType /\ CallOk(k, store.rows) /\ store.rows \in Seq(Tag) /\ (plan.kind = "requests" => k.filter = Null)
  BY DEF ListInv, ListOk, ListType, StoreOk, CallOk
<1> HIDE DEF k
<1>2. S \subseteq Nat /\ IsFiniteSet(S) /\ Cardinality(S) \in Nat
  BY <1>1, MatchingRows
<1>3. CASE CountRows(n)
  <2> DEFINE c == [k EXCEPT !.step = "counted", !.total = Cardinality(S)]
  <2>1. c \in CallType /\ c.step = "counted" /\ c.filter = k.filter /\ c.total = Cardinality(S)
    BY <1>1, <1>2 DEF CallType
  <2>2. CallOk(c, store.rows)
    BY <1>1, <1>2, <2>1 DEF CallOk
  <2> QED
    BY <1>3, <2>1, <2>2, PutCallOk DEF CountRows, k
<1>4. CASE ReadRows(n)
  <2> DEFINE page == NormalizedPage(k.page, k.total)
             c == [k EXCEPT !.step = "read", !.page = page, !.ids = Slice(S, page)]
  <2>1. k.step = "counted" /\ k.total <= Cardinality(S) /\ k.total \in Nat /\ k.page \in Nat \ {0}
    BY <1>1, <1>4 DEF ReadRows, CallOk, k, CallType
  <2>2. c.step = "read" /\ c.filter = k.filter /\ c.total = k.total /\ c.page = page /\ c.ids = Slice(S, page)
    BY <1>1 DEF CallType
  <2>3. IsPage(c, store.rows) /\ c.page \in Nat \ {0} /\ c.ids \subseteq Nat
    BY <1>1, <2>1, <2>2, ReadIsPage
  <2>4. c \in CallType
    BY <1>1, <2>2, <2>3 DEF CallType
  <2>5. CallOk(c, store.rows)
    BY <1>1, <2>2, <2>3 DEF CallOk
  <2> QED
    BY <1>4, <2>2, <2>4, <2>5, PutCallOk DEF ReadRows, k
<1>5. CASE ReadLog(n)
  <2> DEFINE total == Cardinality(S)
             page == NormalizedPage(k.page, total)
             c == [k EXCEPT !.step = "read", !.total = total, !.page = page, !.ids = Slice(S, page)]
  <2>1. k.step = "sent" /\ k.page \in Nat \ {0} /\ total \in Nat /\ total <= Cardinality(S)
    BY <1>1, <1>2, <1>5 DEF ReadLog, k, CallType
  <2>2. PutCall(n, c) /\ UNCHANGED <<plan, store>>
    BY <1>5 DEF ReadLog, k
  <2> HIDE DEF total
  <2>3. c.step = "read" /\ c.filter = k.filter /\ c.total = total /\ c.page = page /\ c.ids = Slice(S, page)
    BY <1>1 DEF CallType
  <2>4. IsPage(c, store.rows) /\ c.page \in Nat \ {0} /\ c.ids \subseteq Nat
    BY <1>1, <1>2, <2>1, <2>3, ReadIsPage
  <2>5. c \in CallType
    BY <1>1, <2>1, <2>3, <2>4 DEF CallType
  <2>6. CallOk(c, store.rows)
    BY <1>1, <2>3, <2>4 DEF CallOk
  <2> QED
    BY <2>1, <2>2, <2>3, <2>5, <2>6, PutCallOk DEF k
<1>6. CASE ReadRequests(n)
  <2> DEFINE all == 1 .. Len(store.rows)
             total == Len(store.rows)
             c == [k EXCEPT !.step = "read", !.total = total, !.ids = all]
  <2>1. k.step = "sent" /\ plan.kind = "requests" /\ k.filter = Null /\ total \in Nat
    BY <1>1, <1>6 DEF ReadRequests, k
  <2>2. all \in SUBSET Nat /\ (all = {} => total = 0)
    <3>1. \A m \in Nat : 1 .. m \subseteq Nat /\ (m # 0 => 1 \in 1 .. m)
      OBVIOUS
    <3> QED
      BY <2>1, <3>1
  <2>3. Matching(store.rows, Null) = all
    BY DEF Matching
  <2>4. PutCall(n, c) /\ UNCHANGED <<plan, store>>
    BY <1>6 DEF ReadRequests, k
  <2> HIDE DEF all, total
  <2>5. c.step = "read" /\ c.filter = Null /\ c.total = total /\ c.ids = all /\ c \in CallType
    BY <1>1, <2>1, <2>2 DEF CallType
  <2> HIDE DEF c
  <2>6. IsPage(c, store.rows)
    BY <2>1, <2>2, <2>3, <2>5 DEF IsPage
  <2>7. CallOk(c, store.rows)
    BY <2>5, <2>6 DEF CallOk
  <2> QED
    BY <2>1, <2>4, <2>5, <2>7, PutCallOk DEF k
<1>7. CASE FailList(n)
  <2> DEFINE c == [k EXCEPT !.step = "failed"]
  <2>1. c \in CallType /\ c.step = "failed" /\ c.filter = k.filter
    BY <1>1 DEF CallType
  <2>2. CallOk(c, store.rows)
    BY <1>1, <2>1 DEF CallOk
  <2> QED
    BY <1>7, <2>1, <2>2, PutCallOk DEF FailList, k
<1> QED
  BY <1>3, <1>4, <1>5, <1>6, <1>7

\* Another load begins.
LEMMA LoadingOk ==
  ASSUME StoreOk, NEW l, ListOk(l, store.rows), NEW page \in Nat \ {0}, list' = Loading(l, page), UNCHANGED <<plan, store>>
  PROVE  ListInv'
<1> DEFINE k == Asked(page, l.filter)
<1>1. l \in ListType /\ l.calls \in Seq(CallType) /\ l.filter \in Filter
  BY DEF ListOk, ListType
<1>2. k \in CallType /\ k.step = "sent" /\ k.filter = l.filter
  BY <1>1 DEF Asked, CallType
<1>3. CallOk(k, store.rows)
  BY <1>2 DEF CallOk, ListOk
<1> HIDE DEF k
<1>4. /\ list' = [l EXCEPT !.loading = TRUE, !.error = FALSE, !.calls = Append(l.calls, k)]
      /\ list'.calls = Append(l.calls, k) /\ list'.entries = l.entries /\ list'.page = l.page /\ list'.filter = l.filter
  BY <1>1 DEF Loading, k, ListType
<1>5. list'.calls \in Seq(CallType) /\ Len(list'.calls) = Len(l.calls) + 1 /\ list'.calls[Len(list'.calls)] = k
      /\ DOMAIN l.calls \subseteq DOMAIN list'.calls
      /\ \A n \in DOMAIN list'.calls : list'.calls[n] = k \/ (n \in DOMAIN l.calls /\ list'.calls[n] = l.calls[n])
  BY <1>1, <1>2, <1>4
<1>6. list' \in ListType
  BY <1>1, <1>4, <1>5 DEF ListType
<1>7. \A n \in DOMAIN list'.calls : CallOk(list'.calls[n], store.rows)
  BY <1>3, <1>5 DEF ListOk
<1>8. LastIsShown(list')
  BY <1>2, <1>5 DEF LastIsShown
<1> QED
  BY <1>4, <1>5, <1>6, <1>7, <1>8 DEF ListInv, ListOk, IsPage, CallOk

\* The list changes in nothing that what it shows depends on.
LEMMA ListSame ==
  ASSUME NEW l, ListOk(l, store.rows), NEW m \in ListType, m.calls = l.calls, m.entries = l.entries, m.page = l.page,
         m.error = l.error, m.late = l.late, plan.kind = "requests" => m.filter = Null
  PROVE  ListOk(m, store.rows)
  BY DEF ListOk, LastIsShown

LEMMA ListLoads ==
  ASSUME ConsoleAssumption, StoreOk, ListInv,
         TurnPage \/ EditFilter \/ ApplyFilters \/ ClearFilters \/ Refresh \/ PollNow \/ PollAnswered
  PROVE  ListInv'
<1>1. list \in ListType /\ ListOk(list, store.rows) /\ 1 \in Nat \ {0} /\ list.page \in Nat \ {0}
  BY DEF ListInv, ListOk, ListType
<1>2. CASE TurnPage
  <2>1. PICK page \in 1 .. PageCount(list.entries.total) : LoadWith(list, page)
    BY <1>2 DEF TurnPage
  <2>2. list.entries.total \in Nat
    BY <1>1, <1>2 DEF TurnPage, ListType, EntriesType
  <2>3. page \in Nat \ {0}
    BY <2>1, <2>2, LastPage
  <2> QED
    BY <1>1, <2>1, <2>3, LoadingOk DEF LoadWith
<1>3. CASE EditFilter
  <2>1. PICK filter \in Filter : list' = [list EXCEPT !.filter = filter]
    BY <1>3 DEF EditFilter, Filter
  <2>2. plan.kind # "requests" /\ UNCHANGED <<plan, store>>
    BY <1>3 DEF EditFilter
  <2>3. list' \in ListType /\ UNCHANGED <<list.calls, list.entries, list.page, list.error, list.late>>
    BY <1>1, <2>1 DEF ListType
  <2>4. ListOk(list', store.rows)
    BY <1>1, <2>2, <2>3, ListSame
  <2> QED
    BY <2>2, <2>4 DEF ListInv, ListOk, IsPage, CallOk
<1>4. CASE ApplyFilters
  BY <1>1, <1>4, LoadingOk DEF ApplyFilters, LoadWith
<1>5. CASE ClearFilters
  <2> DEFINE l == [list EXCEPT !.filter = Null]
  <2>1. l \in ListType /\ l.calls = list.calls /\ l.entries = list.entries /\ l.page = list.page /\ l.error = list.error
        /\ l.late = list.late /\ l.filter = Null
    BY <1>1 DEF ListType, Filter
  <2> HIDE DEF l
  <2>2. ListOk(l, store.rows)
    BY <1>1, <2>1, ListSame
  <2> QED
    BY <1>1, <1>5, <2>2, LoadingOk DEF ClearFilters, LoadWith, l
<1>6. CASE Refresh
  <2>1. PICK page \in Nat \ {0} : LoadWith(list, page)
    BY <1>1, <1>6 DEF Refresh
  <2> QED
    BY <1>1, <2>1, LoadingOk DEF LoadWith
<1>7. ASSUME NEW to \in Nat \cup {Null}, list' = [list EXCEPT !.polling = to], UNCHANGED <<plan, store>> PROVE ListInv'
  <2>1. list' \in ListType /\ UNCHANGED <<list.calls, list.entries, list.page, list.error, list.late, list.filter>>
    BY <1>1, <1>7 DEF ListType
  <2>2. ListOk(list', store.rows)
    BY <1>1, <2>1, ListSame DEF ListOk
  <2> QED
    BY <1>7, <2>2 DEF ListInv, ListOk, IsPage, CallOk
<1>8. CASE PollNow
  BY <1>7, <1>8 DEF PollNow
<1>9. CASE PollAnswered
  <2>1. CASE list' = [list EXCEPT !.polling = Null]
    BY <1>7, <1>9, <2>1 DEF PollAnswered
  <2>2. CASE list' = [Loading(list, list.page) EXCEPT !.polling = Len(list.calls) + 1]
    <3> DEFINE l == [list EXCEPT !.polling = Len(list.calls) + 1]
    <3>1. l \in ListType /\ l.calls = list.calls /\ l.entries = list.entries /\ l.page = list.page /\ l.error = list.error
          /\ l.late = list.late /\ l.filter = list.filter
      BY <1>1 DEF ListType
    <3>2. list' = Loading(l, list.page)
      BY <1>1, <2>2, <3>1 DEF Loading, ListType
    <3> HIDE DEF l
    <3>3. ListOk(l, store.rows)
      BY <1>1, <3>1, ListSame DEF ListOk
    <3> QED
      BY <1>1, <1>9, <3>2, <3>3, LoadingOk DEF PollAnswered
  <2> QED
    BY <1>9, <2>1, <2>2 DEF PollAnswered
<1> QED
  BY <1>2, <1>3, <1>4, <1>5, <1>6, <1>8, <1>9

LEMMA ListTakes ==
  ASSUME ConsoleAssumption, StoreOk, ListInv, NEW n \in DOMAIN list.calls, ListAnswered(n)
  PROVE  ListInv'
<1> DEFINE k == list.calls[n]
           c == [k EXCEPT !.step = "done"]
           calls == [list.calls EXCEPT ![n] = c]
           last == Len(list.calls)
           late == list.late \/ \E m \in n + 1 .. last : list.calls[m].step = "done"
<1>1. list \in ListType /\ list.calls \in Seq(CallType) /\ k \in CallType /\ CallOk(k, store.rows)
      /\ n \in 1 .. last /\ last \in Nat
  BY DEF ListInv, ListOk, ListType
<1>2. c \in CallType /\ c.filter = k.filter /\ c.step = "done"
  BY <1>1 DEF CallType
<1>3. calls \in Seq(CallType) /\ Len(calls) = last /\ DOMAIN calls = DOMAIN list.calls
      /\ \A m \in DOMAIN calls : calls[m] = IF m = n THEN c ELSE list.calls[m]
  BY <1>1, <1>2
<1>4. \A m \in DOMAIN calls : CallOk(calls[m], store.rows)
  BY <1>1, <1>2, <1>3 DEF CallOk, ListInv, ListOk
<1>5. UNCHANGED <<plan, store>>
  BY DEF ListAnswered
<1> DEFINE l == [list EXCEPT !.calls[n].step = "done", !.loading = FALSE,
                             !.polling = IF @ = n THEN Null ELSE @,
                             !.late = @ \/ \E m \in n + 1 .. Len(list.calls) : list.calls[m].step = "done"]
<1>6. l.calls = calls /\ l.late = late /\ l.entries = list.entries /\ l.page = list.page /\ l.filter = list.filter
      /\ l.error = list.error /\ l \in ListType
  <2>1. l = [list EXCEPT !.calls = calls, !.loading = FALSE, !.polling = IF list.polling = n THEN Null ELSE list.polling, !.late = late]
    BY <1>1 DEF ListType
  <2>2. late \in BOOLEAN
    BY <1>1 DEF ListType
  <2> QED
    BY <1>1, <1>3, <2>1, <2>2 DEF ListType
<1>7. CASE k.step = "read"
  <2> DEFINE e == [page |-> k.page, total |-> k.total, ids |-> k.ids, filter |-> k.filter, by |-> n]
  <2>1. list' = [l EXCEPT !.entries = e, !.page = k.page]
    BY <1>7 DEF ListAnswered
  <2>2. e \in EntriesType /\ e.by = n /\ e.page = k.page /\ IsPage(e, store.rows)
    BY <1>1, <1>7 DEF CallType, EntriesType, CallOk, IsPage
  <2> HIDE DEF e, l
  <2>3. list' \in ListType /\ list'.calls = calls /\ list'.late = late /\ list'.entries = e /\ list'.page = k.page
        /\ list'.filter = list.filter
    BY <1>1, <1>6, <2>1, <2>2 DEF ListType, CallType
  <2> HIDE DEF k, c, calls
  <2>4. LastIsShown(list')
    <3> SUFFICES ASSUME calls[last].step = "done", ~late PROVE n = last
      BY <1>3, <2>2, <2>3 DEF LastIsShown
    <3>1. last \in DOMAIN list.calls /\ last \notin n + 1 .. last => n = last
      BY <1>1
    <3>2. last \notin n + 1 .. last
      <4> SUFFICES ASSUME last \in n + 1 .. last PROVE FALSE
        OBVIOUS
      <4>1. list.calls[last].step # "done" /\ last # n
        BY <3>1
      <4>2. calls[last] = list.calls[last]
        BY <3>1, <4>1 DEF calls
      <4> QED
        BY <4>1, <4>2
    <3> QED
      BY <3>1, <3>2
  <2>5. ListOk(list', store.rows)
    BY <1>1, <1>3, <1>4, <2>2, <2>3, <2>4 DEF ListInv, ListOk
  <2> QED
    BY <1>5, <2>5 DEF ListInv, ListOk, IsPage, CallOk
<1>8. CASE k.step # "read"
  <2>1. PICK kept \in {list.entries, Null} : list' = [l EXCEPT !.error = TRUE, !.entries = kept]
    BY <1>6, <1>8 DEF ListAnswered
  <2> HIDE DEF l
  <2>2. list' \in ListType /\ list'.calls = calls /\ list'.entries = kept /\ list'.page = list.page
        /\ list'.filter = list.filter /\ list'.error
    BY <1>1, <1>6, <2>1 DEF ListType
  <2> HIDE DEF k, c, calls
  <2>3. LastIsShown(list')
    BY <2>2 DEF LastIsShown
  <2>4. ListOk(list', store.rows)
    BY <1>1, <1>3, <1>4, <2>2, <2>3 DEF ListInv, ListOk
  <2> QED
    BY <1>5, <2>4 DEF ListInv, ListOk, IsPage, CallOk
<1> QED
  BY <1>7, <1>8

LEMMA ListGrows ==
  ASSUME ConsoleAssumption, StoreOk, ListInv, WriteRow
  PROVE  ListInv' /\ StoreOk'
<1>1. PICK tag \in Tag : store' = [store EXCEPT !.rows = Append(@, tag)]
  BY DEF WriteRow
<1>2. UNCHANGED <<plan, list>>
  BY DEF WriteRow
<1>3. store.rows \in Seq(Tag) /\ store'.rows = Append(store.rows, tag) /\ store'.request = store.request
      /\ store' \in [rows : Seq(Tag), request : RequestType]
  <2>1. store.rows \in Seq(Tag) /\ Append(store.rows, tag) \in Seq(Tag) /\ store \in [rows : Seq(Tag), request : RequestType]
    BY DEF StoreOk
  <2> QED
    BY <1>1, <2>1
<1>4. ASSUME NEW k \in CallType, CallOk(k, store.rows) PROVE CallOk(k, store'.rows)
  <2>1. Cardinality(Matching(store.rows, k.filter)) <= Cardinality(Matching(store'.rows, k.filter))
    BY <1>3, AddedRow
  <2>2. store'.rows \in Seq(Tag) /\ Cardinality(Matching(store.rows, k.filter)) \in Nat
        /\ Cardinality(Matching(store'.rows, k.filter)) \in Nat /\ k.total \in Nat
    BY <1>3, MatchingRows DEF CallType
  <2>3. IsPage(k, store.rows) => IsPage(k, store'.rows)
    BY <1>3, PageStays
  <2> QED
    BY <1>4, <2>1, <2>2, <2>3 DEF CallOk
<1>5. ListOk(list, store'.rows)
  <2>1. \A n \in DOMAIN list.calls : list.calls[n] \in CallType
    BY DEF ListInv, ListOk, ListType
  <2>2. IsPage(list.entries, store.rows) => IsPage(list.entries, store'.rows)
    BY <1>3, PageStays
  <2> QED
    BY <1>4, <2>1, <2>2 DEF ListInv, ListOk
<1>6. StoreOk'
  BY <1>2, <1>3 DEF StoreOk
<1> QED
  BY <1>2, <1>5, <1>6 DEF ListInv, ListOk, IsPage, CallOk

LEMMA ListInvAgrees ==
  ASSUME ListInv
  PROVE  ListAgrees
<1> SUFFICES ASSUME list.entries # Null
             PROVE  ListAgrees
  BY DEF ListAgrees
<1>1. /\ IsPage(list.entries, store.rows) /\ list.page = list.entries.page
      /\ list.entries.by \in DOMAIN list.calls /\ list.calls \in Seq(CallType) /\ LastIsShown(list)
  BY DEF ListInv, ListOk, ListType
<1>2. (\A n \in DOMAIN list.calls : list.calls[n].step = "done") /\ ~list.error /\ ~list.late
        => list.entries.by = Len(list.calls)
  BY <1>1 DEF LastIsShown
<1> QED
  BY <1>1, <1>2 DEF ListAgrees, IsPage

----------------------------------------------------------------------------
(* The page of a request.                                                   *)

Execution == {"executing", "executed", "failed", Null}
ReadType == [status : Statuses \cup {Null}, decision : Decisions \cup {Null}, execution : Execution, log : Nat]
LoadType == [at : {"detail", "timeline", "done"}, part : 0 .. 4, read : ReadType]
TimelineType ==
  [items : SUBSET {"request_submitted", "approval_decided", "execution_started", "execution_finished"}, log : Nat]
Acting == Decisions \cup {"executing"}
DetailType ==
  [view : ReadType \cup {Null}, timeline : TimelineType \cup {Null}, loading : BOOLEAN, error : BOOLEAN,
   acting : Acting \cup {Null}, post : Posts \cup {Null}, loads : Seq(LoadType), decided : BOOLEAN]

\* The first of two states of a request is not the later one.
Behind(v, r) ==
  /\ v.decision # Null => r.decision # Null
  /\ v.execution # Null => r.execution # Null
  /\ v.log <= r.log

\* What a load has read so far is not of a later request than the one there is, and
\* shows the user's decision.
ReadSoFar(k, r, decided) ==
  /\ k.part >= 1 /\ decided => k.read.status # "submitted"
  /\ k.part >= 2 => (k.read.decision # Null => r.decision # Null) /\ (decided => k.read.decision # Null)
  /\ k.part >= 3 => (k.read.execution # Null => r.execution # Null)
  /\ k.part = 4 => k.read.log <= r.log

\* And what a load for the timeline has read is not of an earlier request than the
\* one that is shown.
ReadAfter(k, v) ==
  /\ k.part >= 2 => (v.decision # Null => k.read.decision # Null)
  /\ k.part >= 3 => (v.execution # Null => k.read.execution # Null)
  /\ k.part = 4 => v.log <= k.read.log

Shows(timeline, v) ==
  /\ "request_submitted" \in timeline.items
  /\ v.decision # Null => "approval_decided" \in timeline.items
  /\ v.execution # Null => "execution_started" \in timeline.items
  /\ v.log <= timeline.log

LoadOk(k, d, r) ==
  k.at # "done" =>
    /\ d.post = Null /\ d.loading
    /\ ReadSoFar(k, r, d.decided)
    /\ k.at = "detail" => d.timeline = Null
    /\ k.at = "timeline" /\ d.view # Null => ReadAfter(k, d.view)

DetailOk(d, r) ==
  /\ d \in DetailType
  /\ \A n \in DOMAIN d.loads : LoadOk(d.loads[n], d, r)
  /\ \A n, m \in DOMAIN d.loads : d.loads[n].at # "done" /\ d.loads[m].at # "done" => n = m
  /\ d.post # Null => d.acting # Null
  /\ d.decided => r.status # "submitted"
  /\ d.view # Null => Behind(d.view, r)
  /\ d.view # Null /\ d.timeline # Null => Shows(d.timeline, d.view)
  /\ d.decided /\ d.view # Null /\ d.post = Null /\ ~d.error => d.view.status # "submitted" /\ d.view.decision # Null

DetailInv == DetailOk(detail, store.request)

LEMMA Apart ==
  ASSUME ConsoleAssumption
  PROVE  /\ Null \notin Posts /\ Null \notin Statuses /\ Null \notin Decisions /\ Null \notin Acting
         /\ Null \notin {"executing", "executed", "failed"}
  BY DEF ConsoleAssumption, Statuses, Posts, Decisions, Acting

LEMMA NewLoad ==
  /\ Load \in LoadType /\ Load.at = "detail" /\ Load.part = 0
  /\ [Load EXCEPT !.at = "timeline"] \in LoadType
  /\ [Load EXCEPT !.at = "timeline"].at = "timeline" /\ [Load EXCEPT !.at = "timeline"].part = 0
  /\ [Load EXCEPT !.at = "done"] \in LoadType /\ [Load EXCEPT !.at = "done"].at = "done"
<1>1. Unread \in ReadType
  BY DEF Unread, ReadType, Execution
<1>2. Load \in LoadType
  BY <1>1 DEF Load, LoadType
<1> QED
  BY <1>2 DEF Load, LoadType

LEMMA NothingRead ==
  ASSUME NEW k, k.part = 0, NEW r, NEW decided, NEW v
  PROVE  ReadSoFar(k, r, decided) /\ ReadAfter(k, v)
  BY DEF ReadSoFar, ReadAfter

LEMMA DetailInit ==
  ASSUME ConsoleAssumption, ConsoleInit
  PROVE  DetailInv /\ StoreOk
<1>1. StoreOk
  <2>1. plan.rows \in Seq(Tag) /\ plan \in Plans
    BY DEF ConsoleInit, ConsoleAssumption
  <2> QED
    BY <2>1 DEF ConsoleInit, StoreOk, RequestType, Statuses
<1>2. PICK loads \in {<<>>, <<Load>>} : detail.loads = loads
  BY DEF ConsoleInit
<1>3. detail.loads \in Seq(LoadType) /\ (\A n \in DOMAIN detail.loads : n = 1 /\ detail.loads[n] = Load)
  <2>1. CASE loads = <<>>
    BY <1>2, <2>1
  <2>2. CASE loads = <<Load>>
    BY <1>2, <2>2, NewLoad
  <2> QED
    BY <2>1, <2>2
<1>4. detail \in DetailType
  BY <1>3 DEF ConsoleInit, DetailType
<1>5. detail.post = Null /\ detail.loading /\ ~detail.decided /\ detail.view = Null /\ detail.timeline = Null
  BY DEF ConsoleInit
<1>6. \A n \in DOMAIN detail.loads : LoadOk(detail.loads[n], detail, store.request)
  BY <1>3, <1>5, NewLoad, NothingRead DEF LoadOk
<1> QED
  BY <1>1, <1>3, <1>4, <1>5, <1>6 DEF DetailInv, DetailOk

\* The request goes on.
LEMMA AdvancedGoes ==
  ASSUME ConsoleAssumption, NEW r \in RequestType, r.status = "submitted" <=> r.decision = Null,
         NEW status \in Statuses \ {"submitted"}, status \in Decisions \/ r.status # "submitted"
  PROVE  LET a == Advanced(r, status) IN
         a \in RequestType /\ Behind(r, a) /\ a.status # "submitted" /\ a.decision # Null
<1>1. Null \notin Statuses /\ Decisions \subseteq Statuses /\ Null \notin Decisions /\ Null \notin {"executing", "executed", "failed"}
  BY Apart DEF Statuses
<1> QED
  BY <1>1 DEF Advanced, RequestType, Behind

LEMMA StoreGoes ==
  ASSUME StoreOk, NEW a \in RequestType, a.status # "submitted", a.decision # Null,
         store' = [store EXCEPT !.request = a], UNCHANGED plan
  PROVE  StoreOk' /\ store'.request = a /\ store'.rows = store.rows
  BY DEF StoreOk

LEMMA BehindLater ==
  ASSUME NEW v \in ReadType, NEW r \in RequestType, NEW a \in RequestType, Behind(v, r), Behind(r, a)
  PROVE  Behind(v, a)
  BY DEF Behind, ReadType, RequestType

LEMMA LoadLater ==
  ASSUME NEW k \in LoadType, NEW r \in RequestType, NEW a \in RequestType, Behind(r, a), NEW d, LoadOk(k, d, r)
  PROVE  LoadOk(k, d, a)
<1>1. k.read \in ReadType
  BY DEF LoadType
<1> QED
  BY <1>1 DEF LoadOk, ReadSoFar, Behind, ReadType, RequestType

LEMMA DetailLater ==
  ASSUME NEW d, NEW r \in RequestType, DetailOk(d, r), NEW a \in RequestType, Behind(r, a), a.status # "submitted"
  PROVE  DetailOk(d, a)
<1>1. \A n \in DOMAIN d.loads : d.loads[n] \in LoadType
  BY DEF DetailOk, DetailType
<1>2. \A n \in DOMAIN d.loads : LoadOk(d.loads[n], d, a)
  BY <1>1, LoadLater DEF DetailOk
<1>3. d.view # Null => Behind(d.view, a)
  BY BehindLater DEF DetailOk, DetailType
<1> QED
  BY <1>2, <1>3 DEF DetailOk

\* No load is under way while a decision is.
LEMMA NoLoad ==
  ASSUME NEW d, NEW r, DetailOk(d, r), d.post # Null \/ ~d.loading
  PROVE  \A n \in DOMAIN d.loads : d.loads[n].at = "done"
  BY DEF DetailOk, LoadOk

\* Steps of a decision, which leave loads alone.
LEMMA PostStep ==
  ASSUME NEW d, NEW r, DetailOk(d, r), NEW e \in DetailType, e.loads = d.loads, \A n \in DOMAIN d.loads : d.loads[n].at = "done",
         e.view = d.view, e.timeline = d.timeline, e.post # Null => e.acting # Null,
         e.decided => r.status # "submitted",
         e.post # Null \/ e.error \/ (e.decided = d.decided /\ d.post = Null /\ ~d.error)
  PROVE  DetailOk(e, r)
<1>1. \A n \in DOMAIN e.loads : LoadOk(e.loads[n], e, r)
  BY DEF LoadOk
<1> QED
  BY <1>1 DEF DetailOk

LEMMA AdvanceOk ==
  ASSUME ConsoleAssumption, StoreOk, DetailInv, Advance
  PROVE  StoreOk' /\ DetailInv' /\ store'.rows = store.rows
<1> DEFINE r == store.request
<1>1. PICK status \in Statuses : Follows(r, status) /\ store' = [store EXCEPT !.request = Advanced(@, status)]
                                /\ detail' = [detail EXCEPT !.post = IF @ = "accepted" /\ status \in {"executed", "failed"} THEN "finished" ELSE @]
  BY DEF Advance
<1> DEFINE a == Advanced(r, status)
<1>2. r \in RequestType /\ (r.status = "submitted" <=> r.decision = Null) /\ store' = [store EXCEPT !.request = a]
  BY <1>1 DEF StoreOk
<1>3. status # "submitted" /\ (status \in Decisions \/ r.status # "submitted")
  BY <1>1 DEF Follows, Decisions
<1> HIDE DEF r
<1>4. a \in RequestType /\ Behind(r, a) /\ a.status # "submitted" /\ a.decision # Null
  BY <1>2, <1>3, AdvancedGoes
<1> HIDE DEF a
<1>5. StoreOk' /\ store'.request = a /\ store'.rows = store.rows
  BY <1>2, <1>4, StoreGoes DEF Advance
<1>6. DetailOk(detail, a)
  BY <1>2, <1>4, DetailLater DEF DetailInv, r
<1>7. CASE detail' = detail
  BY <1>5, <1>6, <1>7 DEF DetailInv
<1>8. CASE detail.post = "accepted" /\ detail' = [detail EXCEPT !.post = "finished"]
  <2>1. detail \in DetailType /\ detail.post # Null /\ "finished" # Null
    BY <1>6, <1>8, Apart DEF DetailOk, Posts
  <2>2. detail' \in DetailType /\ detail'.loads = detail.loads /\ detail'.view = detail.view /\ detail'.timeline = detail.timeline
        /\ detail'.acting = detail.acting /\ detail'.post = "finished" /\ detail'.decided = detail.decided
    BY <1>8, <2>1 DEF DetailType, Posts
  <2>3. DetailOk(detail', a)
    BY <1>6, <2>1, <2>2, NoLoad, PostStep DEF DetailOk
  <2> QED
    BY <1>5, <2>3 DEF DetailInv
<1>9. detail' = detail \/ (detail.post = "accepted" /\ detail' = [detail EXCEPT !.post = "finished"])
  <2>1. detail \in DetailType
    BY DEF DetailInv, DetailOk
  <2> QED
    BY <1>1, <2>1 DEF DetailType
<1> QED
  BY <1>5, <1>7, <1>8, <1>9

LEMMA PostOk ==
  ASSUME ConsoleAssumption, DetailInv, Decide \/ RetryExecution
  PROVE  DetailInv' /\ UNCHANGED <<plan, store>>
<1>1. PICK what \in Acting : Post(what)
  BY DEF Decide, RetryExecution, Acting
<1>2. detail \in DetailType /\ ~detail.loading /\ what # Null /\ "sent" # Null
  BY <1>1, Apart DEF Post, DetailShown, DetailInv, DetailOk, DetailType, Posts
<1>3. detail' = [detail EXCEPT !.acting = what, !.post = "sent", !.error = FALSE] /\ UNCHANGED <<plan, store>>
  BY <1>1 DEF Post
<1>4. detail' \in DetailType /\ detail'.loads = detail.loads /\ detail'.view = detail.view /\ detail'.timeline = detail.timeline
      /\ detail'.acting = what /\ detail'.post = "sent" /\ detail'.decided = detail.decided
  BY <1>2, <1>3 DEF DetailType, Posts
<1>5. DetailOk(detail', store.request)
  BY <1>2, <1>4, NoLoad, PostStep DEF DetailInv, DetailOk
<1> QED
  BY <1>3, <1>5 DEF DetailInv

LEMMA AcceptOk ==
  ASSUME ConsoleAssumption, StoreOk, DetailInv, Accept
  PROVE  StoreOk' /\ DetailInv' /\ store'.rows = store.rows
<1> DEFINE r == store.request
           a == Advanced(r, detail.acting)
           taken == IF detail.acting = "executing" THEN r.status = "failed" ELSE r.decision = Null
<1>1. detail \in DetailType /\ detail.post = "sent" /\ "sent" # Null /\ detail.acting \in Acting /\ "refused" # Null
  BY Apart DEF Accept, DetailInv, DetailOk, DetailType, Posts
<1>2. \A n \in DOMAIN detail.loads : detail.loads[n].at = "done"
  BY <1>1, NoLoad DEF DetailInv
<1>3. CASE taken
  <2>1. r \in RequestType /\ (r.status = "submitted" <=> r.decision = Null)
    BY DEF StoreOk
  <2>2. detail.acting \in Statuses \ {"submitted"} /\ (detail.acting \in Decisions \/ r.status # "submitted")
    BY <1>1, <1>3 DEF Acting, Statuses, Decisions
  <2> HIDE DEF r
  <2>3. a \in RequestType /\ Behind(r, a) /\ a.status # "submitted" /\ a.decision # Null
    BY <2>1, <2>2, AdvancedGoes
  <2>4. store' = [store EXCEPT !.request = a] /\ UNCHANGED plan
        /\ \E post \in {"finished", "accepted"} : detail' = [detail EXCEPT !.post = post, !.decided = TRUE]
    BY <1>3 DEF Accept, r
  <2> HIDE DEF a
  <2>5. StoreOk' /\ store'.request = a /\ store'.rows = store.rows
    BY <2>3, <2>4, StoreGoes
  <2>6. DetailOk(detail, a)
    BY <2>1, <2>3, DetailLater DEF DetailInv, r
  <2>7. PICK post \in {"finished", "accepted"} : detail' = [detail EXCEPT !.post = post, !.decided = TRUE]
    BY <2>4
  <2>8. post # Null /\ post \in Posts
    BY Apart DEF Posts
  <2>9. detail' \in DetailType /\ detail'.loads = detail.loads /\ detail'.view = detail.view /\ detail'.timeline = detail.timeline
        /\ detail'.acting = detail.acting /\ detail'.post = post
    BY <1>1, <2>7, <2>8 DEF DetailType
  <2>10. DetailOk(detail', a)
    BY <1>1, <1>2, <2>3, <2>6, <2>8, <2>9, PostStep, Apart
  <2> QED
    BY <2>5, <2>10 DEF DetailInv
<1>4. CASE ~taken
  <2>1. detail' = [detail EXCEPT !.post = "refused"] /\ UNCHANGED <<plan, store>>
    BY <1>4 DEF Accept
  <2>2. detail' \in DetailType /\ detail'.loads = detail.loads /\ detail'.view = detail.view /\ detail'.timeline = detail.timeline
        /\ detail'.acting = detail.acting /\ detail'.post = "refused" /\ detail'.decided = detail.decided
    BY <1>1, <2>1 DEF DetailType, Posts
  <2>3. DetailOk(detail, store.request) /\ detail'.acting # Null /\ (detail'.decided => store.request.status # "submitted")
    BY <1>1, <2>2, Apart DEF DetailInv, DetailOk
  <2> HIDE DEF taken
  <2>4. DetailOk(detail', store.request)
    BY <1>1, <1>2, <2>2, <2>3, PostStep
  <2> QED
    BY <2>1, <2>4 DEF DetailInv, StoreOk
<1> QED
  BY <1>3, <1>4

LEMMA FailPostOk ==
  ASSUME ConsoleAssumption, DetailInv, FailPost
  PROVE  DetailInv'
<1>1. detail \in DetailType /\ detail.post # Null /\ "refused" # Null
  BY Apart DEF FailPost, DetailInv, DetailOk, Posts
<1>2. detail' = [detail EXCEPT !.post = "refused"] /\ UNCHANGED <<plan, store>>
  BY DEF FailPost
<1>3. detail' \in DetailType /\ detail'.loads = detail.loads /\ detail'.view = detail.view /\ detail'.timeline = detail.timeline
      /\ detail'.acting = detail.acting /\ detail'.post = "refused" /\ detail'.decided = detail.decided
  BY <1>1, <1>2 DEF DetailType, Posts
<1>4. DetailOk(detail, store.request) /\ detail'.acting # Null /\ (detail'.decided => store.request.status # "submitted")
  BY <1>1, <1>3 DEF DetailInv, DetailOk
<1>5. \A n \in DOMAIN detail.loads : detail.loads[n].at = "done"
  BY <1>1, <1>4, NoLoad
<1>6. DetailOk(detail', store.request)
  BY <1>1, <1>3, <1>4, <1>5, PostStep
<1> QED
  BY <1>2, <1>6 DEF DetailInv

LEMMA PostAnsweredOk ==
  ASSUME ConsoleAssumption, DetailInv, PostAnswered
  PROVE  DetailInv'
<1>1. detail \in DetailType /\ detail.post # Null /\ UNCHANGED store
  BY Apart DEF PostAnswered, DetailInv, DetailOk, Posts
<1>2. \A n \in DOMAIN detail.loads : detail.loads[n].at = "done"
  BY <1>1, NoLoad DEF DetailInv
<1>3. CASE detail.post = "finished"
  <2>1. detail' = [detail EXCEPT !.post = Null, !.loading = TRUE, !.error = FALSE, !.view = Null, !.timeline = Null,
                                 !.loads = Append(detail.loads, Load)]
    BY <1>1, <1>3 DEF PostAnswered, Reloading, DetailType
  <2>2. /\ Append(detail.loads, Load) \in Seq(LoadType)
        /\ \A n \in DOMAIN Append(detail.loads, Load) :
             \/ n = Len(detail.loads) + 1 /\ Append(detail.loads, Load)[n] = Load
             \/ n \in DOMAIN detail.loads /\ Append(detail.loads, Load)[n] = detail.loads[n]
    BY <1>1, NewLoad DEF DetailType
  <2> DEFINE loads == Append(detail.loads, Load)
  <2> HIDE DEF loads
  <2>3. /\ detail' \in DetailType /\ detail'.loads = loads /\ detail'.view = Null /\ detail'.timeline = Null
        /\ detail'.post = Null /\ detail'.loading /\ detail'.decided = detail.decided
    BY <1>1, <2>1, <2>2 DEF DetailType, loads
  <2>4. \A n \in DOMAIN loads : loads[n] = Load \/ loads[n].at = "done"
    BY <1>2, <2>2 DEF loads
  <2>5. \A n \in DOMAIN loads : LoadOk(loads[n], detail', store.request)
    BY <2>3, <2>4, NewLoad, NothingRead DEF LoadOk
  <2>6. \A n, m \in DOMAIN loads : loads[n].at # "done" /\ loads[m].at # "done" => n = m
    BY <1>2, <2>2 DEF loads
  <2>7. DetailOk(detail', store.request)
    BY <2>3, <2>5, <2>6 DEF DetailOk, DetailInv
  <2> QED
    BY <1>1, <2>7 DEF DetailInv
<1>4. CASE detail.post # "finished"
  <2>1. detail' = [detail EXCEPT !.post = Null, !.error = TRUE, !.acting = Null]
    BY <1>1, <1>4 DEF PostAnswered, DetailType
  <2>2. detail' \in DetailType /\ detail'.loads = detail.loads /\ detail'.view = detail.view /\ detail'.timeline = detail.timeline
        /\ detail'.post = Null /\ detail'.error /\ detail'.decided = detail.decided
    BY <1>1, <2>1 DEF DetailType
  <2>3. DetailOk(detail', store.request)
    BY <1>2, <2>2, PostStep DEF DetailInv, DetailOk
  <2> QED
    BY <1>1, <2>3 DEF DetailInv
<1> QED
  BY <1>3, <1>4

\* A load takes the place of the only one under way.
LEMMA PutLoad ==
  ASSUME NEW d, NEW r, DetailOk(d, r), NEW n \in DOMAIN d.loads, d.loads[n].at # "done", NEW k \in LoadType
  PROVE  LET loads == [d.loads EXCEPT ![n] = k] IN
         /\ loads \in Seq(LoadType)
         /\ \A m \in DOMAIN loads : (m = n /\ loads[m] = k) \/ loads[m].at = "done"
<1>1. d.loads \in Seq(LoadType) /\ \A m \in DOMAIN d.loads : m # n => d.loads[m].at = "done"
  BY DEF DetailOk, DetailType
<1> QED
  BY <1>1

LEMMA LoadsOk ==
  ASSUME NEW d \in DetailType, NEW r, NEW n, NEW k, LoadOk(k, d, r),
         \A m \in DOMAIN d.loads : (m = n /\ d.loads[m] = k) \/ d.loads[m].at = "done"
  PROVE  /\ \A m \in DOMAIN d.loads : LoadOk(d.loads[m], d, r)
         /\ \A m, l \in DOMAIN d.loads : d.loads[m].at # "done" /\ d.loads[l].at # "done" => m = l
  BY DEF LoadOk

LEMMA LoadTyped ==
  ASSUME DetailInv, StoreOk, NEW n \in DOMAIN detail.loads
  PROVE  /\ detail \in DetailType /\ detail.loads[n] \in LoadType /\ detail.loads[n].read \in ReadType
         /\ detail.loads[n].part \in 0 .. 4 /\ LoadOk(detail.loads[n], detail, store.request)
         /\ store.request \in RequestType
         /\ (store.request.status = "submitted" <=> store.request.decision = Null)
<1>1. detail \in DetailType /\ LoadOk(detail.loads[n], detail, store.request)
  BY DEF DetailInv, DetailOk
<1>2. detail.loads[n] \in LoadType
  BY <1>1 DEF DetailType
<1>3. detail.loads[n].read \in ReadType /\ detail.loads[n].part \in 0 .. 4
  BY <1>2 DEF LoadType
<1>4. store.request \in RequestType /\ (store.request.status = "submitted" <=> store.request.decision = Null)
  BY DEF StoreOk
<1> QED
  BY <1>1, <1>2, <1>3, <1>4

LEMMA ReadPartOk ==
  ASSUME ConsoleAssumption, StoreOk, DetailInv, NEW n \in DOMAIN detail.loads, ReadPart(n)
  PROVE  DetailInv'
<1> DEFINE k == detail.loads[n]
           r == store.request
           read == CASE k.part = 0 -> WithRequest(k.read, r)
                     [] k.part = 1 -> WithApprovals(k.read, r)
                     [] k.part = 2 -> WithExecution(k.read, r)
                     [] OTHER -> WithAuditTrail(k.read, r)
           c == [k EXCEPT !.part = @ + 1, !.read = read]
<1>1. detail \in DetailType /\ k \in LoadType /\ k.read \in ReadType /\ LoadOk(k, detail, r) /\ r \in RequestType
      /\ (r.status = "submitted" <=> r.decision = Null)
  BY LoadTyped
<1>2. k.at # "done" /\ k.part \in 0 .. 3 /\ detail' = [detail EXCEPT !.loads = [detail.loads EXCEPT ![n] = c]] /\ UNCHANGED store
  BY <1>1 DEF ReadPart, LoadType, DetailType
<1> HIDE DEF k, r
<1>3. /\ read \in ReadType
      /\ read.status = IF k.part = 0 THEN r.status ELSE k.read.status
      /\ read.decision = IF k.part = 1 THEN r.decision ELSE k.read.decision
      /\ read.execution = IF k.part = 2 THEN r.execution ELSE k.read.execution
      /\ read.log = IF k.part = 3 THEN r.log ELSE k.read.log
  <2>1. CASE k.part = 0
    BY <1>1, <2>1 DEF WithRequest, ReadType, RequestType
  <2>2. CASE k.part = 1
    BY <1>1, <2>2 DEF WithApprovals, ReadType, RequestType
  <2>3. CASE k.part = 2
    BY <1>1, <2>3 DEF WithExecution, ReadType, RequestType, Execution
  <2>4. CASE k.part = 3
    BY <1>1, <2>4 DEF WithAuditTrail, ReadType, RequestType
  <2> QED
    BY <1>2, <2>1, <2>2, <2>3, <2>4
<1> HIDE DEF read
<1>4. c \in LoadType /\ c.at = k.at /\ c.part = k.part + 1 /\ c.read = read
  <2>1. k.part + 1 \in 0 .. 4
    BY <1>2
  <2> QED
    BY <1>1, <1>3, <2>1 DEF LoadType
<1> HIDE DEF c
<1>5. detail' \in DetailType /\ detail'.loads = [detail.loads EXCEPT ![n] = c] /\ detail'.view = detail.view
      /\ detail'.timeline = detail.timeline /\ detail'.post = detail.post /\ detail'.loading = detail.loading
      /\ detail'.acting = detail.acting /\ detail'.error = detail.error /\ detail'.decided = detail.decided
  <2>1. [detail.loads EXCEPT ![n] = c] \in Seq(LoadType)
    BY <1>1, <1>4 DEF DetailType
  <2> QED
    BY <1>1, <1>2, <2>1 DEF DetailType
<1>6. LoadOk(c, detail', r)
  <2>1. detail.decided => r.status # "submitted" /\ r.decision # Null
    BY <1>1 DEF DetailInv, DetailOk, r
  <2>2. detail.view # Null => Behind(detail.view, r)
    BY DEF DetailInv, DetailOk, r
  <2>3. ReadSoFar(c, r, detail.decided)
    <3>1. ReadSoFar(k, r, detail.decided)
      BY <1>1, <1>2 DEF LoadOk
    <3>2. r.log \in Nat /\ k.read.log \in Nat
      BY <1>1 DEF RequestType, ReadType
    <3> QED
      BY <1>2, <1>3, <1>4, <2>1, <3>1, <3>2 DEF ReadSoFar
  <2>4. c.at = "timeline" /\ detail.view # Null => ReadAfter(c, detail.view)
    <3> SUFFICES ASSUME c.at = "timeline", detail.view # Null PROVE ReadAfter(c, detail.view)
      OBVIOUS
    <3>1. ReadAfter(k, detail.view)
      BY <1>1, <1>4 DEF LoadOk
    <3> QED
      BY <1>2, <1>3, <1>4, <2>2, <3>1 DEF ReadAfter, Behind
  <2> QED
    BY <1>1, <1>2, <1>4, <1>5, <2>3, <2>4 DEF LoadOk
<1>7. \A m \in DOMAIN detail'.loads : (m = n /\ detail'.loads[m] = c) \/ detail'.loads[m].at = "done"
  BY <1>2, <1>4, <1>5, PutLoad DEF DetailInv, k
<1>8. /\ \A m \in DOMAIN detail'.loads : LoadOk(detail'.loads[m], detail', r)
      /\ \A m, l \in DOMAIN detail'.loads : detail'.loads[m].at # "done" /\ detail'.loads[l].at # "done" => m = l
  <2>1. detail' \in DetailType
    BY <1>5
  <2> QED
    BY <1>6, <1>7, <2>1, LoadsOk
<1>9. DetailOk(detail', r)
  BY <1>5, <1>8 DEF DetailInv, DetailOk, r
<1> QED
  BY <1>2, <1>9 DEF DetailInv, r

LEMMA DetailAnsweredOk ==
  ASSUME ConsoleAssumption, StoreOk, DetailInv, NEW n \in DOMAIN detail.loads, DetailAnswered(n)
  PROVE  DetailInv'
<1> DEFINE k == detail.loads[n]
           r == store.request
           c == [Load EXCEPT !.at = "timeline"]
<1>1. detail \in DetailType /\ k \in LoadType /\ k.read \in ReadType /\ LoadOk(k, detail, r) /\ r \in RequestType
  BY LoadTyped
<1>2. k.at = "detail" /\ k.part = 4 /\ UNCHANGED store
      /\ detail' = [detail EXCEPT !.view = k.read, !.loads = [detail.loads EXCEPT ![n] = c]]
  BY <1>1 DEF DetailAnswered, DetailType
<1> HIDE DEF k, r
<1>3. c \in LoadType /\ c.at = "timeline" /\ c.part = 0
  BY NewLoad
<1> HIDE DEF c
<1>4. detail' \in DetailType /\ detail'.loads = [detail.loads EXCEPT ![n] = c] /\ detail'.view = k.read
      /\ detail'.timeline = detail.timeline /\ detail'.post = detail.post /\ detail'.loading = detail.loading
      /\ detail'.acting = detail.acting /\ detail'.error = detail.error /\ detail'.decided = detail.decided
  <2>1. [detail.loads EXCEPT ![n] = c] \in Seq(LoadType)
    BY <1>1, <1>3 DEF DetailType
  <2> QED
    BY <1>1, <1>2, <2>1 DEF DetailType
<1>5. detail.post = Null /\ detail.loading /\ detail.timeline = Null /\ ReadSoFar(k, r, detail.decided)
  BY <1>1, <1>2 DEF LoadOk
<1>6. LoadOk(c, detail', r)
  BY <1>3, <1>4, <1>5, NothingRead DEF LoadOk
<1>7. \A m \in DOMAIN detail'.loads : (m = n /\ detail'.loads[m] = c) \/ detail'.loads[m].at = "done"
  BY <1>2, <1>3, <1>4, PutLoad DEF DetailInv, k
<1>8. /\ \A m \in DOMAIN detail'.loads : LoadOk(detail'.loads[m], detail', r)
      /\ \A m, l \in DOMAIN detail'.loads : detail'.loads[m].at # "done" /\ detail'.loads[l].at # "done" => m = l
  BY <1>4, <1>6, <1>7, LoadsOk
<1>9. Behind(k.read, r) /\ (detail.decided => k.read.status # "submitted" /\ k.read.decision # Null)
  BY <1>2, <1>5 DEF ReadSoFar, Behind
<1>10. DetailOk(detail', r)
  BY <1>4, <1>5, <1>8, <1>9 DEF DetailInv, DetailOk, r
<1> QED
  BY <1>2, <1>10 DEF DetailInv, r

LEMMA LoadEnds ==
  ASSUME ConsoleAssumption, StoreOk, DetailInv, NEW n \in DOMAIN detail.loads, TimelineAnswered(n) \/ FailLoad(n)
  PROVE  DetailInv'
<1> DEFINE k == detail.loads[n]
           r == store.request
           c == [Load EXCEPT !.at = "done"]
<1>1. detail \in DetailType /\ k \in LoadType /\ k.read \in ReadType /\ LoadOk(k, detail, r) /\ k.at # "done" /\ UNCHANGED store
  BY LoadTyped DEF TimelineAnswered, FailLoad
<1>2. PICK timeline, error :
        /\ detail' = [detail EXCEPT !.loading = FALSE, !.acting = Null, !.loads = [detail.loads EXCEPT ![n] = c],
                                    !.timeline = timeline, !.error = error]
        /\ \/ timeline = TimelineOf(k.read) /\ error = detail.error /\ k.at = "timeline" /\ k.part = 4
           \/ timeline = detail.timeline /\ error = TRUE
  <2>1. CASE TimelineAnswered(n)
    <3>1. detail' = [detail EXCEPT !.loading = FALSE, !.acting = Null, !.loads = [detail.loads EXCEPT ![n] = c],
                                   !.timeline = TimelineOf(k.read), !.error = detail.error]
      BY <1>1, <2>1 DEF TimelineAnswered, Ended, DetailType
    <3> QED
      BY <2>1, <3>1 DEF TimelineAnswered
  <2>2. CASE FailLoad(n)
    <3>1. detail' = [detail EXCEPT !.loading = FALSE, !.acting = Null, !.loads = [detail.loads EXCEPT ![n] = c],
                                   !.timeline = detail.timeline, !.error = TRUE]
      BY <1>1, <2>2 DEF FailLoad, Ended, DetailType
    <3> QED
      BY <3>1
  <2> QED
    BY <2>1, <2>2
<1> HIDE DEF k, r
<1>3. c \in LoadType /\ c.at = "done"
  BY NewLoad
<1> HIDE DEF c
<1>4. TimelineOf(k.read) \in TimelineType
  BY <1>1 DEF TimelineOf, TimelineType, ReadType
<1>5. timeline \in TimelineType \cup {Null} /\ error \in BOOLEAN
  BY <1>1, <1>2, <1>4 DEF DetailType
<1>6. detail' \in DetailType /\ detail'.loads = [detail.loads EXCEPT ![n] = c] /\ detail'.view = detail.view
      /\ detail'.timeline = timeline /\ detail'.post = detail.post /\ detail'.error = error /\ detail'.decided = detail.decided
  <2>1. [detail.loads EXCEPT ![n] = c] \in Seq(LoadType)
    BY <1>1, <1>3 DEF DetailType
  <2> QED
    BY <1>1, <1>2, <1>5, <2>1 DEF DetailType
<1>7. \A m \in DOMAIN detail'.loads : detail'.loads[m].at = "done"
  BY <1>1, <1>3, <1>6, PutLoad DEF DetailInv, k
<1>8. \A m \in DOMAIN detail'.loads : LoadOk(detail'.loads[m], detail', r)
  BY <1>7 DEF LoadOk
<1>9. detail.post = Null
  BY <1>1 DEF LoadOk
<1>10. detail.view # Null /\ timeline # Null => Shows(timeline, detail.view)
  <2>1. CASE timeline = TimelineOf(k.read) /\ k.at = "timeline" /\ k.part = 4
    <3> SUFFICES ASSUME detail.view # Null PROVE Shows(TimelineOf(k.read), detail.view)
      BY <2>1
    <3>1. ReadAfter(k, detail.view)
      BY <1>1, <2>1 DEF LoadOk
    <3> QED
      BY <2>1, <3>1 DEF ReadAfter, Shows, TimelineOf
  <2>2. CASE timeline = detail.timeline
    BY <2>2 DEF DetailInv, DetailOk
  <2> QED
    BY <1>2, <2>1, <2>2
<1>11. DetailOk(detail', r)
  BY <1>2, <1>6, <1>7, <1>8, <1>9, <1>10 DEF DetailInv, DetailOk, r
<1> QED
  BY <1>1, <1>11 DEF DetailInv, r

LEMMA DetailInvAgrees ==
  ASSUME ConsoleAssumption, StoreOk, DetailInv
  PROVE  DetailAgrees
<1> DEFINE under == {n \in DOMAIN detail.loads : detail.loads[n].at # "done"}
<1>1. detail.post # Null => under = {}
  BY NoLoad DEF DetailInv
<1>2. Cardinality(under) <= 1
  <2>1. \A n, m \in under : n = m
    BY DEF DetailInv, DetailOk
  <2>2. under = {} \/ \E n : under = {n}
    BY <2>1
  <2> HIDE DEF under
  <2>3. Cardinality(under) = 0 \/ Cardinality(under) = 1
    BY <2>2, FS_EmptySet, FS_Singleton
  <2> QED
    BY <2>3
<1>3. ASSUME detail.view # Null, detail.timeline # Null
      PROVE  /\ detail.timeline.log >= detail.view.log
             /\ TimelineOf(detail.view).items \ {"execution_finished"} \subseteq detail.timeline.items
  <2>1. Shows(detail.timeline, detail.view) /\ detail.timeline \in TimelineType /\ detail.view \in ReadType
    BY <1>3 DEF DetailInv, DetailOk, DetailType
  <2> QED
    BY <2>1 DEF Shows, TimelineOf, TimelineType, ReadType
<1>4. DetailShown /\ detail.acting = Null /\ detail.decided => detail.view.status # "submitted" /\ detail.view.decision # Null
  BY DEF DetailShown, DetailInv, DetailOk
<1> QED
  BY <1>1, <1>2, <1>3, <1>4 DEF DetailAgrees

----------------------------------------------------------------------------
(* The audit of an object.                                                  *)

ObjectFields ==
  {"type", "text", "pending", "flight", "searching", "results", "option", "view", "loading", "loads", "page",
   "chosen", "raced", "crossed", "stray"}

ViewIs(x) ==
  x.view # Null =>
    /\ x.view.of \in Object
    /\ ~x.raced => x.view.of = x.chosen
    /\ ~x.crossed => x.view.type = x.type
PageIs(x) == x.view # Null => x.page \in 1 .. PageCount(plan.items[x.view.of])
Labelled(x) == x.view # Null => x.text = SelectedLabel(x)
ResultsOk(x) == ~x.searching /\ ~x.stray => x.results \subseteq FoundOf(x.type, x.text)

\* All but the page, which the last of the watchers turns.
ObjectBut(x) == DOMAIN x = ObjectFields /\ ViewIs(x) /\ Labelled(x) /\ ResultsOk(x)
ObjectOk(x) == ObjectBut(x) /\ PageIs(x)
ObjectInv == ObjectOk(object)

LEMMA FirstPage ==
  ASSUME ConsoleAssumption, StoreOk, NEW o \in Object
  PROVE  1 \in 1 .. PageCount(plan.items[o])
<1>1. plan.items[o] \in Nat
  BY DEF ConsoleAssumption, StoreOk
<1>2. PageCount(plan.items[o]) \in Nat \ {0}
  BY <1>1, LastPage
<1> QED
  BY <1>2

\* A label says whose it is.
LEMMA OneLabel ==
  ASSUME NEW x, NEW o, SelectedLabel(x) = Label(o)
  PROVE  x.view.of = o
  BY DEF SelectedLabel, Label, AccountName, Twice

\* Two states of the page that differ only in what the invariant does not mention.
LEMMA ObjectSame ==
  ASSUME NEW x, ObjectBut(x), NEW y, DOMAIN y = ObjectFields, y.view = x.view, y.raced = x.raced, y.chosen = x.chosen,
         y.crossed = x.crossed, y.type = x.type, y.text = x.text, y.searching = x.searching, y.stray = x.stray,
         y.results = x.results
  PROVE  /\ ObjectBut(y)
         /\ y.page = x.page /\ PageIs(x) => ObjectOk(y)
<1>1. SelectedLabel(y) = SelectedLabel(x)
  BY DEF SelectedLabel
<1> QED
  BY <1>1 DEF ObjectOk, ObjectBut, ViewIs, PageIs, Labelled, ResultsOk

LEMMA OptionAside ==
  ASSUME NEW x, ObjectOk(x)
  PROVE  ObjectOk(OptionWatched(x))
<1> DEFINE y == [x EXCEPT !.option = Null]
<1>1. OptionWatched(x) = x \/ OptionWatched(x) = y
  BY DEF OptionWatched
<1>2. /\ DOMAIN y = ObjectFields /\ y.view = x.view /\ y.raced = x.raced /\ y.chosen = x.chosen /\ y.crossed = x.crossed
      /\ y.type = x.type /\ y.page = x.page /\ y.text = x.text /\ y.searching = x.searching /\ y.stray = x.stray
      /\ y.results = x.results
  BY DEF ObjectFields, ObjectOk, ObjectBut
<1> HIDE DEF y
<1>3. ObjectOk(y)
  BY <1>2, ObjectSame DEF ObjectOk
<1> QED
  BY <1>1, <1>3

\* What the watcher of the text makes of what is written: the object goes with its
\* label, and what was found with the text that it was found for.
LEMMA TextAside ==
  ASSUME NEW x, DOMAIN x = ObjectFields, x.view # Null /\ x.text = SelectedLabel(x) => ViewIs(x)
  PROVE  LET z == TextWatched(Triggered(x)) IN
         /\ ObjectBut(z)
         /\ z.view = Null \/ z.view = x.view
         /\ z.page = x.page
<1> DEFINE y == Triggered(x)
           z == TextWatched(y)
<1>1. /\ DOMAIN y = ObjectFields /\ y.view = x.view /\ y.raced = x.raced /\ y.chosen = x.chosen /\ y.crossed = x.crossed
      /\ y.type = x.type /\ y.page = x.page /\ y.text = x.text
      /\ y.searching \/ y.results = {}
  BY DEF Triggered, ResetSearch, ObjectFields
<1> HIDE DEF y
<1>2. SelectedLabel(y) = SelectedLabel(x)
  BY <1>1 DEF SelectedLabel
<1>3. CASE y.view # Null /\ y.text # SelectedLabel(y)
  <2>1. z = [y EXCEPT !.view = Null]
    BY <1>3 DEF TextWatched
  <2>2. DOMAIN z = ObjectFields /\ z.view = Null /\ z.searching = y.searching /\ z.results = y.results /\ z.page = y.page
    BY <1>1, <2>1 DEF ObjectFields
  <2> HIDE DEF z
  <2>3. ObjectBut(z)
    BY <1>1, <2>2 DEF ObjectBut, ViewIs, Labelled, ResultsOk
  <2> QED
    BY <1>1, <2>2, <2>3 DEF y, z
<1>4. CASE ~(y.view # Null /\ y.text # SelectedLabel(y))
  <2>1. z = y
    BY <1>4 DEF TextWatched
  <2>2. ViewIs(y) /\ Labelled(y) /\ ResultsOk(y)
    BY <1>1, <1>2, <1>4 DEF ViewIs, Labelled, ResultsOk
  <2> QED
    BY <1>1, <2>1, <2>2 DEF ObjectBut, y
<1> QED
  BY <1>3, <1>4

\* The watchers, after any change.
LEMMA WatchersKeep ==
  ASSUME ConsoleAssumption, StoreOk, ObjectInv, UNCHANGED <<plan, store>>,
         NEW x, Watched(x), DOMAIN x = ObjectFields, x.view = Null \/ x.page = object.page,
         x.view # Null /\ x.text = SelectedLabel(x) => ViewIs(x),
         x.text = object.text => Labelled(x) /\ ResultsOk(x)
  PROVE  ObjectInv'
<1> DEFINE y == IF x.text = object.text THEN x ELSE TextWatched(Triggered(x))
           first == [y EXCEPT !.page = 1]
           z == IF y.view = object.view THEN y ELSE first
<1>1. object' = OptionWatched(z)
  BY DEF Watched
<1>2. ObjectBut(y) /\ (y.view = Null \/ y.page = object.page)
  <2>1. CASE x.text = object.text
    BY <2>1 DEF ObjectBut, ViewIs, Labelled
  <2>2. CASE x.text # object.text
    BY <2>2, TextAside
  <2> QED
    BY <2>1, <2>2
<1> HIDE DEF y
<1>3. ASSUME y.view = object.view PROVE ObjectOk(z)
  <2>1. PageIs(y)
    BY <1>2, <1>3 DEF PageIs, ObjectInv, ObjectOk
  <2> QED
    BY <1>2, <1>3, <2>1 DEF ObjectOk
<1>4. ASSUME y.view # object.view PROVE ObjectOk(z)
  <2>1. /\ DOMAIN first = ObjectFields /\ first.view = y.view /\ first.raced = y.raced /\ first.chosen = y.chosen
        /\ first.crossed = y.crossed /\ first.type = y.type /\ first.text = y.text /\ first.searching = y.searching
        /\ first.stray = y.stray /\ first.results = y.results /\ first.page = 1
    BY <1>2 DEF ObjectFields, ObjectBut
  <2> HIDE DEF first
  <2>2. ObjectBut(first)
    BY <1>2, <2>1, ObjectSame
  <2>3. PageIs(first)
    <3>1. first.view # Null => 1 \in 1 .. PageCount(plan.items[first.view.of])
      BY <2>2, FirstPage DEF ObjectBut, ViewIs
    <3> QED
      BY <2>1, <3>1 DEF PageIs
  <2> QED
    BY <1>4, <2>2, <2>3 DEF ObjectOk
<1>5. ObjectOk(z)
  BY <1>3, <1>4
<1> HIDE DEF z
<1>6. ObjectOk(object')
  BY <1>1, <1>5, OptionAside
<1> QED
  BY <1>6 DEF ObjectInv, ObjectOk, ObjectBut, ViewIs, PageIs, Labelled, ResultsOk, FoundOf, OfType

LEMMA ObjectInit ==
  ASSUME ConsoleInit
  PROVE  ObjectInv
<1>1. DOMAIN object = ObjectFields /\ object.view = Null /\ object.results = {}
  BY DEF ConsoleInit, ObjectFields
<1> QED
  BY <1>1 DEF ObjectInv, ObjectOk, ObjectBut, ViewIs, PageIs, Labelled, ResultsOk

LEMMA ObjectStays ==
  ASSUME ObjectInv, UNCHANGED <<plan, object>>
  PROVE  ObjectInv'
  BY DEF ObjectInv, ObjectOk, ObjectBut, ViewIs, PageIs, Labelled, ResultsOk, FoundOf, OfType

\* A step that the watchers have no part in.
LEMMA ObjectBecomes ==
  ASSUME NEW x, ObjectOk(x), object' = x, UNCHANGED plan
  PROVE  ObjectInv'
  BY DEF ObjectInv, ObjectOk, ObjectBut, ViewIs, PageIs, Labelled, ResultsOk, FoundOf, OfType

LEMMA TypeTextOk ==
  ASSUME ConsoleAssumption, StoreOk, ObjectInv, UNCHANGED <<plan, store>>, TypeText
  PROVE  ObjectInv'
<1>1. PICK text \in Text \ {object.text} : Watched([object EXCEPT !.option = Null, !.text = text])
  BY DEF TypeText
<1> DEFINE x == [object EXCEPT !.option = Null, !.text = text]
<1>2. /\ DOMAIN x = ObjectFields /\ x.view = object.view /\ x.page = object.page /\ x.text # object.text
      /\ x.raced = object.raced /\ x.chosen = object.chosen /\ x.crossed = object.crossed /\ x.type = object.type
  BY DEF ObjectInv, ObjectOk, ObjectBut, ObjectFields
<1>3. Watched(x)
  BY <1>1
<1> HIDE DEF x
<1>4. ViewIs(x)
  BY <1>2 DEF ViewIs, ObjectInv, ObjectOk, ObjectBut
<1> QED
  BY <1>2, <1>3, <1>4, WatchersKeep

LEMMA StartSearchOk ==
  ASSUME ObjectInv, StartSearch
  PROVE  ObjectInv'
<1> DEFINE x == [object EXCEPT !.pending = Null, !.flight[<<object.pending, object.type>>] = @ + 1]
<1>1. /\ DOMAIN x = ObjectFields /\ x.view = object.view /\ x.raced = object.raced /\ x.chosen = object.chosen
      /\ x.crossed = object.crossed /\ x.type = object.type /\ x.page = object.page /\ x.text = object.text
      /\ x.searching = object.searching /\ x.stray = object.stray /\ x.results = object.results
  BY DEF ObjectFields, ObjectInv, ObjectOk, ObjectBut
<1>2. object' = x /\ UNCHANGED plan
  BY DEF StartSearch
<1> HIDE DEF x
<1>3. ObjectOk(x)
  BY <1>1, ObjectSame DEF ObjectInv, ObjectOk
<1> QED
  BY <1>2, <1>3, ObjectBecomes

LEMMA SearchAnsweredOk ==
  ASSUME ObjectInv, SearchAnswered
  PROVE  ObjectInv'
<1>1. PICK search \in Text \X ObjectType, good \in BOOLEAN :
        LET x == [object EXCEPT !.flight[search] = @ - 1] IN
        object' = IF x.text # search[1] THEN x
                  ELSE [x EXCEPT !.results = IF good THEN FoundOf(search[2], search[1]) ELSE {},
                                 !.searching = FALSE, !.stray = (search[2] # x.type)]
  BY DEF SearchAnswered
<1> DEFINE x == [object EXCEPT !.flight[search] = @ - 1]
           found == IF good THEN FoundOf(search[2], search[1]) ELSE {}
           y == [x EXCEPT !.results = found, !.searching = FALSE, !.stray = (search[2] # x.type)]
<1>2. /\ DOMAIN x = ObjectFields /\ x.view = object.view /\ x.raced = object.raced /\ x.chosen = object.chosen
      /\ x.crossed = object.crossed /\ x.type = object.type /\ x.page = object.page /\ x.text = object.text
      /\ x.searching = object.searching /\ x.stray = object.stray /\ x.results = object.results
  BY DEF ObjectFields, ObjectInv, ObjectOk, ObjectBut
<1>3. object' = (IF x.text # search[1] THEN x ELSE y) /\ UNCHANGED plan
  BY <1>1 DEF SearchAnswered
<1> HIDE DEF x
<1>4. ObjectOk(x)
  BY <1>2, ObjectSame DEF ObjectInv, ObjectOk
<1>5. ASSUME x.text = search[1] PROVE ObjectOk(y)
  <2>1. /\ DOMAIN y = ObjectFields /\ y.view = x.view /\ y.raced = x.raced /\ y.chosen = x.chosen
        /\ y.crossed = x.crossed /\ y.type = x.type /\ y.page = x.page /\ y.text = x.text
        /\ y.stray = (search[2] # x.type) /\ y.results = found
    BY <1>2 DEF ObjectFields
  <2> HIDE DEF y
  <2>2. SelectedLabel(y) = SelectedLabel(x)
    BY <2>1 DEF SelectedLabel
  <2>3. ResultsOk(y)
    BY <1>5, <2>1 DEF ResultsOk
  <2> QED
    BY <1>4, <2>1, <2>2, <2>3 DEF ObjectOk, ObjectBut, ViewIs, PageIs, Labelled
<1> HIDE DEF y
<1> QED
  BY <1>3, <1>4, <1>5, ObjectBecomes

LEMMA SelectObjectOk ==
  ASSUME ConsoleAssumption, StoreOk, ObjectInv, UNCHANGED <<plan, store>>, SelectObject
  PROVE  ObjectInv'
<1> DEFINE Picked(o) == [object EXCEPT !.option = o, !.text = Label(o)]
<1>1. PICK o : Watched(Picked(o)) \/ Watched(LoadingObject(Picked(o), o))
  BY DEF SelectObject
<1>2. PICK x \in {Picked(o), LoadingObject(Picked(o), o)} : Watched(x)
  BY <1>1
<1>3. /\ DOMAIN x = ObjectFields /\ x.view = object.view /\ x.page = object.page /\ x.text = Label(o)
      /\ x.raced = object.raced /\ x.chosen \in {object.chosen, o} /\ x.crossed = object.crossed /\ x.type = object.type
      /\ x.searching = object.searching /\ x.stray = object.stray /\ x.results = object.results
  BY DEF LoadingObject, ObjectInv, ObjectOk, ObjectBut, ObjectFields
<1>4. SelectedLabel(x) = SelectedLabel(object)
  BY <1>3 DEF SelectedLabel
<1>5. x.view # Null /\ x.text = SelectedLabel(x) => ViewIs(x)
  BY <1>3, OneLabel DEF ViewIs, ObjectInv, ObjectOk, ObjectBut
<1>6. x.text = object.text => Labelled(x) /\ ResultsOk(x)
  BY <1>3, <1>4 DEF Labelled, ResultsOk, ObjectInv, ObjectOk, ObjectBut
<1> QED
  BY <1>2, <1>3, <1>5, <1>6, WatchersKeep

LEMMA BlurObjectOk ==
  ASSUME ConsoleAssumption, StoreOk, ObjectInv, UNCHANGED <<plan, store>>, BlurObject
  PROVE  ObjectInv'
<1>1. PICK o : Watched(LoadingObject(object, o))
  BY DEF BlurObject
<1> DEFINE x == LoadingObject(object, o)
<1>2. /\ DOMAIN x = ObjectFields /\ x.view = Null /\ x.text = object.text /\ x.type = object.type
      /\ x.searching = object.searching /\ x.stray = object.stray /\ x.results = object.results
  BY DEF BlurObject, LoadingObject, ObjectInv, ObjectOk, ObjectBut, ObjectFields
<1>3. Watched(x)
  BY <1>1
<1> HIDE DEF x
<1>4. Labelled(x) /\ ResultsOk(x)
  BY <1>2 DEF Labelled, ResultsOk, ObjectInv, ObjectOk, ObjectBut
<1> QED
  BY <1>2, <1>3, <1>4, WatchersKeep

LEMMA ObjectAnsweredOk ==
  ASSUME ConsoleAssumption, StoreOk, ObjectInv, UNCHANGED <<plan, store>>, ObjectAnswered
  PROVE  ObjectInv'
<1> DEFINE X(l) == [object EXCEPT !.loads[l] = @ - 1, !.loading = FALSE]
           Y(l) == [X(l) EXCEPT !.view = [of |-> l[1], type |-> l[2]], !.results = {}, !.stray = FALSE,
                                !.raced = (l[1] # X(l).chosen), !.crossed = (l[2] # X(l).type)]
<1>1. PICK l \in Object \X ObjectType : \/ Watched([Y(l) EXCEPT !.text = SelectedLabel(Y(l))])
                                      \/ Watched([X(l) EXCEPT !.view = Null])
  BY DEF ObjectAnswered
<1> DEFINE x == X(l)
           y == Y(l)
<1>2. /\ DOMAIN x = ObjectFields /\ x.type = object.type /\ x.text = object.text /\ x.page = object.page
      /\ x.chosen = object.chosen /\ x.searching = object.searching /\ x.stray = object.stray /\ x.results = object.results
  BY DEF ObjectInv, ObjectOk, ObjectBut, ObjectFields
<1>3. y = [x EXCEPT !.view = [of |-> l[1], type |-> l[2]], !.results = {}, !.stray = FALSE,
                    !.raced = (l[1] # x.chosen), !.crossed = (l[2] # x.type)]
  OBVIOUS
<1>4. Watched([y EXCEPT !.text = SelectedLabel(y)]) \/ Watched([x EXCEPT !.view = Null])
  BY <1>1
<1> HIDE DEF x, y
<1>5. /\ DOMAIN y = ObjectFields /\ y.view = [of |-> l[1], type |-> l[2]] /\ y.type = x.type /\ y.page = x.page
      /\ y.results = {} /\ y.raced = (l[1] # y.chosen) /\ y.crossed = (l[2] # y.type)
  BY <1>2, <1>3 DEF ObjectFields
<1>6. CASE Watched([y EXCEPT !.text = SelectedLabel(y)])
  <2> DEFINE z == [y EXCEPT !.text = SelectedLabel(y)]
  <2>1. /\ DOMAIN z = ObjectFields /\ z.view = y.view /\ z.type = y.type /\ z.page = y.page /\ z.results = {}
        /\ z.raced = y.raced /\ z.chosen = y.chosen /\ z.crossed = y.crossed /\ z.text = SelectedLabel(y)
    BY <1>5 DEF ObjectFields
  <2>2. Watched(z)
    BY <1>6
  <2> HIDE DEF z
  <2>3. SelectedLabel(z) = SelectedLabel(y)
    BY <2>1 DEF SelectedLabel
  <2>4. ViewIs(z)
    <3>1. z.view.of = l[1] /\ z.view.type = l[2] /\ l[1] \in Object
      BY <1>1, <1>5, <2>1
    <3>2. (~z.raced => l[1] = z.chosen) /\ (~z.crossed => l[2] = z.type)
      BY <1>5, <2>1
    <3> QED
      BY <3>1, <3>2 DEF ViewIs
  <2>5. Labelled(z) /\ ResultsOk(z)
    BY <2>1, <2>3 DEF Labelled, ResultsOk
  <2> QED
    BY <1>2, <1>5, <2>1, <2>2, <2>4, <2>5, WatchersKeep
<1>7. CASE Watched([x EXCEPT !.view = Null])
  <2> DEFINE z == [x EXCEPT !.view = Null]
  <2>1. /\ DOMAIN z = ObjectFields /\ z.view = Null /\ z.type = x.type /\ z.text = x.text /\ z.results = x.results
        /\ z.searching = x.searching /\ z.stray = x.stray
    BY <1>2 DEF ObjectFields
  <2>2. Watched(z)
    BY <1>7
  <2> HIDE DEF z
  <2>3. Labelled(z) /\ ResultsOk(z)
    BY <1>2, <2>1 DEF Labelled, ResultsOk, ObjectInv, ObjectOk, ObjectBut
  <2> QED
    BY <2>1, <2>2, <2>3, WatchersKeep
<1> QED
  BY <1>4, <1>6, <1>7

LEMMA ObjectCleared ==
  ASSUME ConsoleAssumption, StoreOk, ObjectInv, UNCHANGED <<plan, store>>, ChangeType \/ ClearObjectSelection
  PROVE  ObjectInv'
<1> DEFINE r == ResetSearch(object)
<1>1. PICK type : Watched([r EXCEPT !.type = type, !.text = Short, !.view = Null, !.page = 1])
  <2>1. DOMAIN r = ObjectFields /\ [r EXCEPT !.type = object.type, !.text = Short, !.view = Null, !.page = 1]
                                   = [r EXCEPT !.text = Short, !.view = Null, !.page = 1]
    BY DEF ResetSearch, ObjectInv, ObjectOk, ObjectBut, ObjectFields
  <2> QED
    BY <2>1 DEF ChangeType, ClearObjectSelection
<1> DEFINE x == [r EXCEPT !.type = type, !.text = Short, !.view = Null, !.page = 1]
<1>2. DOMAIN x = ObjectFields /\ x.view = Null /\ x.results = {}
  BY DEF ResetSearch, ObjectInv, ObjectOk, ObjectBut, ObjectFields
<1>3. Watched(x)
  BY <1>1
<1> HIDE DEF x
<1>4. Labelled(x) /\ ResultsOk(x)
  BY <1>2 DEF Labelled, ResultsOk
<1> QED
  BY <1>2, <1>3, <1>4, WatchersKeep

LEMMA TurnTimelineOk ==
  ASSUME ObjectInv, TurnTimeline
  PROVE  ObjectInv'
<1>1. PICK page \in 1 .. PageCount(plan.items[object.view.of]) : object' = [object EXCEPT !.page = page]
  BY DEF TurnTimeline
<1> DEFINE x == [object EXCEPT !.page = page]
<1>2. /\ DOMAIN x = ObjectFields /\ x.view = object.view /\ x.raced = object.raced /\ x.chosen = object.chosen
      /\ x.crossed = object.crossed /\ x.type = object.type /\ x.page = page /\ x.text = object.text
      /\ x.searching = object.searching /\ x.stray = object.stray /\ x.results = object.results
  BY DEF ObjectFields, ObjectInv, ObjectOk, ObjectBut
<1>3. object' = x /\ UNCHANGED plan
  BY <1>1 DEF TurnTimeline
<1> HIDE DEF x
<1>4. ObjectBut(x) /\ PageIs(x)
  BY <1>2, ObjectSame DEF PageIs, ObjectInv, ObjectOk
<1> QED
  BY <1>3, <1>4, ObjectBecomes DEF ObjectOk

LEMMA ObjectInvAgrees ==
  ASSUME ObjectInv
  PROVE  ObjectAgrees
  BY DEF ObjectInv, ObjectOk, ObjectBut, ViewIs, PageIs, Labelled, ResultsOk, ObjectAgrees

----------------------------------------------------------------------------
(* All of them.                                                             *)

ConsoleInv == StoreOk /\ ListInv /\ DetailInv /\ ObjectInv

LEMMA ListStays ==
  ASSUME ListInv, UNCHANGED <<plan, list>>, store'.rows = store.rows
  PROVE  ListInv'
  BY DEF ListInv, ListOk, IsPage, CallOk

LEMMA WatchedLeaves ==
  ASSUME NEW x, Watched(x)
  PROVE  UNCHANGED <<plan, store, list, detail>>
  BY DEF Watched

LEMMA ConsoleStep ==
  ASSUME ConsoleAssumption, ConsoleInv, [ConsoleNext]_consoleVars
  PROVE  ConsoleInv'
<1> USE DEF ConsoleInv
<1>1. ASSUME UNCHANGED <<plan, store>> PROVE StoreOk'
  BY <1>1 DEF StoreOk
<1>2. CASE UNCHANGED consoleVars
  <2>1. UNCHANGED <<plan, store, list, detail, object>> /\ store'.rows = store.rows
    BY <1>2 DEF consoleVars
  <2>2. DetailInv'
    BY <2>1 DEF DetailInv
  <2> QED
    BY <1>1, <2>1, <2>2, ListStays, ObjectStays
<1>3. CASE WriteRow
  <2>1. UNCHANGED <<plan, detail, object>> /\ store'.request = store.request
    BY <1>3 DEF WriteRow, StoreOk
  <2>2. DetailInv'
    BY <2>1 DEF DetailInv
  <2> QED
    BY <1>3, <2>1, <2>2, ListGrows, ObjectStays
<1>4. CASE \/ TurnPage \/ EditFilter \/ ApplyFilters \/ ClearFilters \/ Refresh \/ PollNow \/ PollAnswered
          \/ \E n \in DOMAIN list.calls :
               CountRows(n) \/ ReadRows(n) \/ ReadLog(n) \/ ReadRequests(n) \/ FailList(n) \/ ListAnswered(n)
  <2>1. UNCHANGED <<plan, store, detail, object>>
    BY <1>4 DEF TurnPage, EditFilter, ApplyFilters, ClearFilters, Refresh, PollNow, PollAnswered, LoadWith, CountRows,
                ReadRows, ReadLog, ReadRequests, FailList, ListAnswered
  <2>2. DetailInv'
    BY <2>1 DEF DetailInv
  <2>3. ListInv'
    BY <1>4, ListLoads, CallReads, ListTakes
  <2> QED
    BY <1>1, <2>1, <2>2, <2>3, ObjectStays
<1>5. CASE Advance \/ Accept
  <2>1. UNCHANGED <<plan, list, object>>
    BY <1>5 DEF Advance, Accept
  <2>2. StoreOk' /\ DetailInv' /\ store'.rows = store.rows
    BY <1>5, AdvanceOk, AcceptOk
  <2> QED
    BY <2>1, <2>2, ListStays, ObjectStays
<1>6. CASE \/ Decide \/ RetryExecution \/ FailPost \/ PostAnswered
          \/ \E n \in DOMAIN detail.loads : ReadPart(n) \/ DetailAnswered(n) \/ TimelineAnswered(n) \/ FailLoad(n)
  <2>1. UNCHANGED <<plan, store, list, object>>
    BY <1>6 DEF Decide, RetryExecution, Post, FailPost, PostAnswered, ReadPart, DetailAnswered, TimelineAnswered, FailLoad
  <2>2. DetailInv'
    BY <1>6, PostOk, FailPostOk, PostAnsweredOk, ReadPartOk, DetailAnsweredOk, LoadEnds
  <2> QED
    BY <1>1, <2>1, <2>2, ListStays, ObjectStays
<1>7. CASE \/ TypeText \/ StartSearch \/ SearchAnswered \/ SelectObject \/ BlurObject \/ ObjectAnswered
          \/ ChangeType \/ ClearObjectSelection \/ TurnTimeline
  <2>1. UNCHANGED <<plan, store, list, detail>>
    <3>1. CASE TypeText \/ SelectObject \/ BlurObject
      BY <3>1, WatchedLeaves DEF TypeText, SelectObject, BlurObject
    <3>2. CASE ObjectAnswered
      BY <3>2, WatchedLeaves DEF ObjectAnswered
    <3>3. CASE ChangeType \/ ClearObjectSelection
      BY <3>3, WatchedLeaves DEF ChangeType, ClearObjectSelection
    <3>4. CASE StartSearch \/ SearchAnswered \/ TurnTimeline
      BY <3>4 DEF StartSearch, SearchAnswered, TurnTimeline
    <3> QED
      BY <1>7, <3>1, <3>2, <3>3, <3>4
  <2>2. DetailInv'
    BY <2>1 DEF DetailInv
  <2>3. ObjectInv'
    BY <1>7, <2>1, TypeTextOk, StartSearchOk, SearchAnsweredOk, SelectObjectOk, BlurObjectOk, ObjectAnsweredOk,
       ObjectCleared, TurnTimelineOk
  <2> QED
    BY <1>1, <2>1, <2>2, <2>3, ListStays
<1> QED
  BY <1>2, <1>3, <1>4, <1>5, <1>6, <1>7 DEF ConsoleNext

\* Whatever is written while it is read, and in whatever order the answers come, the
\* pages show what was: a list a page of the rows as they were, without a gap and
\* under its own number; a request never as undecided once its user has decided it,
\* with a timeline that is not older; and an object under its own label, with what
\* was found for the text and the kind that are there.
THEOREM ConsoleShowsWhatIs == ConsoleSpec => []ConsoleAgrees
<1>1. ConsoleInit => ConsoleInv
  BY PlansAssumption, ListInit, DetailInit, ObjectInit DEF ConsoleInv
<1>2. ConsoleInv /\ [ConsoleNext]_consoleVars => ConsoleInv'
  BY PlansAssumption, ConsoleStep
<1>3. ConsoleInv => ConsoleAgrees
  BY PlansAssumption, ListInvAgrees, DetailInvAgrees, ObjectInvAgrees DEF ConsoleInv, ConsoleAgrees
<1> QED
  BY <1>1, <1>2, <1>3, PTL DEF ConsoleSpec
=============================================================================
