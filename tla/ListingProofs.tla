--------------------------- MODULE ListingProofs ---------------------------
(***************************************************************************)
(* Proofs about Listing, for any finite set of rows, any orders of them,   *)
(* any page sizes and any number of insertions, updates and deletions.     *)
(* (RangeIsOfResponse is not a theorem: the run list_cut refutes it.)      *)
(***************************************************************************)
EXTENDS Listing, FiniteSetTheorems, TLAPS

(* How many rows of T come before x in the order o. *)
Rank(o, T, x) == Cardinality({y \in T : o[y] < o[x]})

Distinct(o) == \A x, y \in Rows : o[x] = o[y] => x = y

(* The order of the request. *)
order == place[request.column]

(* What the offset is of the first row the walk has not come to. *)
Reached == IF pc = "shown" THEN request.offset + perPage ELSE request.offset

(* The pages of a walk join: each begins where the one before it ended. *)
PagesJoin ==
  page > 0 =>
    /\ perPage > 0
    /\ request.limit = Smaller(perPage, MaxLimit)
    /\ request.offset = (page - 1) * perPage

(* While nothing changed, COUNT's answer is the table's size, and a page    *)
(* that was not cut is as long as limit and offset allow.                   *)
CountHolds == pc \in {"select", "shown"} /\ quiet => total = Cardinality(table)

PageIsFull ==
  pc = "shown" /\ quiet /\ ~cut =>
    Cardinality(rows) = Smaller(request.limit, total - Smaller(request.offset, total))

(* A row the walk has passed was shown, if it was there throughout and none *)
(* moved. *)
PassedWasShown ==
  page > 0 /\ ~deleted /\ moves = 0 /\ ~cut /\ Unique(request.column) /\ perPage <= MaxLimit =>
    \A x \in start : Rank(order, table, x) < Reached => seen[x] > 0

(* A row shown once more than insertions and moves account for is one the   *)
(* walk passed. *)
RepeatsAccounted ==
  page > 0 /\ Unique(request.column) =>
    \A x \in Rows :
      \/ seen[x] <= inserts + moves
      \/ /\ seen[x] = inserts + moves + 1
         /\ x \in table => Rank(order, table, x) < Reached

WalkInv ==
  /\ TypeOK
  /\ PagesJoin
  /\ CountHolds
  /\ PageIsFull
  /\ PassedWasShown
  /\ RepeatsAccounted

IInv == WalkInv /\ Unique("email")

-----------------------------------------------------------------------------
(* Ranks and initial segments of an order *)

(* A row's rank is below the table's size, and no smaller in a larger table. *)
LEMMA RankIsPlace ==
  ASSUME ListingAssumption, NEW o \in [Rows -> Nat], NEW T \in SUBSET Rows, NEW x \in T
  PROVE  Rank(o, T, x) \in Nat /\ Rank(o, T, x) < Cardinality(T)
<1>. DEFINE before == {y \in T : o[y] < o[x]}
<1>1. IsFiniteSet(T)
  BY FS_Subset DEF ListingAssumption
<1>2. o[x] \in Nat
  OBVIOUS
<1>3. before \subseteq T \ {x}
  BY <1>2
<1>4. /\ IsFiniteSet(T \ {x}) /\ Cardinality(T \ {x}) = Cardinality(T) - 1
      /\ Cardinality(T) \in Nat
  BY <1>1, FS_RemoveElement, FS_CardinalityType
<1>5. IsFiniteSet(before) /\ Cardinality(before) <= Cardinality(T \ {x})
  BY <1>3, <1>4, FS_Subset
<1>6. Cardinality(before) \in Nat
  BY <1>5, FS_CardinalityType
<1>. QED  BY <1>4, <1>5, <1>6 DEF Rank

LEMMA RankGrows ==
  ASSUME ListingAssumption, NEW o \in [Rows -> Nat], NEW U \in SUBSET Rows, NEW T \in SUBSET U,
         NEW x \in Rows
  PROVE  /\ Rank(o, T, x) \in Nat /\ Rank(o, U, x) \in Nat
         /\ Rank(o, T, x) <= Rank(o, U, x)
<1>. DEFINE small == {y \in T : o[y] < o[x]}
            large == {y \in U : o[y] < o[x]}
<1>1. IsFiniteSet(U)
  BY FS_Subset DEF ListingAssumption
<1>2. IsFiniteSet(large)
  BY <1>1, FS_Subset
<1>3. small \in SUBSET large
  OBVIOUS
<1>4. IsFiniteSet(small) /\ Cardinality(small) <= Cardinality(large)
  BY <1>2, <1>3, FS_Subset
<1>. QED  BY <1>2, <1>4, FS_CardinalityType DEF Rank

(* Without ties, the ranks of an initial segment are those below its size.  *)
LEMMA SegmentIsRanks ==
  ASSUME ListingAssumption, NEW o \in [Rows -> Nat], Distinct(o), NEW T \in SUBSET Rows,
         NEW S \in SUBSET T,
         \A x \in T, y \in S : o[x] < o[y] => x \in S,
         NEW x \in T
  PROVE  /\ x \in S => Rank(o, T, x) < Cardinality(S)
         /\ x \notin S => Cardinality(S) <= Rank(o, T, x)
<1>. DEFINE before == {y \in T : o[y] < o[x]}
<1>1. IsFiniteSet(T) /\ IsFiniteSet(S) /\ IsFiniteSet(before)
  BY FS_Subset DEF ListingAssumption
<1>2. \A y \in T : o[y] \in Nat
  BY DEF ListingAssumption
<1>3. ASSUME x \in S PROVE Rank(o, T, x) < Cardinality(S)
  <2>1. before \in SUBSET (S \ {x})
    BY <1>2, <1>3
  <2>2. /\ IsFiniteSet(S \ {x}) /\ Cardinality(S \ {x}) = Cardinality(S) - 1
        /\ Cardinality(S) \in Nat
    BY <1>1, <1>3, FS_RemoveElement, FS_CardinalityType
  <2>3. Cardinality(before) <= Cardinality(S \ {x}) /\ Cardinality(before) \in Nat
    BY <2>1, <2>2, <1>1, FS_Subset, FS_CardinalityType
  <2>. QED  BY <2>2, <2>3 DEF Rank
<1>4. ASSUME x \notin S PROVE Cardinality(S) <= Rank(o, T, x)
  <2>1. ASSUME NEW y \in S PROVE y \in before
    <3>1. ~(o[x] < o[y]) /\ y # x
      BY <1>4
    <3>2. o[x] # o[y]
      BY <3>1 DEF Distinct
    <3>3. y \in T /\ o[x] \in Nat /\ o[y] \in Nat
      BY <1>2
    <3>4. \A m, n \in Nat : ~(m < n) /\ m # n => n < m
      OBVIOUS
    <3>5. o[y] < o[x]
      BY <3>1, <3>2, <3>3, <3>4
    <3>. QED  BY <3>3, <3>5
  <2>2. S \in SUBSET before
    BY <2>1
  <2>3. Cardinality(S) <= Cardinality(before)
    BY <1>1, <2>2, FS_Subset
  <2>. QED  BY <2>3 DEF Rank
<1>. QED  BY <1>3, <1>4

(* LIMIT OFFSET: how long a page is, and which rows it has when the order   *)
(* has no ties. *)
LEMMA PageIsRange ==
  ASSUME ListingAssumption, TypeOK, NEW P \in SUBSET table, Page(P)
  PROVE  /\ IsFiniteSet(P) /\ Cardinality(table) \in Nat
         /\ Cardinality(P) =
              Smaller(request.limit,
                      Cardinality(table) - Smaller(request.offset, Cardinality(table)))
         /\ Unique(request.column) =>
              \A x \in table :
                x \in P <=>
                  /\ request.offset <= Rank(order, table, x)
                  /\ Rank(order, table, x) < request.offset + request.limit
<1>. DEFINE off == request.offset
            lim == request.limit
            N == Cardinality(table)
<1>0. /\ order \in [Rows -> Nat] /\ off \in Nat /\ lim \in Nat /\ table \in SUBSET Rows
  BY DEF TypeOK, ListingAssumption, order
<1>1. /\ IsFiniteSet(table) /\ N \in Nat
      /\ IsFiniteSet(P) /\ Cardinality(P) \in Nat
  BY <1>0, FS_Subset, FS_CardinalityType DEF ListingAssumption
<1>2. PICK K \in SUBSET (table \ P) :
        /\ Cardinality(K) = Smaller(off, N)
        /\ Cardinality(P) = Smaller(lim, N - Cardinality(K))
        /\ Initial(K, table) /\ Initial(K \cup P, table)
  BY DEF Page
<1>d. Unique(request.column) => Distinct(order)
  BY DEF Unique, Distinct, order
<1>3. ASSUME Unique(request.column), NEW x \in table
      PROVE  x \in P <=> off <= Rank(order, table, x) /\ Rank(order, table, x) < off + lim
  <2>1. /\ x \in K => Rank(order, table, x) < Cardinality(K)
        /\ x \notin K => Cardinality(K) <= Rank(order, table, x)
    <3>1. \A u \in table, v \in K : order[u] < order[v] => u \in K
      BY <1>2 DEF Initial, Before, order
    <3>. QED  BY <1>0, <1>3, <1>d, <3>1, SegmentIsRanks
  <2>2. /\ x \in K \cup P => Rank(order, table, x) < Cardinality(K \cup P)
        /\ x \notin K \cup P => Cardinality(K \cup P) <= Rank(order, table, x)
    <3>1. \A u \in table, v \in K \cup P : order[u] < order[v] => u \in K \cup P
      BY <1>2 DEF Initial, Before, order
    <3>2. K \cup P \in SUBSET table
      BY <1>2
    <3>. QED  BY <1>0, <1>3, <1>d, <3>1, <3>2, SegmentIsRanks
  <2>3. Cardinality(K \cup P) = Cardinality(K) + Cardinality(P) /\ Cardinality(K) \in Nat
    <3>1. IsFiniteSet(K) /\ K \cap P = {}
      BY <1>1, <1>2, FS_Subset
    <3>2. /\ Cardinality(K) \in Nat /\ Cardinality(K \cap P) = 0
          /\ Cardinality(P) \in Nat
      BY <1>1, <3>1, FS_EmptySet, FS_CardinalityType
    <3>3. Cardinality(K \cup P) = Cardinality(K) + Cardinality(P) - Cardinality(K \cap P)
      BY <1>1, <3>1, FS_Union
    <3>. QED  BY <3>2, <3>3
  <2>4. Rank(order, table, x) \in Nat /\ Rank(order, table, x) < N
    BY <1>0, RankIsPlace
  <2>5. x \in P => x \notin K
    BY <1>2
  <2>. HIDE DEF off, lim, N
  <2>. QED  BY <1>0, <1>1, <1>2, <2>1, <2>2, <2>3, <2>4, <2>5 DEF Smaller
<1>. QED  BY <1>1, <1>2, <1>3

-----------------------------------------------------------------------------
(* What a request asks for *)

LEMMA ParseRange ==
  ASSUME ListingAssumption, NEW s, NEW e, Valid(s, e), s \in Int \/ s = Absent,
         e \in Int \/ e = Absent
  PROVE  Parse(s, e).offset \in Nat /\ Parse(s, e).limit \in 1..MaxLimit
<1>. USE DEF ListingAssumption
<1>1. CASE Absent \in {s, e}
  <2>1. Parse(s, e) = [offset |-> 0, limit |-> DefaultLimit]
    BY <1>1 DEF Parse
  <2>. QED  BY <2>1
<1>2. CASE Absent \notin {s, e}
  <2>1. s \in Int /\ e \in Int /\ 0 <= s /\ s < e
    BY <1>2 DEF Valid
  <2>2. Parse(s, e) = [offset |-> s, limit |-> Smaller(e - s, MaxLimit)]
    BY <1>2 DEF Parse
  <2>3. Smaller(e - s, MaxLimit) \in 1..MaxLimit
    BY <2>1 DEF Smaller
  <2>. QED  BY <2>1, <2>2, <2>3
<1>. QED  BY <1>1, <1>2

LEMMA ColumnType ==
  ASSUME ListingAssumption, NEW f \in Fields
  PROVE  Column(f) \in Columns
BY DEF ListingAssumption, Column, Columns

(* A step that leaves the walk alone and neither shows nor leaves a page.   *)
LEMMA WalkKeeps ==
  ASSUME PagesJoin, PassedWasShown, RepeatsAccounted,
         UNCHANGED <<table, place, request, walk, inserts, moves, deleted, cut>>,
         pc # "shown", pc' # "shown"
  PROVE  PagesJoin' /\ PassedWasShown' /\ RepeatsAccounted'
<1>. USE DEF walk, Reached
<1>1. PagesJoin'
  BY DEF PagesJoin
<1>2. PassedWasShown'
  BY DEF PassedWasShown, Rank, Unique, order
<1>3. RepeatsAccounted'
  BY DEF RepeatsAccounted, Rank, Unique, order
<1>. QED  BY <1>1, <1>2, <1>3

-----------------------------------------------------------------------------
(* One lemma per action *)

LEMMA FirstPageStep ==
  ASSUME ListingAssumption, WalkInv, NEW f \in Fields, NEW n \in PageSizes, FirstPage(f, n)
  PROVE  WalkInv'
<1>. USE DEF WalkInv
<1>1. n \in Nat \ {0} /\ 0 # Absent /\ n # Absent
  BY DEF ListingAssumption
<1>2. Parse(0, n) = [offset |-> 0, limit |-> Smaller(n, MaxLimit)]
  BY <1>1 DEF Parse
<1>3. /\ request' = [offset |-> 0, limit |-> Smaller(n, MaxLimit), column |-> Column(f)]
      /\ pc' = "count" /\ rows' = {} /\ total' = 0 /\ quiet' = FALSE
      /\ page' = 1 /\ perPage' = n /\ start' = table /\ seen' = [x \in Rows |-> 0]
      /\ inserts' = 0 /\ moves' = 0 /\ deleted' = FALSE /\ cut' = FALSE
      /\ list' = list /\ table' = table /\ place' = place
  BY <1>2 DEF FirstPage, Ask, data
<1>4. Smaller(n, MaxLimit) \in 1..MaxLimit /\ Column(f) \in Columns
  BY <1>1, ColumnType DEF Smaller, ListingAssumption
<1>5. TypeOK'
  <2>1. Cardinality(rows') <= request'.limit
    BY <1>3, <1>4, FS_EmptySet
  <2>2. request' \in [offset : Nat, limit : 1..MaxLimit, column : Columns]
    BY <1>3, <1>4
  <2>. QED  BY <1>1, <1>3, <2>1, <2>2 DEF TypeOK
<1>6. PagesJoin'
  BY <1>1, <1>3 DEF PagesJoin
<1>7. CountHolds' /\ PageIsFull'
  BY <1>3 DEF CountHolds, PageIsFull
<1>8. PassedWasShown'
  <2>1. Reached' = 0
    BY <1>3 DEF Reached
  <2>2. place[Column(f)] \in [Rows -> Nat] /\ order' = place[Column(f)]
    BY <1>3, <1>4 DEF TypeOK, order
  <2>3. \A x \in table : Rank(place[Column(f)], table, x) \in Nat
    BY <2>2, RankIsPlace DEF TypeOK
  <2>. QED  BY <1>3, <2>1, <2>2, <2>3 DEF PassedWasShown, Rank
<1>9. RepeatsAccounted'
  BY <1>3 DEF RepeatsAccounted
<1>. QED  BY <1>5, <1>6, <1>7, <1>8, <1>9

LEMMA QueryStep ==
  ASSUME ListingAssumption, WalkInv, NEW s \in Bounds \cup {Absent},
         NEW e \in Bounds \cup {Absent}, NEW f \in Fields, Query(s, e, f)
  PROVE  WalkInv'
<1>. USE DEF WalkInv
<1>1. /\ request' = [offset |-> Parse(s, e).offset, limit |-> Parse(s, e).limit,
                     column |-> Column(f)]
      /\ pc' = "count" /\ rows' = {} /\ total' = 0 /\ quiet' = FALSE
      /\ page' = 0 /\ perPage' = 0 /\ start' = {} /\ seen' = [x \in Rows |-> 0]
      /\ inserts' = 0 /\ moves' = 0 /\ deleted' = FALSE /\ cut' = FALSE
      /\ list' = list /\ table' = table /\ place' = place
      /\ Valid(s, e)
  BY DEF Query, Ask, data
<1>2. /\ Parse(s, e).offset \in Nat /\ Parse(s, e).limit \in 1..MaxLimit
      /\ Column(f) \in Columns
  BY <1>1, ParseRange, ColumnType DEF ListingAssumption
<1>3. TypeOK'
  <2>1. Cardinality(rows') <= request'.limit
    BY <1>1, <1>2, FS_EmptySet DEF ListingAssumption
  <2>2. request' \in [offset : Nat, limit : 1..MaxLimit, column : Columns]
    BY <1>1, <1>2
  <2>. QED  BY <1>1, <2>1, <2>2 DEF TypeOK
<1>4. PagesJoin' /\ CountHolds' /\ PageIsFull' /\ PassedWasShown' /\ RepeatsAccounted'
  BY <1>1 DEF PagesJoin, CountHolds, PageIsFull, PassedWasShown, RepeatsAccounted
<1>. QED  BY <1>3, <1>4

LEMMA NextPageStep ==
  ASSUME ListingAssumption, WalkInv, NextPage
  PROVE  WalkInv'
<1>. USE DEF WalkInv
<1>. DEFINE s == page * perPage
            e == (page + 1) * perPage
<1>1. /\ page \in Nat \ {0} /\ perPage \in Nat \ {0} /\ request.column \in Columns
      /\ request.offset \in Nat /\ request.limit = Smaller(perPage, MaxLimit)
      /\ request.offset = (page - 1) * perPage
      /\ pc = "shown"
  BY DEF TypeOK, PagesJoin, NextPage
<1>2. s \in Nat /\ e - s = perPage /\ s = request.offset + perPage /\ e \in Nat
  BY <1>1
<1>3. Parse(s, e) = [offset |-> s, limit |-> Smaller(perPage, MaxLimit)]
  BY <1>2 DEF Parse, ListingAssumption
<1>4. /\ request' = [offset |-> s, limit |-> Smaller(perPage, MaxLimit),
                     column |-> request.column]
      /\ pc' = "count" /\ rows' = {} /\ total' = 0 /\ quiet' = FALSE
      /\ page' = page + 1
      /\ list' = list /\ table' = table /\ place' = place
      /\ perPage' = perPage /\ start' = start /\ seen' = seen
      /\ inserts' = inserts /\ moves' = moves /\ deleted' = deleted /\ cut' = cut
  BY <1>3 DEF NextPage, Ask, data
<1>5. Smaller(perPage, MaxLimit) \in 1..MaxLimit
  BY <1>1 DEF Smaller, ListingAssumption
<1>6. Reached' = Reached /\ request'.column = request.column /\ page > 0
  BY <1>1, <1>2, <1>4 DEF Reached
<1>. HIDE DEF s, e
<1>7. TypeOK'
  <2>1. Cardinality(rows') <= request'.limit
    BY <1>4, <1>5, FS_EmptySet DEF ListingAssumption
  <2>2. request' \in [offset : Nat, limit : 1..MaxLimit, column : Columns]
    BY <1>1, <1>2, <1>4, <1>5
  <2>3. /\ deleted' \in BOOLEAN /\ quiet' \in BOOLEAN
        /\ cut' \in BOOLEAN /\ (cut' => list' # "accounts")
    BY <1>4 DEF TypeOK
  <2>4. rows' \subseteq Rows /\ total' \in Nat /\ page' \in Nat /\ perPage' \in Nat
    BY <1>1, <1>4
  <2>. QED  BY <1>4, <2>1, <2>2, <2>3, <2>4 DEF TypeOK
<1>8. PagesJoin'
  <2>1. s = (page' - 1) * perPage
    BY <1>1, <1>4 DEF s
  <2>. QED  BY <1>1, <1>4, <2>1 DEF PagesJoin
<1>9. CountHolds' /\ PageIsFull'
  BY <1>4 DEF CountHolds, PageIsFull
<1>10. PassedWasShown'
  BY <1>1, <1>4, <1>6 DEF PassedWasShown, Rank, Unique, order
<1>11. RepeatsAccounted'
  BY <1>1, <1>4, <1>6 DEF RepeatsAccounted, Rank, Unique, order
<1>. QED  BY <1>7, <1>8, <1>9, <1>10, <1>11

(* Retry, COUNT, and the statements that fail leave the walk where it is.   *)
LEMMA WaitingStep ==
  ASSUME ListingAssumption, WalkInv, Retry \/ Count \/ CountFails \/ SelectFails
  PROVE  WalkInv'
<1>. USE DEF WalkInv
<1>1. /\ UNCHANGED <<table, place, request, walk, inserts, moves, deleted, cut>>
      /\ UNCHANGED <<list, rows>>
      /\ pc # "shown" /\ pc' \in {"count", "select", "failed"}
  BY DEF Retry, Count, CountFails, SelectFails, changes, data
<1>2. PagesJoin' /\ PassedWasShown' /\ RepeatsAccounted'
  BY <1>1, WalkKeeps
<1>3. PageIsFull'
  BY <1>1 DEF PageIsFull
<1>4. total' \in Nat /\ quiet' \in BOOLEAN
  <2>1. Cardinality(table) \in Nat
    BY FS_Subset, FS_CardinalityType DEF TypeOK, ListingAssumption
  <2>2. CASE Retry \/ CountFails
    BY <2>2 DEF Retry, CountFails, changes, TypeOK
  <2>3. CASE Count
    BY <2>1, <2>3 DEF Count
  <2>4. CASE SelectFails
    BY <2>4 DEF SelectFails
  <2>. QED  BY <2>2, <2>3, <2>4
<1>5. CountHolds'
  BY DEF CountHolds, Retry, Count, CountFails, SelectFails, data
<1>6. TypeOK'
  <2>1. /\ list' = list /\ table' = table /\ place' = place
        /\ request' = request /\ rows' = rows
        /\ page' = page /\ perPage' = perPage /\ start' = start /\ seen' = seen
        /\ inserts' = inserts /\ moves' = moves /\ deleted' = deleted /\ cut' = cut
    BY <1>1 DEF walk
  <2>. QED  BY <1>1, <1>4, <2>1 DEF TypeOK
<1>. QED  BY <1>2, <1>3, <1>5, <1>6

LEMMA InsertStep ==
  ASSUME ListingAssumption, WalkInv, NEW x \in Rows, Insert(x)
  PROVE  WalkInv'
<1>. USE DEF WalkInv
<1>1. /\ table' = table \cup {x} /\ table' \in SUBSET Rows /\ table \in SUBSET table'
      /\ inserts' = inserts + 1 /\ quiet' = FALSE
      /\ list' = list /\ pc' = pc /\ request' = request /\ total' = total /\ rows' = rows
      /\ page' = page /\ perPage' = perPage /\ start' = start /\ seen' = seen
      /\ place' = place /\ moves' = moves /\ deleted' = deleted /\ cut' = cut
  BY DEF Insert, walk, TypeOK
<1>2. TypeOK'
  <2>1. start' \subseteq table' /\ inserts' \in Nat
    BY <1>1 DEF TypeOK
  <2>2. /\ deleted' \in BOOLEAN /\ quiet' \in BOOLEAN
        /\ cut' \in BOOLEAN /\ (cut' => list' # "accounts")
    BY <1>1 DEF TypeOK
  <2>. QED  BY <1>1, <2>1, <2>2 DEF TypeOK
<1>3. PagesJoin' /\ CountHolds' /\ PageIsFull'
  BY <1>1 DEF PagesJoin, CountHolds, PageIsFull
<1>4. /\ order \in [Rows -> Nat] /\ order' = order
      /\ Reached' = Reached /\ Reached \in Nat
  BY <1>1 DEF TypeOK, Reached, order
<1>5. PassedWasShown'
  <2>. SUFFICES ASSUME page > 0, ~deleted, moves = 0, ~cut,
                       Unique(request.column), perPage <= MaxLimit,
                       NEW y \in start, Rank(order, table', y) < Reached
                PROVE  seen[y] > 0
    BY <1>1, <1>4 DEF PassedWasShown, Unique, Rank
  <2>1. y \in Rows
    BY DEF TypeOK
  <2>2. /\ Rank(order, table, y) \in Nat /\ Rank(order, table', y) \in Nat
        /\ Rank(order, table, y) <= Rank(order, table', y)
    BY <1>1, <1>4, <2>1, RankGrows
  <2>3. Rank(order, table, y) < Reached
    BY <1>4, <2>2
  <2>. QED  BY <2>3 DEF PassedWasShown
<1>6. RepeatsAccounted'
  <2>. SUFFICES ASSUME page > 0, Unique(request.column), NEW y \in Rows
                PROVE  seen[y] <= inserts + 1 + moves
    BY <1>1 DEF RepeatsAccounted, Unique
  <2>1. seen[y] <= inserts + moves \/ seen[y] = inserts + moves + 1
    BY DEF RepeatsAccounted
  <2>2. seen[y] \in Nat /\ inserts \in Nat /\ moves \in Nat
    BY DEF TypeOK
  <2>. QED  BY <2>1, <2>2
<1>. QED  BY <1>2, <1>3, <1>5, <1>6

LEMMA DeleteStep ==
  ASSUME ListingAssumption, WalkInv, NEW x \in Rows, Delete(x)
  PROVE  WalkInv'
<1>. USE DEF WalkInv
<1>1. /\ table' = table \ {x} /\ table \in SUBSET Rows /\ table' \in SUBSET table
      /\ start' = start \ {x}
      /\ inserts' = inserts /\ quiet' = FALSE /\ deleted' = TRUE
      /\ list' = list /\ pc' = pc /\ request' = request /\ total' = total /\ rows' = rows
      /\ page' = page /\ perPage' = perPage /\ seen' = seen /\ cut' = cut
      /\ place' = place /\ moves' = moves
  BY DEF Delete, TypeOK
<1>2. TypeOK'
  BY <1>1 DEF TypeOK
<1>3. PagesJoin' /\ CountHolds' /\ PageIsFull' /\ PassedWasShown'
  BY <1>1 DEF PagesJoin, CountHolds, PageIsFull, PassedWasShown
<1>4. /\ order \in [Rows -> Nat] /\ order' = order
      /\ Reached' = Reached /\ Reached \in Nat
  BY <1>1 DEF TypeOK, Reached, order
<1>5. RepeatsAccounted'
  <2>. SUFFICES ASSUME page > 0, Unique(request.column), NEW y \in Rows
                PROVE  \/ seen[y] <= inserts + moves
                       \/ /\ seen[y] = inserts + moves + 1
                          /\ y \in table' => Rank(order, table', y) < Reached
    BY <1>1, <1>4 DEF RepeatsAccounted, Unique
  <2>1. /\ Rank(order, table', y) \in Nat /\ Rank(order, table, y) \in Nat
        /\ Rank(order, table', y) <= Rank(order, table, y)
    BY <1>1, <1>4, RankGrows
  <2>2. y \in table' => y \in table
    BY <1>1
  <2>. QED  BY <1>4, <2>1, <2>2 DEF RepeatsAccounted
<1>. QED  BY <1>2, <1>3, <1>5

(* Only updates change an order, and none makes two emails equal.           *)
LEMMA EmailsStayUnique ==
  ASSUME ListingAssumption, TypeOK, Unique("email"), [Next]_vars
  PROVE  Unique("email")'
<1>1. ASSUME NEW x \in Rows, NEW c \in Fields, NEW n \in Places, Update(x, c, n)
      PROVE  Unique("email")'
  <2>1. place' = [place EXCEPT ![c][x] = n] /\ c \in Columns /\ "email" \in Columns
    BY <1>1 DEF Update, ListingAssumption, Columns
  <2>2. CASE c = "email"
    <3>1. \A y \in Rows : place["email"][y] # n
      BY <1>1, <2>2 DEF Update
    <3>2. \A y \in Rows : place'["email"][y] = IF y = x THEN n ELSE place["email"][y]
      BY <2>1, <2>2 DEF TypeOK
    <3>. QED  BY <3>1, <3>2 DEF Unique
  <2>3. CASE c # "email"
    <3>1. place'["email"] = place["email"]
      BY <2>1, <2>3 DEF TypeOK
    <3>. QED  BY <3>1 DEF Unique
  <2>. QED  BY <2>2, <2>3
<1>2. CASE place' = place
  BY <1>2 DEF Unique
<1>3. ASSUME NEW x \in Rows, Insert(x) \/ Delete(x) PROVE place' = place
  BY <1>3 DEF Insert, Delete
<1>4. ASSUME NEW f \in Fields, NEW n \in PageSizes, FirstPage(f, n) PROVE place' = place
  BY <1>4 DEF FirstPage, data
<1>5. ASSUME NEW s, NEW e, NEW f, Query(s, e, f) PROVE place' = place
  BY <1>5 DEF Query, data
<1>6. ASSUME NextPage \/ Retry \/ Count \/ CountFails \/ SelectFails PROVE place' = place
  BY <1>6 DEF NextPage, Retry, Count, CountFails, SelectFails, data
<1>7. ASSUME Select \/ SelectCut PROVE place' = place
  BY <1>7 DEF Select, SelectCut, Answer, data
<1>8. ASSUME UNCHANGED vars PROVE place' = place
  BY <1>8 DEF vars, data
<1>. QED  BY <1>1, <1>2, <1>3, <1>4, <1>5, <1>6, <1>7, <1>8 DEF Next

(* An update does not make ties between rows that had none, nor remove any  *)
(* from a column for which Unique holds afterwards.                         *)
LEMMA UpdateKeepsUnique ==
  ASSUME ListingAssumption, TypeOK, Unique("email"),
         NEW x \in Rows, NEW c \in Fields, NEW n \in Places, Update(x, c, n)
  PROVE  Unique(request.column)' => Unique(request.column)
<1>1. /\ place' = [place EXCEPT ![c][x] = n] /\ request' = request
      /\ c \in {"email", "role", "active"} /\ request.column \in Columns /\ c \in Columns
  BY DEF Update, Updated, TypeOK, ListingAssumption
<1>2. CASE c = request.column
  BY <1>1, <1>2 DEF Unique
<1>3. CASE c # request.column
  <2>1. place'[request.column] = place[request.column]
    BY <1>1, <1>3 DEF TypeOK
  <2>. QED  BY <1>1, <2>1 DEF Unique
<1>. QED  BY <1>2, <1>3

(* An update of a listed row in the walk's column accounts for a repetition *)
(* of any row; any other update leaves that column's order of the list.     *)
LEMMA UpdateStep ==
  ASSUME ListingAssumption, WalkInv, Unique("email"),
         NEW x \in Rows, NEW c \in Fields, NEW n \in Places, Update(x, c, n)
  PROVE  WalkInv'
<1>. USE DEF WalkInv
<1>1. /\ place' = [place EXCEPT ![c][x] = n] /\ place' \in [Columns -> [Rows -> Nat]]
      /\ table' = table /\ list' = list /\ pc' = pc /\ request' = request
      /\ total' = total /\ rows' = rows
      /\ page' = page /\ perPage' = perPage /\ start' = start /\ seen' = seen
      /\ inserts' = inserts /\ deleted' = deleted /\ quiet' = quiet /\ cut' = cut
      /\ moves' = IF x \in table /\ c = request.column THEN moves + 1 ELSE moves
  BY DEF Update, walk, TypeOK, ListingAssumption
<1>2. TypeOK'
  <2>1. moves' \in Nat
    BY <1>1 DEF TypeOK
  <2>. QED  BY <1>1, <2>1 DEF TypeOK
<1>3. PagesJoin' /\ CountHolds' /\ PageIsFull'
  BY <1>1 DEF PagesJoin, CountHolds, PageIsFull
<1>4. Reached' = Reached
  BY <1>1 DEF Reached
<1>5. CASE x \in table /\ c = request.column
  <2>1. moves' = moves + 1 /\ moves \in Nat /\ inserts \in Nat
    BY <1>1, <1>5 DEF TypeOK
  <2>2. PassedWasShown'
    BY <2>1 DEF PassedWasShown
  <2>3. RepeatsAccounted'
    <3>. SUFFICES ASSUME page > 0, Unique(request.column)', NEW y \in Rows
                  PROVE  seen[y] <= inserts + moves + 1
      BY <1>1, <2>1 DEF RepeatsAccounted
    <3>1. Unique(request.column)
      BY <1>1, <1>5, UpdateKeepsUnique
    <3>2. seen[y] <= inserts + moves \/ seen[y] = inserts + moves + 1
      BY <3>1 DEF RepeatsAccounted
    <3>3. seen[y] \in Nat
      BY DEF TypeOK
    <3>. QED  BY <2>1, <3>2, <3>3
  <2>. QED  BY <1>2, <1>3, <2>2, <2>3
<1>6. CASE ~(x \in table /\ c = request.column)
  <2>1. \A y \in table : order'[y] = order[y]
    BY <1>1, <1>6 DEF TypeOK, order
  <2>2. \A y \in table : Rank(order', table, y) = Rank(order, table, y)
    <3>. SUFFICES ASSUME NEW y \in table
                  PROVE  {z \in table : order'[z] < order'[y]} = {z \in table : order[z] < order[y]}
      BY DEF Rank
    <3>. QED  BY <2>1
  <2>3. Unique(request.column)' => Unique(request.column)
    BY <1>1, UpdateKeepsUnique
  <2>4. moves' = moves /\ start \in SUBSET table
    BY <1>1, <1>6 DEF TypeOK
  <2>5. PassedWasShown'
    BY <1>1, <1>4, <2>2, <2>3, <2>4 DEF PassedWasShown
  <2>6. RepeatsAccounted'
    BY <1>1, <1>4, <2>2, <2>3, <2>4 DEF RepeatsAccounted
  <2>. QED  BY <1>2, <1>3, <2>5, <2>6
<1>. QED  BY <1>5, <1>6

(* The statement's answer, whole or cut short. *)
LEMMA AnswerStep ==
  ASSUME ListingAssumption, WalkInv, pc = "select", NEW P \in SUBSET table, Page(P),
         NEW R \in SUBSET P, Answer(R),
         (R = P /\ cut' = cut) \/ (cut' = TRUE /\ list # "accounts")
  PROVE  WalkInv'
<1>. USE DEF WalkInv
<1>. DEFINE N == Cardinality(table)
            lim == request.limit
            off == request.offset
            rank(x) == Rank(order, table, x)
<1>1. /\ pc' = "shown" /\ rows' = R
      /\ seen' = [x \in Rows |-> IF page > 0 /\ x \in R THEN seen[x] + 1 ELSE seen[x]]
      /\ list' = list /\ table' = table /\ place' = place /\ order' = order
      /\ request' = request /\ total' = total
      /\ page' = page /\ perPage' = perPage /\ start' = start /\ inserts' = inserts
      /\ moves' = moves /\ deleted' = deleted /\ quiet' = quiet
  BY DEF Answer, data, order
<1>2. /\ IsFiniteSet(P) /\ N \in Nat /\ Cardinality(P) = Smaller(lim, N - Smaller(off, N))
      /\ Unique(request.column) =>
           \A x \in table : x \in P <=> off <= rank(x) /\ rank(x) < off + lim
  BY PageIsRange
<1>3. lim \in Nat /\ off \in Nat /\ order \in [Rows -> Nat] /\ perPage \in Nat
  BY DEF TypeOK, order
<1>4. \A x \in table : rank(x) \in Nat
  BY <1>3, RankIsPlace DEF TypeOK
<1>5. Reached = off /\ Reached' = off + perPage
  BY <1>1 DEF Reached
<1>6. page > 0 => lim <= perPage /\ (perPage <= MaxLimit => lim = perPage)
  <2>1. page > 0 => lim = Smaller(perPage, MaxLimit)
    BY DEF PagesJoin
  <2>2. \A m, n \in Nat : Smaller(m, n) <= m /\ (m <= n => Smaller(m, n) = m)
    BY DEF Smaller
  <2>. QED  BY <1>3, <2>1, <2>2 DEF ListingAssumption
<1>7. TypeOK'
  <2>1. Cardinality(R) <= Cardinality(P) /\ Cardinality(R) \in Nat /\ Cardinality(P) \in Nat
    BY <1>2, FS_Subset, FS_CardinalityType
  <2>2. Cardinality(P) <= lim
    BY <1>2, <1>3, <2>1 DEF Smaller
  <2>3. Cardinality(rows') <= request'.limit /\ rows' \subseteq Rows
    BY <1>1, <1>3, <2>1, <2>2 DEF TypeOK
  <2>4. seen' \in [Rows -> Nat]
    BY <1>1 DEF TypeOK
  <2>5. deleted' \in BOOLEAN /\ quiet' \in BOOLEAN
    BY <1>1 DEF TypeOK
  <2>6. cut' \in BOOLEAN /\ (cut' => list' # "accounts")
    <3>1. CASE cut' = cut
      BY <1>1, <3>1 DEF TypeOK
    <3>2. CASE cut' = TRUE /\ list # "accounts"
      BY <1>1, <3>2
    <3>. QED  BY <3>1, <3>2
  <2>. QED  BY <1>1, <2>3, <2>4, <2>5, <2>6 DEF TypeOK
<1>8. PagesJoin' /\ CountHolds'
  BY <1>1 DEF PagesJoin, CountHolds
<1>9. PageIsFull'
  <2>. SUFFICES ASSUME quiet, ~cut'
                PROVE  Cardinality(R) = Smaller(lim, total - Smaller(off, total))
    BY <1>1 DEF PageIsFull
  <2>1. R = P /\ total = N
    BY DEF CountHolds
  <2>. QED  BY <1>2, <2>1
<1>. HIDE DEF rank, lim, off, N
<1>10. PassedWasShown'
  <2>. SUFFICES ASSUME page > 0, ~deleted, moves = 0, ~cut',
                       Unique(request.column), perPage <= MaxLimit,
                       NEW x \in start, rank(x) < off + perPage
                PROVE  seen'[x] > 0
    BY <1>1, <1>5 DEF PassedWasShown, rank, Unique, Rank
  <2>1. x \in table /\ x \in Rows /\ R = P /\ ~cut /\ seen[x] \in Nat
    BY DEF TypeOK
  <2>2. CASE rank(x) < off
    <3>1. seen[x] > 0
      BY <1>5, <2>1, <2>2 DEF PassedWasShown, rank
    <3>. QED  BY <1>1, <2>1, <3>1
  <2>3. CASE ~(rank(x) < off)
    <3>1. x \in P
      BY <1>2, <1>3, <1>4, <1>6, <2>1, <2>3
    <3>. QED  BY <1>1, <2>1, <3>1
  <2>. QED  BY <2>2, <2>3
<1>11. RepeatsAccounted'
  <2>. SUFFICES ASSUME page > 0, Unique(request.column), NEW x \in Rows
                PROVE  \/ seen'[x] <= inserts + moves
                       \/ /\ seen'[x] = inserts + moves + 1
                          /\ x \in table => rank(x) < off + perPage
    BY <1>1, <1>5 DEF RepeatsAccounted, rank, Unique, Rank
  <2>1. \/ seen[x] <= inserts + moves
        \/ seen[x] = inserts + moves + 1 /\ (x \in table => rank(x) < off)
    BY <1>5 DEF RepeatsAccounted, rank
  <2>2. seen[x] \in Nat /\ inserts \in Nat /\ moves \in Nat
    BY DEF TypeOK
  <2>3. CASE x \in R
    <3>1. x \in table /\ rank(x) \in Nat /\ off <= rank(x) /\ rank(x) < off + lim
      BY <1>2, <1>4, <2>3
    <3>2. rank(x) < off + perPage /\ ~(rank(x) < off)
      BY <1>3, <1>6, <3>1
    <3>3. seen'[x] = seen[x] + 1
      BY <1>1, <2>3
    <3>. QED  BY <2>1, <2>2, <3>1, <3>2, <3>3
  <2>4. CASE x \notin R
    <3>1. seen'[x] = seen[x]
      BY <1>1, <2>4
    <3>2. x \in table /\ rank(x) < off => rank(x) < off + perPage
      BY <1>3, <1>4
    <3>. QED  BY <2>1, <3>1, <3>2
  <2>. QED  BY <2>3, <2>4
<1>. QED  BY <1>7, <1>8, <1>9, <1>10, <1>11

-----------------------------------------------------------------------------
LEMMA InitIInv ==
  ASSUME ListingAssumption, Init
  PROVE  IInv
<1>1. TypeOK
  <2>1. Cardinality(rows) <= request.limit
    BY FS_EmptySet DEF Init, ListingAssumption
  <2>2. request \in [offset : Nat, limit : 1..MaxLimit, column : Columns]
    BY DEF Init, ListingAssumption, Columns
  <2>. QED  BY <2>1, <2>2 DEF Init, TypeOK
<1>2. Unique("email")
  BY DEF Init, Unique, ListingAssumption
<1>. QED  BY <1>1, <1>2 DEF Init, IInv, WalkInv, PagesJoin, CountHolds, PageIsFull, PassedWasShown,
               RepeatsAccounted

LEMMA NextIInv ==
  ASSUME ListingAssumption, IInv, [Next]_vars
  PROVE  IInv'
<1>. USE DEF IInv
<1>1. ASSUME NEW f \in Fields, NEW n \in PageSizes, FirstPage(f, n) PROVE WalkInv'
  BY <1>1, FirstPageStep
<1>2. ASSUME NextPage PROVE WalkInv'
  BY <1>2, NextPageStep
<1>3. ASSUME Retry \/ Count \/ CountFails \/ SelectFails PROVE WalkInv'
  BY <1>3, WaitingStep
<1>4. ASSUME NEW s \in Bounds \cup {Absent}, NEW e \in Bounds \cup {Absent},
             NEW f \in Fields, Query(s, e, f)
      PROVE WalkInv'
  BY <1>4, QueryStep
<1>5. ASSUME Select PROVE WalkInv'
  <2>1. PICK P \in SUBSET table : Page(P) /\ Answer(P)
    BY <1>5 DEF Select
  <2>2. P \in SUBSET P /\ cut' = cut /\ pc = "select"
    BY <1>5 DEF Select
  <2>. QED  BY <2>1, <2>2, AnswerStep
<1>6. ASSUME SelectCut PROVE WalkInv'
  <2>1. PICK P \in SUBSET table : \E R \in SUBSET P : Page(P) /\ Answer(R)
    BY <1>6 DEF SelectCut
  <2>2. PICK R \in SUBSET P : Page(P) /\ Answer(R)
    BY <2>1
  <2>3. cut' = TRUE /\ list # "accounts" /\ pc = "select"
    BY <1>6 DEF SelectCut
  <2>. QED  BY <2>2, <2>3, AnswerStep
<1>7. ASSUME NEW x \in Rows, Insert(x) PROVE WalkInv'
  BY <1>7, InsertStep
<1>8. ASSUME NEW x \in Rows, Delete(x) PROVE WalkInv'
  BY <1>8, DeleteStep
<1>10. ASSUME NEW x \in Rows, NEW c \in Fields, NEW n \in Places, Update(x, c, n) PROVE WalkInv'
  BY <1>10, UpdateStep
<1>9. ASSUME UNCHANGED vars PROVE WalkInv'
  <2>. USE <1>9 DEF vars, data, walk, changes, WalkInv
  <2>1. TypeOK'
    BY DEF TypeOK
  <2>2. PagesJoin' /\ CountHolds' /\ PageIsFull'
    BY DEF PagesJoin, CountHolds, PageIsFull
  <2>3. /\ order' = order /\ Reached' = Reached
        /\ Unique(request.column)' = Unique(request.column)
    BY DEF Unique, Reached, order
  <2>4. PassedWasShown'
    BY <2>3 DEF PassedWasShown
  <2>5. RepeatsAccounted'
    BY <2>3 DEF RepeatsAccounted
  <2>. QED  BY <2>1, <2>2, <2>4, <2>5
<1>. QED  BY <1>1, <1>2, <1>3, <1>4, <1>5, <1>6, <1>7, <1>8, <1>9, <1>10, EmailsStayUnique
          DEF Next, WalkInv

(* The inductive invariant: pages join, the passed rows were shown, and     *)
(* repetitions are accounted for by insertions and updates. *)
THEOREM Invariance == Spec => []IInv
<1>1. Init => IInv
  BY InitIInv, ListingAssumption
<1>2. IInv /\ [Next]_vars => IInv'
  BY NextIInv, ListingAssumption
<1>. QED  BY <1>1, <1>2, PTL DEF Spec

(* Type correctness of the lists: whatever a client asks for, Parse keeps   *)
(* offset and limit in range, and no page is longer than its limit.         *)
THEOREM TypeCorrectness == Spec => []TypeOK
<1>1. IInv => TypeOK
  BY DEF IInv, WalkInv
<1>. QED  BY <1>1, Invariance, PTL

(* setContentRangeHeader names exactly as many places as rows follow, at    *)
(* the end of a list and beyond it too, while the list does not change and  *)
(* the page is whole.                                                       *)
THEOREM RangeIsRight == Spec => []RangeTellsRows
<1>1. ASSUME IInv PROVE RangeTellsRows
  <2>. SUFFICES ASSUME pc = "shown", quiet, ~cut
                PROVE  Cardinality(rows) = Cardinality(ContentRange.first .. ContentRange.last)
    BY DEF RangeTellsRows
  <2>. DEFINE off == request.offset
              lim == request.limit
  <2>1. off \in Nat /\ lim \in Nat \ {0} /\ total \in Nat
    BY <1>1, ListingAssumption DEF IInv, WalkInv, TypeOK, ListingAssumption
  <2>2. Cardinality(rows) = Smaller(lim, total - Smaller(off, total))
    BY <1>1 DEF IInv, WalkInv, PageIsFull
  <2>3. CASE total = 0
    <3>1. ContentRange.first = 0 /\ ContentRange.last = -1
      BY <2>3 DEF ContentRange
    <3>2. Cardinality(0 .. -1) = 0
      BY FS_Interval
    <3>. QED  BY <2>1, <2>2, <2>3, <3>1, <3>2 DEF Smaller
  <2>4. CASE total > 0
    <3>1. ContentRange.first = off /\ ContentRange.last = Smaller(off + lim - 1, total - 1)
      BY <2>1, <2>4 DEF ContentRange
    <3>2. Smaller(off + lim - 1, total - 1) \in Int
      BY <2>1 DEF Smaller
    <3>. DEFINE last == Smaller(off + lim - 1, total - 1)
    <3>. HIDE DEF off, lim, last
    <3>3. Cardinality(off .. last) = IF off > last THEN 0 ELSE last - off + 1
      BY <2>1, <3>2, FS_Interval DEF last
    <3>. USE DEF last
    <3>. QED  BY <2>1, <2>2, <2>4, <3>1, <3>3 DEF Smaller
  <2>. QED  BY <2>1, <2>3, <2>4
<1>. QED  BY <1>1, Invariance, PTL

(* getManyReference's walk, page by page through LIMIT and OFFSET, misses   *)
(* no row that was there throughout when none is deleted or, by an update   *)
(* of the walk's column, moved meanwhile.                                   *)
THEOREM WalksAreComplete == Spec => []WalkShowsAll
<1>1. ASSUME IInv PROVE WalkShowsAll
  <2>. SUFFICES ASSUME pc = "shown", page > 0, ~More, quiet, ~deleted, moves = 0, ~cut,
                       Unique(request.column), perPage <= MaxLimit, NEW x \in start
                PROVE  seen[x] > 0
    BY DEF WalkShowsAll
  <2>1. /\ x \in table /\ table \in SUBSET Rows /\ order \in [Rows -> Nat]
        /\ page \in Nat /\ perPage \in Nat /\ request.offset = (page - 1) * perPage
        /\ total = Cardinality(table) /\ total \in Nat
    BY <1>1 DEF IInv, WalkInv, TypeOK, PagesJoin, CountHolds, order
  <2>2. page * perPage = request.offset + perPage /\ page * perPage \in Nat
    BY <2>1
  <2>3. total <= page * perPage
    BY <2>1, <2>2 DEF More
  <2>4. /\ Rank(order, table, x) \in Nat
        /\ Rank(order, table, x) < Cardinality(table)
    BY <2>1, RankIsPlace, ListingAssumption
  <2>5. Rank(order, table, x) < Reached
    BY <2>1, <2>2, <2>3, <2>4 DEF Reached
  <2>. QED  BY <1>1, <2>5 DEF IInv, WalkInv, PassedWasShown
<1>. QED  BY <1>1, Invariance, PTL

(* A walk shows a row once more for each insertion or update of its column  *)
(* at most, deletions and pages that break off or not.                      *)
THEOREM RepeatsAreChanges == Spec => []RepeatsNeedChanges
<1>1. ASSUME IInv PROVE RepeatsNeedChanges
  <2>. SUFFICES ASSUME page > 0, Unique(request.column), NEW x \in Rows
                PROVE  seen[x] <= 1 + inserts + moves
    BY DEF RepeatsNeedChanges
  <2>1. seen[x] <= inserts + moves \/ seen[x] = inserts + moves + 1
    BY <1>1 DEF IInv, WalkInv, RepeatsAccounted
  <2>2. seen[x] \in Nat /\ inserts \in Nat /\ moves \in Nat
    BY <1>1 DEF IInv, WalkInv, TypeOK
  <2>. QED  BY <2>1, <2>2
<1>. QED  BY <1>1, Invariance, PTL
=============================================================================
