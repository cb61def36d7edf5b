--------------------------- MODULE PaginationProofs ---------------------------
(* For any number of rows, any limits and any interleaving of pages and    *)
(* commands: a row that stays at its place is listed exactly once, no      *)
(* initiative and no update is listed twice, and updates are listed in the *)
(* order of their commits without gaps.                                    *)
EXTENDS Pagination, FiniteSetTheorems, WellFoundedInduction, TLAPS

-----------------------------------------------------------------------------
(* Least and greatest keys *)

(* A finite set of numbers has a least and a greatest one. *)
LEMMA Extremes ==
  ASSUME NEW S \in SUBSET Int, IsFiniteSet(S), S # {}
  PROVE  /\ \E m \in S : \A n \in S : m <= n
         /\ \E m \in S : \A n \in S : n <= m
<1>1. \A T \in SUBSET S : T \in FiniteSubsetsOf(S)
  BY FS_Subset DEF FiniteSubsetsOf
<1>2. ASSUME NEW f \in [S -> SUBSET S]
      PROVE  \E m \in S : \A n \in S : ~(f[n] \subseteq f[m] /\ f[n] # f[m])
  <2> DEFINE T == {f[m] : m \in S}
  <2>1. /\ \A m \in S : f[m] \in T
        /\ \A X \in T : \E m \in S : X = f[m]
    OBVIOUS
  <2>2. T \subseteq FiniteSubsetsOf(S) /\ T # {}
    BY <1>1
  <2> HIDE DEF T
  <2>3. PICK X \in T : \A Y \in T : ~(<<Y, X>> \in StrictSubsetOrdering(S))
    BY <2>2, FS_StrictSubsetOrderingWellFounded, WFMin
  <2>4. PICK m \in S : X = f[m]
    BY <2>1
  <2>5. ASSUME NEW n \in S, f[n] \subseteq f[m] /\ f[n] # f[m] PROVE FALSE
    <3>1. <<f[n], f[m]>> \in StrictSubsetOrdering(S)
      BY <2>5 DEF StrictSubsetOrdering
    <3> QED
      BY <2>1, <2>3, <2>4, <3>1
  <2> QED
    BY <2>5
<1>3. \E m \in S : \A n \in S : m <= n
  <2> DEFINE upTo == [m \in S |-> {n \in S : n <= m}]
  <2>1. \A m, n \in S : n \in upTo[m] <=> n <= m
    OBVIOUS
  <2>2. upTo \in [S -> SUBSET S]
    OBVIOUS
  <2> HIDE DEF upTo
  <2>3. PICK m \in S : \A n \in S : ~(upTo[n] \subseteq upTo[m] /\ upTo[n] # upTo[m])
    BY <1>2, <2>2
  <2>4. ASSUME NEW n \in S, n < m PROVE FALSE
    <3>1. m \in Int /\ n \in Int /\ \A k \in S : k \in Int
      OBVIOUS
    <3>2. m \in upTo[m] /\ m \notin upTo[n]
      BY <2>1, <2>4, <3>1
    <3>3. \A k \in S : k \in upTo[n] => k \in upTo[m]
      BY <2>1, <2>4, <3>1
    <3>4. upTo[n] \subseteq upTo[m]
      BY <2>2, <3>3
    <3> QED
      BY <2>3, <3>2, <3>4
  <2> QED
    BY <2>4
<1>4. \E m \in S : \A n \in S : n <= m
  <2> DEFINE from == [m \in S |-> {n \in S : m <= n}]
  <2>1. \A m, n \in S : n \in from[m] <=> m <= n
    OBVIOUS
  <2>2. from \in [S -> SUBSET S]
    OBVIOUS
  <2> HIDE DEF from
  <2>3. PICK m \in S : \A n \in S : ~(from[n] \subseteq from[m] /\ from[n] # from[m])
    BY <1>2, <2>2
  <2>4. ASSUME NEW n \in S, m < n PROVE FALSE
    <3>1. m \in Int /\ n \in Int /\ \A k \in S : k \in Int
      OBVIOUS
    <3>2. m \in from[m] /\ m \notin from[n]
      BY <2>1, <2>4, <3>1
    <3>3. \A k \in S : k \in from[n] => k \in from[m]
      BY <2>1, <2>4, <3>1
    <3>4. from[n] \subseteq from[m]
      BY <2>2, <3>3
    <3> QED
      BY <2>3, <3>2, <3>4
  <2> QED
    BY <2>4
<1> QED
  BY <1>3, <1>4

(* So rows have a first and a last one. *)
LEMMA FirstAndLast ==
  ASSUME NEW S \in SUBSET Rows, S # {}, \A x \in S : key[x] \in Nat
  PROVE  /\ \E x \in S : \A y \in S : key[x] <= key[y]
         /\ \E x \in S : \A y \in S : key[y] <= key[x]
<1> DEFINE K == {key[x] : x \in S}
           f == [x \in S |-> key[x]]
<1>1. IsFiniteSet(S)
  BY RowsFinite, FS_Subset
<1>2. f \in Surjection(S, K)
  BY DEF Surjection
<1>3. IsFiniteSet(K)
  BY <1>1, <1>2, FS_Surjection
<1>4. K \in SUBSET Int /\ K # {}
  OBVIOUS
<1>5. /\ \E m \in K : \A n \in K : m <= n
      /\ \E m \in K : \A n \in K : n <= m
  <2> HIDE DEF K
  <2> QED
    BY <1>3, <1>4, Extremes
<1> QED
  BY <1>5

-----------------------------------------------------------------------------
(* What a page has *)

(* The keys that a reader pages through. *)
Keyed ==
  /\ key \in [Rows -> Nat \cup {None}]
  /\ \A x, y \in Rows : x # y /\ key[x] # None => key[x] # key[y]
  /\ cursor \in Int
  /\ limit \in Nat \ {0}

Before(x) == {y \in Beyond : key[y] < key[x]}

(* Keys beyond the cursor are numbers. *)
LEMMA BeyondTyped ==
  ASSUME Keyed
  PROVE  /\ Beyond \subseteq Rows /\ IsFiniteSet(Beyond)
         /\ \A x \in Beyond : key[x] \in Nat /\ key[x] > cursor
         /\ Fetched \subseteq Beyond /\ IsFiniteSet(Fetched)
         /\ Cardinality(Fetched) \in Nat
         /\ \A x \in Beyond :
              /\ IsFiniteSet(Before(x)) /\ Cardinality(Before(x)) \in Nat
              /\ x \in Fetched <=> Cardinality(Before(x)) < limit + 1
<1>1. Beyond \subseteq Rows /\ \A x \in Beyond : key[x] \in Nat /\ key[x] > cursor
  BY DEF Keyed, Beyond, Shown
<1>2. IsFiniteSet(Beyond)
  BY <1>1, RowsFinite, FS_Subset
<1>3. Fetched \subseteq Beyond /\ IsFiniteSet(Fetched)
  BY <1>2, FS_Subset DEF Fetched
<1>4. ASSUME NEW x \in Beyond
      PROVE  /\ IsFiniteSet(Before(x)) /\ Cardinality(Before(x)) \in Nat
             /\ x \in Fetched <=> Cardinality(Before(x)) < limit + 1
  BY <1>2, FS_Subset, FS_CardinalityType DEF Before, Fetched
<1> QED
  BY <1>1, <1>2, <1>3, <1>4, FS_CardinalityType

(* Without a row to spare, the statement has fetched everything. *)
LEMMA LastPage ==
  ASSUME Keyed, ~HasMore
  PROVE  Page = Beyond
<1>1. Page = Fetched /\ Fetched \subseteq Beyond
  BY BeyondTyped DEF Page
<1>2. ASSUME Beyond \ Fetched # {} PROVE FALSE
  <2>1. PICK x \in Beyond \ Fetched : \A y \in Beyond \ Fetched : key[x] <= key[y]
    <3>1. /\ Beyond \ Fetched \in SUBSET Rows
          /\ \A y \in Beyond \ Fetched : key[y] \in Nat
      BY BeyondTyped
    <3> QED
      BY <1>2, <3>1, FirstAndLast
  <2>2. Before(x) \subseteq Fetched
    BY <2>1, BeyondTyped DEF Before
  <2>3. Cardinality(Before(x)) <= Cardinality(Fetched)
    BY <2>2, BeyondTyped, FS_Subset
  <2>4. Cardinality(Before(x)) >= limit + 1
    BY <2>1, BeyondTyped DEF Keyed
  <2> QED
    BY <2>3, <2>4, BeyondTyped DEF HasMore, Keyed
<1> QED
  BY <1>1, <1>2

(* With one, the page is the rows up to its own last one, and that is past *)
(* the cursor.                                                             *)
LEMMA OtherPage ==
  ASSUME Keyed, HasMore
  PROVE  /\ NextCursor \in Nat
         /\ NextCursor > cursor
         /\ \E m \in Page : key[m] = NextCursor
         /\ Page = {x \in Beyond : key[x] <= NextCursor}
<1> DEFINE extra == CHOOSE x \in Fetched : \A y \in Fetched : key[y] <= key[x]
<1>1. Fetched \subseteq Beyond /\ Cardinality(Fetched) > 1 /\ Fetched # {}
  BY BeyondTyped, FS_EmptySet DEF HasMore, Keyed
<1>2. extra \in Fetched /\ \A y \in Fetched : key[y] <= key[extra]
  <2>1. Fetched \in SUBSET Rows /\ \A y \in Fetched : key[y] \in Nat
    BY <1>1, BeyondTyped
  <2>2. \E x \in Fetched : \A y \in Fetched : key[y] <= key[x]
    BY <1>1, <2>1, FirstAndLast
  <2> QED
    BY <2>2
<1>3. Page = Fetched \ {extra}
  BY DEF Page
<1> HIDE DEF extra
<1>4. Page # {}
  <2>1. Cardinality(Page) = Cardinality(Fetched) - 1
    BY <1>2, <1>3, BeyondTyped, FS_RemoveElement
  <2>2. Cardinality(Page) # 0
    BY <1>1, <2>1, BeyondTyped
  <2> QED
    BY <2>2, FS_EmptySet
<1>5. PICK m \in Page : \A y \in Page : key[y] <= key[m]
  <2>1. Page \in SUBSET Rows /\ \A y \in Page : key[y] \in Nat
    BY <1>1, <1>3, BeyondTyped
  <2> QED
    BY <1>4, <2>1, FirstAndLast
<1>6. NextCursor = key[m]
  <2> DEFINE K == {key[x] : x \in Page}
  <2>1. K \subseteq Nat /\ key[m] \in K /\ \A k \in K : key[m] >= k
    BY <1>1, <1>3, <1>5, BeyondTyped
  <2> HIDE DEF K
  <2>2. ASSUME NEW j \in K, \A k \in K : j >= k PROVE j = key[m]
    <3>1. j \in Nat /\ key[m] \in Nat /\ j >= key[m] /\ key[m] >= j
      BY <2>1, <2>2
    <3> QED
      BY <3>1
  <2>3. Max(K) = key[m]
    BY <2>1, <2>2 DEF Max
  <2> QED
    BY <1>4, <2>3 DEF NextCursor, K
<1>7. key[m] \in Nat /\ key[m] > cursor /\ m \in Fetched /\ m # extra
  BY <1>1, <1>3, <1>5, BeyondTyped
<1>8. ASSUME NEW x \in Beyond, key[x] <= key[m] PROVE x \in Page
  <2>1. Before(x) \subseteq Before(m)
    BY <1>1, <1>7, <1>8, BeyondTyped DEF Before
  <2>2. Cardinality(Before(x)) <= Cardinality(Before(m))
    BY <1>1, <1>7, <2>1, BeyondTyped, FS_Subset
  <2>3. x \in Fetched
    BY <1>1, <1>7, <1>8, <2>2, BeyondTyped DEF Keyed
  <2>4. x # extra
    <3> SUFFICES ASSUME x = extra PROVE FALSE
      OBVIOUS
    <3>1. key[m] <= key[x] /\ m \in Rows /\ x \in Rows
      BY <1>1, <1>2, <1>7, BeyondTyped
    <3>2. key[x] = key[m] /\ key[x] # None
      BY <1>7, <1>8, <3>1, BeyondTyped, NoneIsNoKey
    <3> QED
      BY <1>7, <3>1, <3>2 DEF Keyed
  <2> QED
    BY <1>3, <2>3, <2>4
<1>9. Page \subseteq Beyond /\ \A x \in Page : key[x] <= key[m]
  BY <1>1, <1>3, <1>5
<1> QED
  BY <1>5, <1>6, <1>7, <1>8, <1>9

-----------------------------------------------------------------------------
(* The invariant *)

(* No two rows have one key, committed or not, and numbers that are given  *)
(* out are not given out again.                                            *)
Distinct ==
  /\ \A x, y \in Rows : x # y =>
       /\ key[x] # None => key[x] # key[y] /\ key[x] # entering[y]
       /\ entering[x] # None => entering[x] # entering[y]
  /\ \A x \in Rows : key[x] # None => entering[x] = None
  /\ list # "projects" =>
       \A x \in Rows :
         /\ key[x] # None => key[x] \in 1..drawn
         /\ entering[x] # None => entering[x] \in 1..drawn
  /\ list = "projects" => \A x \in Rows : entering[x] = None
  /\ list # "initiatives" => hidden = {}

(* Where the reader is: what it has seen lies up to the cursor.            *)
Following ==
  /\ step = "idle" =>
       /\ cursor = Beginning /\ steady = {}
       /\ \A x \in Rows : listed[x] = 0
  /\ step # "idle" => limit # None
  /\ step # "idle" /\ list # "initiatives" => withArchived
  /\ step = "reading" =>
       \A x \in steady :
         /\ Shown(x, withArchived)
         /\ listed[x] = IF key[x] <= cursor THEN 1 ELSE 0
  /\ step = "done" => \A x \in steady : listed[x] = 1
  /\ list # "projects" =>
       \A x \in Rows :
         /\ listed[x] <= 1
         /\ step = "reading" /\ listed[x] # 0 => key[x] # None /\ key[x] <= cursor

(* The updates are committed in the order of their keys, one at a time,    *)
(* and what is not committed yet is beyond every cursor.                   *)
Logged ==
  list = "updates" =>
    /\ \A m, n \in 1..Len(log) : m < n => key[log[m]] < key[log[n]]
    /\ \A n \in 1..Len(log) : key[log[n]] # None
    /\ \A x \in Rows : key[x] # None => \E n \in 1..Len(log) : log[n] = x
    /\ cursor <= drawn
    /\ \A x \in Rows : entering[x] # None =>
         /\ cursor < entering[x]
         /\ \A y \in Rows : y # x => entering[y] = None
         /\ \A y \in Rows : key[y] # None => key[y] < entering[x]
    /\ step = "reading" =>
         \A x \in Rows : key[x] # None /\ key[x] <= cursor => listed[x] # 0
    /\ step = "done" => UpdatesWithoutGaps

Paging == TypeOK /\ Distinct /\ Following /\ Logged

(* The cursor of a first page is an integer. *)
LEMMA BeginningTyped == Beginning \in Int /\ Beginning' \in Int
BY DEF Beginning

(* Nothing is listed yet. *)
LEMMA InitPaging == Init => Paging
<1> SUFFICES ASSUME Init PROVE Paging
  OBVIOUS
<1>1. TypeOK
  <2>1. /\ key \in [Rows -> Nat \cup {None}]
        /\ entering \in [Rows -> Nat \cup {None}]
        /\ listed \in [Rows -> Nat]
    BY DEF Init
  <2>2. log \in Seq(Rows) /\ cursor \in Int
    BY BeginningTyped DEF Init
  <2> QED
    BY <2>1, <2>2 DEF Init, TypeOK
<1>2. Distinct
  BY DEF Init, Distinct
<1>3. Following
  BY DEF Init, Following
<1>4. Logged
  BY DEF Init, Logged, Beginning
<1> QED
  BY <1>1, <1>2, <1>3, <1>4 DEF Paging

(* While a list is read, keys, cursor and limit are as a page needs them. *)
LEMMA ReadingKeyed ==
  ASSUME Paging, step = "reading"
  PROVE  Keyed
BY LimitsArePositive DEF Paging, TypeOK, Distinct, Following, Keyed

-----------------------------------------------------------------------------
(* Reading *)

(* A new listing forgets what the last one listed. *)
LEMMA BeginPages ==
  ASSUME Paging, Begin
  PROVE  Paging'
<1>1. /\ UNCHANGED <<list, key, entering, drawn, hidden, log>>
      /\ step' = "reading" /\ limit' \in Limits
      /\ withArchived' \in BOOLEAN
      /\ list # "initiatives" => withArchived'
      /\ cursor' = Beginning
      /\ listed' = [x \in Rows |-> 0]
      /\ steady' \subseteq Rows
      /\ \A x \in steady' : Shown(x, withArchived')
  BY DEF Begin, table, Paging, TypeOK, Lists
<1>2. ASSUME NEW x \in Rows, key[x] # None PROVE key[x] \in Nat /\ key[x] > Beginning
  BY <1>2 DEF Paging, TypeOK, Distinct, Beginning
<1>3. TypeOK'
  BY <1>1, BeginningTyped DEF Paging, TypeOK
<1>4. Distinct'
  BY <1>1 DEF Paging, Distinct
<1>5. Following'
  <2>1. limit' # None
    BY <1>1, LimitsArePositive, NoneIsNoKey
  <2>2. ASSUME NEW x \in steady'
        PROVE  Shown(x, withArchived)' /\ ~(key'[x] <= cursor') /\ listed'[x] = 0
    <3>1. x \in Rows /\ key[x] # None /\ (withArchived' \/ x \notin hidden)
      BY <1>1, <2>2 DEF Shown
    <3> QED
      BY <1>1, <1>2, <3>1 DEF Shown, Beginning
  <2> QED
    BY <1>1, <2>1, <2>2 DEF Following
<1>6. Logged'
  <2>1. list = "updates" => Beginning = 0
    BY DEF Beginning
  <2>2. list = "updates" => \A x \in Rows : entering[x] # None => entering[x] > 0
    BY DEF Paging, Distinct, TypeOK
  <2>3. list = "updates" => \A x \in Rows : key[x] # None => ~(key[x] <= 0)
    BY <1>2, <2>1
  <2> QED
    BY <1>1, <2>1, <2>2, <2>3 DEF Paging, Logged, TypeOK
<1> QED
  BY <1>3, <1>4, <1>5, <1>6 DEF Paging

(* A listing that ends leaves its pages as they are. *)
LEMMA FinishPages ==
  ASSUME Paging, Finish
  PROVE  Paging'
<1>1. /\ UNCHANGED <<list, key, entering, drawn, hidden, log>>
      /\ step' = "idle" /\ limit' = None /\ withArchived' = FALSE
      /\ cursor' = Beginning
      /\ listed' = [x \in Rows |-> 0]
      /\ steady' = {}
  BY DEF Finish, table
<1>2. TypeOK'
  BY <1>1, BeginningTyped DEF Paging, TypeOK
<1>3. Distinct'
  BY <1>1 DEF Paging, Distinct
<1>4. Following'
  BY <1>1 DEF Following, Beginning
<1>5. Logged'
  <2>1. list = "updates" => Beginning = 0
    BY DEF Beginning
  <2>2. list = "updates" => \A x \in Rows : entering[x] # None => entering[x] > 0
    BY DEF Paging, Distinct, TypeOK
  <2> QED
    BY <1>1, <2>1, <2>2 DEF Paging, Logged, TypeOK
<1> QED
  BY <1>2, <1>3, <1>4, <1>5 DEF Paging

(* What a page does, whether or not there is another. *)
LEMMA PageListed ==
  ASSUME Paging, ReadPage
  PROVE  /\ Page \subseteq Beyond
         /\ UNCHANGED <<list, key, entering, drawn, hidden, log,
                        limit, withArchived, steady>>
         /\ listed' \in [Rows -> Nat]
         /\ \A x \in Rows : x \in Page => listed'[x] = listed[x] + 1
         /\ \A x \in Rows : x \notin Page => listed'[x] = listed[x]
         /\ \A x \in Rows : x \in Beyond <=>
              Shown(x, withArchived) /\ key[x] > cursor
         /\ \A x \in Rows : key[x] # None => key[x] \in Nat
         /\ cursor \in Int
<1>1. step = "reading" /\ Keyed
  BY ReadingKeyed DEF ReadPage
<1>2. Page \subseteq Beyond
  BY <1>1, LastPage, OtherPage
<1>3. listed \in [Rows -> Nat]
  BY DEF Paging, TypeOK
<1>4. listed' = [x \in Rows |-> IF x \in Page THEN listed[x] + 1 ELSE listed[x]]
  BY DEF ReadPage
<1> QED
  BY <1>1, <1>2, <1>3, <1>4 DEF ReadPage, table, Beyond, Keyed

(* A page with more to come moves the cursor to its last row. *)
LEMMA ReadOtherPage ==
  ASSUME Paging, ReadPage, HasMore
  PROVE  Paging'
<1>1. step = "reading" /\ step' = "reading" /\ cursor' = NextCursor
  BY DEF ReadPage
<1>2. /\ cursor' \in Nat /\ cursor' > cursor
      /\ \E m \in Page : key[m] = cursor'
      /\ Page = {x \in Beyond : key[x] <= cursor'}
  BY <1>1, ReadingKeyed, OtherPage
<1>3. TypeOK'
  BY <1>1, <1>2, PageListed DEF Paging, TypeOK
<1>4. Distinct'
  BY PageListed DEF Paging, Distinct
<1>5. Following'
  <2>1. ASSUME NEW x \in steady
        PROVE  /\ Shown(x, withArchived)'
               /\ listed'[x] = IF key'[x] <= cursor' THEN 1 ELSE 0
    <3>1. x \in Rows /\ Shown(x, withArchived)
          /\ listed[x] = IF key[x] <= cursor THEN 1 ELSE 0
      BY <1>1, <2>1 DEF Paging, TypeOK, Following
    <3>2. Shown(x, withArchived)' /\ key[x] \in Nat /\ key'[x] = key[x]
      BY <3>1, PageListed DEF Shown
    <3>3. x \in Page <=> key[x] > cursor /\ key[x] <= cursor'
      BY <1>2, <3>1, PageListed
    <3> QED
      BY <1>2, <3>1, <3>2, <3>3, PageListed
  <2>2. ASSUME list # "projects", NEW x \in Rows
        PROVE  /\ listed'[x] <= 1
               /\ listed'[x] # 0 => key[x] # None /\ key[x] <= cursor'
    <3>1. /\ listed[x] <= 1 /\ listed[x] \in Nat
          /\ listed[x] # 0 => key[x] # None /\ key[x] <= cursor
      BY <1>1, <2>2 DEF Paging, Following, TypeOK
    <3>2. CASE x \in Page
      BY <1>2, <3>1, <3>2, PageListed DEF Shown
    <3>3. CASE x \notin Page
      BY <1>2, <3>1, <3>3, PageListed
    <3> QED
      BY <3>2, <3>3
  <2>3. /\ limit' # None
        /\ list' # "initiatives" => withArchived'
    BY <1>1, PageListed DEF Paging, Following
  <2> QED
    BY <1>1, <2>1, <2>2, <2>3, PageListed DEF Following
<1>6. Logged'
  <2> SUFFICES ASSUME list = "updates" PROVE Logged'
    BY PageListed DEF Logged
  <2>1. PICK m \in Page : key[m] = cursor'
    BY <1>2
  <2>2. m \in Rows /\ key[m] # None
    BY <2>1, PageListed DEF Beyond, Shown
  <2>3. cursor' <= drawn
    BY <2>1, <2>2 DEF Paging, Distinct, TypeOK
  <2>4. \A x \in Rows : entering[x] # None => cursor' < entering[x]
    BY <2>1, <2>2 DEF Paging, Logged
  <2>5. ASSUME NEW x \in Rows, key[x] # None, key[x] <= cursor'
        PROVE  listed'[x] # 0
    <3>1. listed[x] \in Nat /\ (key[x] <= cursor => listed[x] # 0)
      BY <1>1, <2>5 DEF Paging, Logged, TypeOK
    <3>2. Shown(x, withArchived)
      BY <1>1, <2>5 DEF Paging, Following, Shown
    <3>3. key[x] \in Nat /\ (key[x] > cursor => x \in Page)
      BY <1>2, <2>5, <3>2, PageListed
    <3> QED
      BY <3>1, <3>3, PageListed
  <2> QED
    BY <1>1, <2>3, <2>4, <2>5, PageListed DEF Paging, Logged
<1> QED
  BY <1>3, <1>4, <1>5, <1>6 DEF Paging

(* The last page takes all that is beyond the cursor. *)
LEMMA ReadLastPage ==
  ASSUME Paging, ReadPage, ~HasMore
  PROVE  Paging'
<1>1. step = "reading" /\ step' = "done" /\ cursor' = cursor
  BY DEF ReadPage
<1>2. Page = Beyond
  BY <1>1, ReadingKeyed, LastPage
<1>3. TypeOK'
  BY <1>1, PageListed DEF Paging, TypeOK
<1>4. Distinct'
  BY PageListed DEF Paging, Distinct
<1>5. Following'
  <2>1. ASSUME NEW x \in steady PROVE listed'[x] = 1
    <3>1. /\ x \in Rows /\ Shown(x, withArchived)
          /\ listed[x] = IF key[x] <= cursor THEN 1 ELSE 0
      BY <1>1, <2>1 DEF Paging, TypeOK, Following
    <3>2. key[x] \in Nat /\ (x \in Page <=> key[x] > cursor)
      BY <1>2, <3>1, PageListed DEF Shown
    <3> QED
      BY <3>1, <3>2, PageListed
  <2>2. ASSUME list # "projects", NEW x \in Rows PROVE listed'[x] <= 1
    <3>1. /\ listed[x] <= 1 /\ listed[x] \in Nat
          /\ listed[x] # 0 => key[x] # None /\ key[x] <= cursor
      BY <1>1, <2>2 DEF Paging, Following, TypeOK
    <3>2. CASE x \in Page
      BY <1>2, <3>1, <3>2, PageListed DEF Shown
    <3>3. CASE x \notin Page
      BY <3>1, <3>3, PageListed
    <3> QED
      BY <3>2, <3>3
  <2>3. /\ limit' # None
        /\ list' # "initiatives" => withArchived'
    BY <1>1, PageListed DEF Paging, Following
  <2> QED
    BY <1>1, <2>1, <2>2, <2>3, PageListed DEF Following
<1>6. Logged'
  <2> SUFFICES ASSUME list = "updates" PROVE Logged'
    BY PageListed DEF Logged
  <2>1. ASSUME NEW x \in Rows PROVE listed'[x] > 0 <=> key[x] # None
    <3>1. /\ listed[x] \in Nat
          /\ listed[x] # 0 => key[x] # None
          /\ key[x] # None /\ key[x] <= cursor => listed[x] # 0
      BY <1>1 DEF Paging, Logged, Following, TypeOK
    <3>2. key[x] # None => Shown(x, withArchived)
      BY <1>1 DEF Paging, Following, Shown
    <3>3. x \in Page <=> key[x] # None /\ key[x] > cursor
      BY <1>2, <3>2, PageListed DEF Shown
    <3> QED
      BY <3>1, <3>3, PageListed
  <2>2. \A x \in Rows : key[x] # None <=> \E n \in 1..Len(log) : log[n] = x
    BY DEF Paging, Logged
  <2>3. Len(log) \in 0..Len(log) /\ \A n \in 1..Len(log) : log[n] \in Rows
    BY DEF Paging, TypeOK
  <2>4. {x \in Rows : listed'[x] > 0} = {log[n] : n \in 1..Len(log)}
    BY <2>1, <2>2, <2>3
  <2>5. UpdatesWithoutGaps'
    BY <2>3, <2>4, PageListed DEF UpdatesWithoutGaps
  <2> QED
    BY <1>1, <2>5, PageListed DEF Paging, Logged
<1> QED
  BY <1>3, <1>4, <1>5, <1>6 DEF Paging

-----------------------------------------------------------------------------
(* Writing *)

(* What a reader has listed stays so: a steady row keeps its key, and a    *)
(* key of an initiative or an update never changes.                        *)
LEMMA WriterFollows ==
  ASSUME Paging, UNCHANGED <<list, reader>>, StillSteady,
         list # "projects" => \A x \in Rows : key[x] # None => key'[x] = key[x]
  PROVE  Following'
<1>1. UNCHANGED <<step, limit, withArchived, cursor, listed>>
  BY DEF reader
<1>2. ASSUME NEW x \in steady'
      PROVE  x \in steady /\ key'[x] = key[x] /\ (withArchived \/ x \notin hidden')
  BY <1>2 DEF StillSteady
<1>3. ASSUME step = "reading", NEW x \in steady'
      PROVE  /\ Shown(x, withArchived)'
             /\ listed'[x] = IF key'[x] <= cursor' THEN 1 ELSE 0
  BY <1>1, <1>2, <1>3 DEF Paging, Following, Shown
<1>4. ASSUME list # "projects", NEW x \in Rows
      PROVE  /\ listed'[x] <= 1
             /\ step' = "reading" /\ listed'[x] # 0 =>
                  key'[x] # None /\ key'[x] <= cursor'
  BY <1>1, <1>4 DEF Paging, Following
<1>5. step = "idle" => steady' = {}
  BY <1>2 DEF Paging, Following
<1>6. step = "done" => \A x \in steady' : listed'[x] = 1
  BY <1>1, <1>2 DEF Paging, Following
<1> QED
  BY <1>1, <1>3, <1>4, <1>5, <1>6 DEF Paging, Following, Beginning

(* What a writer may change is typed. *)
LEMMA WriterTyped ==
  ASSUME Paging, UNCHANGED <<list, reader>>, StillSteady,
         key' \in [Rows -> Nat \cup {None}],
         entering' \in [Rows -> Nat \cup {None}],
         drawn' \in Nat, hidden' \subseteq Rows, log' \in Seq(Rows)
  PROVE  TypeOK'
BY DEF Paging, TypeOK, reader, StillSteady

(* A row that nobody sees yet is on no page. *)
LEMMA InsertPages ==
  ASSUME Paging, NEW x \in Rows, Insert(x)
  PROVE  Paging'
<1>1. /\ list # "projects" /\ key[x] = None /\ entering[x] = None
      /\ list = "updates" => \A y \in Rows : entering[y] = None
      /\ drawn \in Nat /\ drawn' = drawn + 1
      /\ UNCHANGED <<list, key, hidden, log, reader>>
      /\ entering'[x] = drawn + 1
      /\ \A y \in Rows : y # x => entering'[y] = entering[y]
  BY DEF Insert, MayInsert, Paging, TypeOK
<1>2. TypeOK'
  BY <1>1, WriterTyped DEF Insert, Paging, TypeOK
<1>3. Distinct'
  <2>1. drawn + 1 # None
    BY <1>1, NoneIsNoKey
  <2>2. \A y \in Rows : /\ key[y] # None => key[y] \in 1..drawn
                        /\ entering[y] # None => entering[y] \in 1..drawn
    BY <1>1 DEF Paging, Distinct
  <2>3. \A y, z \in Rows : y # z =>
          /\ key'[y] # None => key'[y] # key'[z] /\ key'[y] # entering'[z]
          /\ entering'[y] # None => entering'[y] # entering'[z]
    BY <1>1, <2>1, <2>2 DEF Paging, Distinct
  <2>4. \A y \in Rows : key'[y] # None => entering'[y] = None
    BY <1>1 DEF Paging, Distinct
  <2>5. \A y \in Rows : /\ key'[y] # None => key'[y] \in 1..drawn'
                        /\ entering'[y] # None => entering'[y] \in 1..drawn'
    BY <1>1, <2>2
  <2> QED
    BY <1>1, <2>3, <2>4, <2>5 DEF Paging, Distinct
<1>4. Following'
  BY <1>1, WriterFollows DEF Insert
<1>5. Logged'
  <2> SUFFICES ASSUME list = "updates" PROVE Logged'
    BY <1>1 DEF Logged
  <2>1. UNCHANGED <<step, cursor, listed>>
    BY <1>1 DEF reader
  <2>2. UpdatesWithoutGaps => UpdatesWithoutGaps'
    BY <1>1, <2>1 DEF UpdatesWithoutGaps
  <2>3. cursor \in Int /\ cursor <= drawn
    BY DEF Paging, TypeOK, Logged
  <2>4. \A y \in Rows : key[y] # None => key[y] \in 1..drawn
    BY <1>1 DEF Paging, Distinct
  <2>5. ASSUME NEW y \in Rows, entering'[y] # None
        PROVE  /\ cursor' < entering'[y]
               /\ \A z \in Rows : z # y => entering'[z] = None
               /\ \A z \in Rows : key'[z] # None => key'[z] < entering'[y]
    <3>1. y = x /\ entering'[y] = drawn + 1
      BY <1>1, <2>5
    <3> QED
      BY <1>1, <2>1, <2>3, <2>4, <3>1
  <2>6. cursor' <= drawn'
    BY <1>1, <2>1, <2>3
  <2> QED
    BY <1>1, <2>1, <2>2, <2>5, <2>6 DEF Paging, Logged
<1> QED
  BY <1>2, <1>3, <1>4, <1>5 DEF Paging

(* A row that never was is on no page. *)
LEMMA RollbackPages ==
  ASSUME Paging, NEW x \in Rows, RollbackInsert(x)
  PROVE  Paging'
<1>1. /\ UNCHANGED <<list, key, drawn, hidden, log, reader>>
      /\ entering'[x] = None
      /\ \A y \in Rows : y # x => entering'[y] = entering[y]
  BY DEF RollbackInsert, Paging, TypeOK
<1>2. TypeOK'
  BY <1>1, WriterTyped DEF RollbackInsert, Paging, TypeOK
<1>3. Distinct'
  BY <1>1 DEF Paging, Distinct
<1>4. Following'
  BY <1>1, WriterFollows DEF RollbackInsert
<1>5. Logged'
  <2>1. UNCHANGED <<step, cursor, listed>>
    BY <1>1 DEF reader
  <2>2. UpdatesWithoutGaps => UpdatesWithoutGaps'
    BY <1>1, <2>1 DEF UpdatesWithoutGaps
  <2> QED
    BY <1>1, <2>1, <2>2 DEF Paging, Logged
<1> QED
  BY <1>2, <1>3, <1>4, <1>5 DEF Paging

(* A row that commits appears with the key it was inserted with. *)
LEMMA CommitPages ==
  ASSUME Paging, NEW x \in Rows, CommitInsert(x)
  PROVE  Paging'
<1>1. /\ entering[x] \in Nat /\ key[x] = None
      /\ UNCHANGED <<list, drawn, hidden, reader>>
      /\ key'[x] = entering[x] /\ entering'[x] = None
      /\ \A y \in Rows : y # x => key'[y] = key[y] /\ entering'[y] = entering[y]
      /\ log' = Append(log, x)
  BY DEF CommitInsert, Paging, TypeOK, Distinct
<1>2. list # "projects"
  BY DEF CommitInsert, Paging, Distinct
<1>3. TypeOK'
  <2>1. /\ key' \in [Rows -> Nat \cup {None}]
        /\ entering' \in [Rows -> Nat \cup {None}]
    BY <1>1 DEF CommitInsert, Paging, TypeOK
  <2>2. log' \in Seq(Rows)
    BY <1>1 DEF Paging, TypeOK
  <2> QED
    BY <1>1, <2>1, <2>2, WriterTyped DEF CommitInsert, Paging, TypeOK
<1>4. Distinct'
  <2>1. entering[x] # None
    BY DEF CommitInsert
  <2>2. \A y, z \in Rows : y # z =>
          /\ key'[y] # None => key'[y] # key'[z] /\ key'[y] # entering'[z]
          /\ entering'[y] # None => entering'[y] # entering'[z]
    <3> SUFFICES ASSUME NEW y \in Rows, NEW z \in Rows, y # z
                 PROVE  /\ key'[y] # None => key'[y] # key'[z] /\ key'[y] # entering'[z]
                        /\ entering'[y] # None => entering'[y] # entering'[z]
      OBVIOUS
    <3>1. CASE y = x
      BY <1>1, <2>1, <3>1 DEF Paging, Distinct
    <3>2. CASE z = x
      BY <1>1, <2>1, <3>2 DEF Paging, Distinct
    <3>3. CASE y # x /\ z # x
      BY <1>1, <3>3 DEF Paging, Distinct
    <3> QED
      BY <3>1, <3>2, <3>3
  <2>3. \A y \in Rows : key'[y] # None => entering'[y] = None
    BY <1>1 DEF Paging, Distinct
  <2>4. \A y \in Rows : /\ key'[y] # None => key'[y] \in 1..drawn'
                        /\ entering'[y] # None => entering'[y] \in 1..drawn'
    BY <1>1, <1>2, <2>1 DEF Paging, Distinct
  <2> QED
    BY <1>1, <1>2, <2>2, <2>3, <2>4 DEF Paging, Distinct
<1>5. Following'
  BY <1>1, WriterFollows DEF CommitInsert
<1>6. Logged'
  <2> SUFFICES ASSUME list = "updates" PROVE Logged'
    BY <1>1 DEF Logged
  <2>1. UNCHANGED <<step, cursor, listed>>
    BY <1>1 DEF reader
  <2> DEFINE last == Len(log) + 1
  <2>2. /\ Len(log) \in Nat /\ Len(log') = last
        /\ log'[last] = x
        /\ \A n \in 1..Len(log) : log'[n] = log[n] /\ log[n] \in Rows
    BY <1>1 DEF Paging, TypeOK
  <2>3. \A n \in 1..Len(log) : /\ key[log[n]] # None /\ log[n] # x
                               /\ key'[log[n]] = key[log[n]]
                               /\ key[log[n]] < entering[x]
    BY <1>1, <2>2 DEF CommitInsert, Paging, Logged
  <2>4. ASSUME NEW m \in 1..last, NEW n \in 1..last, m < n
        PROVE  key'[log'[m]] < key'[log'[n]]
    <3>1. m \in 1..Len(log)
      BY <2>2, <2>4
    <3>2. CASE n = last
      BY <1>1, <2>2, <2>3, <3>1, <3>2
    <3>3. CASE n # last
      <4>1. n \in 1..Len(log) /\ key[log[m]] < key[log[n]]
        BY <2>2, <2>4, <3>1, <3>3 DEF Paging, Logged
      <4> QED
        BY <2>2, <2>3, <3>1, <4>1
    <3> QED
      BY <3>2, <3>3
  <2>5. ASSUME NEW n \in 1..last PROVE key'[log'[n]] # None
    <3>1. CASE n = last
      BY <1>1, <2>2, <3>1 DEF CommitInsert
    <3>2. CASE n # last
      <4>1. n \in 1..Len(log)
        BY <2>2, <3>2
      <4> QED
        BY <2>2, <2>3, <4>1
    <3> QED
      BY <3>1, <3>2
  <2>6. ASSUME NEW y \in Rows, key'[y] # None PROVE \E n \in 1..last : log'[n] = y
    <3>1. CASE y = x
      <4>1. last \in 1..last
        BY <2>2
      <4> QED
        BY <2>2, <3>1, <4>1
    <3>2. CASE y # x
      <4>1. PICK n \in 1..Len(log) : log[n] = y
        BY <1>1, <2>6, <3>2 DEF Paging, Logged
      <4>2. n \in 1..last /\ log'[n] = y
        BY <2>2, <4>1
      <4> QED
        BY <4>2
    <3> QED
      BY <3>1, <3>2
  <2>7. \A y \in Rows : entering'[y] = None
    BY <1>1 DEF CommitInsert, Paging, Logged
  <2>8. ASSUME step = "reading", NEW y \in Rows, key'[y] # None, key'[y] <= cursor
        PROVE  listed'[y] # 0
    <3>1. cursor < entering[x] /\ cursor \in Int
      BY DEF CommitInsert, Paging, Logged, TypeOK
    <3>2. y # x
      BY <1>1, <2>8, <3>1
    <3> QED
      BY <1>1, <2>1, <2>8, <3>2 DEF Paging, Logged
  <2>9. UpdatesWithoutGaps => UpdatesWithoutGaps'
    <3> SUFFICES ASSUME UpdatesWithoutGaps PROVE UpdatesWithoutGaps'
      OBVIOUS
    <3>1. PICK n \in 0..Len(log) :
            {y \in Rows : listed[y] > 0} = {log[m] : m \in 1..n}
      BY DEF UpdatesWithoutGaps
    <3>2. {log'[m] : m \in 1..n} = {log[m] : m \in 1..n}
      BY <2>2
    <3>3. n \in 0..Len(log')
      BY <2>2
    <3>4. {y \in Rows : listed'[y] > 0} = {log'[m] : m \in 1..n}
      BY <2>1, <3>1, <3>2
    <3> QED
      BY <3>3, <3>4 DEF UpdatesWithoutGaps
  <2>10. cursor' <= drawn'
    BY <1>1, <2>1 DEF Paging, Logged
  <2> QED
    BY <2>1, <2>2, <2>4, <2>5, <2>6, <2>7, <2>8, <2>9, <2>10 DEF Paging, Logged
<1> QED
  BY <1>3, <1>4, <1>5, <1>6 DEF Paging

(* Archiving hides a row, and moves none. *)
LEMMA ArchivePages ==
  ASSUME Paging, NEW x \in Rows, ArchiveInitiative(x)
  PROVE  Paging'
<1>1. TypeOK'
  BY WriterTyped DEF ArchiveInitiative, Paging, TypeOK
<1>2. Distinct'
  BY DEF ArchiveInitiative, Paging, Distinct
<1>3. Following'
  BY WriterFollows DEF ArchiveInitiative
<1>4. Logged'
  BY DEF ArchiveInitiative, Logged
<1> QED
  BY <1>1, <1>2, <1>3, <1>4 DEF Paging

(* Projects that come, go and move are steady no longer. *)
LEMMA ProjectPages ==
  ASSUME Paging,
         \/ \E x \in Rows : AttachProject(x) \/ DetachProject(x)
         \/ ReorderProjects
  PROVE  Paging'
<1>1. /\ list = "projects"
      /\ UNCHANGED <<list, entering, drawn, hidden, log, reader>>
      /\ StillSteady
  BY DEF AttachProject, DetachProject, ReorderProjects
<1>2. \A x \in Rows : entering[x] = None
  BY <1>1 DEF Paging, Distinct
<1>3. /\ key' \in [Rows -> Nat \cup {None}]
      /\ \A x, y \in Rows : x # y /\ key'[x] # None => key'[x] # key'[y]
  <2>1. ASSUME NEW x \in Rows, AttachProject(x)
        PROVE  /\ key' \in [Rows -> Nat \cup {None}]
               /\ \A y, z \in Rows : y # z /\ key'[y] # None => key'[y] # key'[z]
    <3>1. PICK p \in 0..MaxPosition :
            /\ \A y \in Rows : key[y] # p
            /\ key' = [key EXCEPT ![x] = p]
      BY <2>1 DEF AttachProject
    <3>2. p \in Nat
      BY <3>1, BoundsAreNatural
    <3> QED
      BY <3>1, <3>2 DEF Paging, TypeOK, Distinct
  <2>2. ASSUME NEW x \in Rows, DetachProject(x)
        PROVE  /\ key' \in [Rows -> Nat \cup {None}]
               /\ \A y, z \in Rows : y # z /\ key'[y] # None => key'[y] # key'[z]
    BY <2>2 DEF DetachProject, Paging, TypeOK, Distinct
  <2>3. ASSUME ReorderProjects
        PROVE  /\ key' \in [Rows -> Nat \cup {None}]
               /\ \A y, z \in Rows : y # z /\ key'[y] # None => key'[y] # key'[z]
    <3>1. PICK order \in [{x \in Rows : key[x] # None} -> 0..MaxPosition] :
            /\ \A x, y \in DOMAIN order : x # y => order[x] # order[y]
            /\ key' = [x \in Rows |-> IF key[x] # None THEN order[x] ELSE None]
      BY <2>3 DEF ReorderProjects
    <3>2. \A x \in Rows : key[x] # None => order[x] \in Nat
      BY <3>1, BoundsAreNatural
    <3>3. \A x \in Rows : key'[x] = IF key[x] # None THEN order[x] ELSE None
      BY <3>1
    <3> QED
      BY <3>1, <3>2, <3>3
  <2> QED
    BY <2>1, <2>2, <2>3
<1>4. TypeOK'
  BY <1>1, <1>3, WriterTyped DEF Paging, TypeOK
<1>5. Distinct'
  BY <1>1, <1>2, <1>3 DEF Paging, Distinct
<1>6. Following'
  BY <1>1, WriterFollows
<1>7. Logged'
  BY <1>1 DEF Logged
<1> QED
  BY <1>4, <1>5, <1>6, <1>7 DEF Paging

(* Every step keeps the pages. *)
LEMMA NextPaging ==
  ASSUME Paging, [Next]_vars
  PROVE  Paging'
<1>1. CASE UNCHANGED vars
  <2>1. UNCHANGED <<list, key, entering, drawn, hidden, log, step, limit,
                    withArchived, cursor, listed, steady>>
    BY <1>1 DEF vars, table, reader
  <2>2. TypeOK'
    BY <2>1 DEF Paging, TypeOK
  <2>3. Distinct'
    BY <2>1 DEF Paging, Distinct
  <2>4. Following'
    BY <2>1 DEF Paging, Following, Beginning, Shown
  <2>5. Logged'
    BY <2>1 DEF Paging, Logged, UpdatesWithoutGaps
  <2> QED
    BY <2>2, <2>3, <2>4, <2>5 DEF Paging
<1>2. ReadPage => Paging'
  BY ReadOtherPage, ReadLastPage
<1> QED
  BY <1>1, <1>2, BeginPages, FinishPages, InsertPages, CommitPages, RollbackPages,
     ArchivePages, ProjectPages
  DEF Next

(* What keeps the lists in order whatever is written between two pages.    *)
THEOREM Paged == Spec => []Paging
BY InitPaging, NextPaging, PTL DEF Spec

-----------------------------------------------------------------------------
(* What the lists promise *)

(* The types of the tables and of a reader's cursor, limit and counts.     *)
THEOREM PageTypes == Spec => []TypeOK
<1>1. Paging => TypeOK
  BY DEF Paging
<1> QED
  BY <1>1, Paged, PTL

(* A row that stays at its place while its list is read is listed exactly  *)
(* once, whatever is written between two pages: a page is the rows up to   *)
(* its own last one (list_initiatives, list_updates, list_projects and the *)
(* cursors of their handlers).                                             *)
THEOREM SteadyListed == Spec => []SteadyRowsListedOnce
<1>1. Paging => SteadyRowsListedOnce
  BY DEF Paging, Following, SteadyRowsListedOnce
<1> QED
  BY <1>1, Paged, PTL

(* No initiative and no update is listed twice: a row is listed by the     *)
(* page that takes the cursor past its key, and the key does not change.   *)
THEOREM ListedOnce == Spec => []NothingTwice
<1>1. Paging => NothingTwice
  BY DEF Paging, Following, NothingTwice
<1> QED
  BY <1>1, Paged, PTL

(* The cursor cuts the log in two: the listed updates are those before it. *)
LEMMA ListedBeforeCursor ==
  ASSUME Paging, list = "updates", step = "reading"
  PROVE  \E n \in 0..Len(log) :
           {x \in Rows : listed[x] > 0} = {log[m] : m \in 1..n}
<1> DEFINE passed == {m \in 1..Len(log) : key[log[m]] <= cursor}
<1>1. /\ Len(log) \in Nat /\ cursor \in Int
      /\ \A m \in 1..Len(log) : log[m] \in Rows /\ key[log[m]] \in Nat
  BY DEF Paging, TypeOK, Logged
<1>2. \A x \in Rows :
        listed[x] > 0 <=> \E m \in 1..Len(log) : log[m] = x /\ key[x] <= cursor
  <2> TAKE x \in Rows
  <2>1. /\ listed[x] \in Nat
        /\ listed[x] # 0 => key[x] # None /\ key[x] <= cursor
        /\ key[x] # None /\ key[x] <= cursor => listed[x] # 0
        /\ key[x] # None => \E m \in 1..Len(log) : log[m] = x
    BY DEF Paging, TypeOK, Following, Logged
  <2> QED
    BY <1>1, <2>1, NoneIsNoKey
<1>3. CASE passed = {}
  <2>1. {x \in Rows : listed[x] > 0} = {log[m] : m \in 1..0}
    BY <1>2, <1>3
  <2> QED
    BY <1>1, <2>1
<1>4. CASE passed # {}
  <2>1. passed \in SUBSET Int /\ IsFiniteSet(passed)
    <3>1. IsFiniteSet(1..Len(log)) /\ passed \subseteq 1..Len(log)
      BY <1>1, FS_Interval
    <3> QED
      BY <3>1, FS_Subset
  <2>2. PICK n \in passed : \A m \in passed : m <= n
    BY <1>4, <2>1, Extremes
  <2>3. n \in 1..Len(log) /\ key[log[n]] <= cursor
    BY <2>2
  <2>4. ASSUME NEW m \in 1..n PROVE m \in passed
    <3>1. m \in 1..Len(log)
      BY <1>1, <2>3
    <3>2. m < n => key[log[m]] < key[log[n]]
      BY <2>3, <3>1 DEF Paging, Logged
    <3> QED
      BY <1>1, <2>3, <3>1, <3>2
  <2>5. \A m \in passed : m \in 1..n
    BY <1>1, <2>2
  <2>6. {x \in Rows : listed[x] > 0} = {log[m] : m \in passed}
    BY <1>1, <1>2
  <2>7. {log[m] : m \in passed} = {log[m] : m \in 1..n}
    BY <2>4, <2>5
  <2>8. n \in 0..Len(log)
    BY <1>1, <2>3
  <2>9. {x \in Rows : listed[x] > 0} = {log[m] : m \in 1..n}
    BY <2>6, <2>7
  <2> QED
    BY <2>8, <2>9
<1> QED
  BY <1>3, <1>4

(* The updates listed are a beginning of the updates committed: add_update *)
(* draws row_seq under the lock of the initiative, so a number drawn later *)
(* is committed later and beyond every cursor.                             *)
THEOREM Gapless == Spec => []UpdatesWithoutGaps
<1>1. ASSUME Paging PROVE UpdatesWithoutGaps
  <2> SUFFICES ASSUME list = "updates"
               PROVE  \E n \in 0..Len(log) :
                        {x \in Rows : listed[x] > 0} = {log[m] : m \in 1..n}
    BY DEF UpdatesWithoutGaps
  <2>1. CASE step = "idle"
    <3>1. {x \in Rows : listed[x] > 0} = {log[m] : m \in 1..0}
      BY <1>1, <2>1 DEF Paging, Following
    <3>2. 0 \in 0..Len(log)
      BY <1>1 DEF Paging, TypeOK
    <3> QED
      BY <3>1, <3>2
  <2>2. CASE step = "reading"
    BY <1>1, <2>2, ListedBeforeCursor
  <2>3. CASE step = "done"
    BY <1>1, <2>3 DEF Paging, Logged, UpdatesWithoutGaps
  <2> QED
    BY <1>1, <2>1, <2>2, <2>3 DEF Paging, TypeOK
<1> QED
  BY <1>1, Paged, PTL

=============================================================================
