---------------------------- MODULE ListingProofs ----------------------------
(***************************************************************************)
(* Proofs about the pages of the list, for ints of any width, any cap on   *)
(* the size of a page and any number of rows that an int can count: first  *)
(* the arithmetic of pages, then what a walk through them misses and       *)
(* repeats.                                                                *)
(***************************************************************************)
EXTENDS ListingProperties, FiniteSetTheorems, TLAPS

(* Products and quotients of ints.                                         *)
LEMMA TimesGrows ==
  ASSUME NEW a \in Int, NEW b \in Int, NEW p \in Nat, a <= b
  PROVE  a * p <= b * p
OBVIOUS

LEMMA TimesReflects ==
  ASSUME NEW a \in Int, NEW b \in Int, NEW p \in Nat, a * p < b * p
  PROVE  a < b
BY TimesGrows

LEMMA Division ==
  ASSUME NEW a \in Nat, NEW p \in Nat \ {0}
  PROVE  /\ a \div p \in Nat
         /\ (a \div p) * p <= a
         /\ a < (a \div p + 1) * p
OBVIOUS

LEMMA Successor ==
  ASSUME NEW a \in Int, NEW p \in Nat
  PROVE  a * p \in Int /\ (a + 1) * p = a * p + p /\ (a - 1) * p = a * p - p
OBVIOUS

(* What fits an int is not changed by wrapping it.                         *)
LEMMA FitsInt ==
  ASSUME NEW n \in Nat, n <= MaxInt
  PROVE  Wrapped(n) = n
<1>1. MaxInt \in Nat
  BY PagingAssumption
<1>2. PICK y \in Int : y = 2 * (MaxInt + 1)
  BY <1>1
<1>3. PICK x \in Int : x = n + MaxInt + 1
  BY <1>1
<1>4. x >= 0 /\ x < y
  BY <1>1, <1>2, <1>3
<1>5. x % y = x
  BY <1>4
<1> QED
  BY <1>1, <1>2, <1>3, <1>5 DEF Wrapped

(* What fits no int is below zero until it has wrapped once around.        *)
LEMMA WrapsBelow ==
  ASSUME NEW n \in Nat, MaxInt < n, n < 2 * (MaxInt + 1)
  PROVE  ~(0 <= Wrapped(n))
<1>1. MaxInt \in Nat
  BY PagingAssumption
<1>2. PICK y \in Nat \ {0} : y = 2 * (MaxInt + 1)
  BY <1>1
<1>3. PICK x \in Nat : x = n + MaxInt + 1
  BY <1>1
<1>4. y <= x /\ x < 2 * y
  BY <1>1, <1>2, <1>3
<1>5. x % y = x - y
  BY <1>4
<1> QED
  BY <1>1, <1>2, <1>3, <1>4, <1>5 DEF Wrapped

(* What is asked for is an int of at least one, and the clamped size is no *)
(* larger; beyond the maximum it is no larger than half of it.             *)
LEMMA SizeOfPage ==
  ASSUME NEW asked \in 1 .. MaxInt
  PROVE  /\ PerPageOf(asked) \in Nat \ {0} /\ PerPageOf(asked) <= MaxPerPage
         /\ PerPageOf(asked) <= asked
         /\ asked <= MaxPerPage => PerPageOf(asked) = asked
         /\ asked > MaxPerPage => 2 * PerPageOf(asked) <= asked
BY PagingAssumption, PropertiesAssumption DEF PerPageOf

(* The pages that total makes of p rows each hold all of the rows, and     *)
(* each begins before the last row when there is one.                      *)
LEMMA LastPage ==
  ASSUME NEW total \in Nat, NEW p \in Nat \ {0}
  PROVE  /\ TotalPages(total, p) \in Nat \ {0}
         /\ total <= TotalPages(total, p) * p
         /\ total > 0 => (TotalPages(total, p) - 1) * p < total
         /\ total = 0 => TotalPages(total, p) = 1
<1>1. PICK a \in Nat : a = total + p - 1
  OBVIOUS
<1>2. PICK q \in Nat : q = a \div p
  BY Division
<1>3. q * p <= a /\ a < (q + 1) * p
  BY <1>2, Division
<1>4. /\ q * p \in Int /\ (q + 1) * p = q * p + p /\ (q - 1) * p = q * p - p
  BY Successor
<1>5. TotalPages(total, p) = IF q < 1 THEN 1 ELSE q
  BY <1>1, <1>2 DEF TotalPages
<1>6. CASE q < 1
  <2>1. q = 0 /\ q * p = 0 /\ 1 * p = p /\ (1 - 1) * p = 0
    BY <1>6
  <2>2. total = 0
    BY <1>1, <1>3, <1>4, <2>1
  <2> QED
    BY <1>5, <1>6, <2>1, <2>2
<1>7. CASE q >= 1
  <2>1. (total <= q * p /\ (q - 1) * p < total) \/ total = 0
    BY <1>1, <1>3, <1>4
  <2>2. total = 0 => q = 1
    <3>1. SUFFICES ASSUME total = 0 PROVE q = 1
      OBVIOUS
    <3>2. q * p < (1 + 1) * p
      BY <1>1, <1>3, <3>1
    <3>3. q < 1 + 1
      BY <3>2, TimesReflects
    <3> QED
      BY <1>7, <3>3
  <2> QED
    BY <1>1, <1>3, <1>4, <1>5, <1>7, <2>1, <2>2
<1> QED
  BY <1>6, <1>7

(* So a page that the total makes begins where the clamped one can.        *)
LEMMA PageBegins ==
  ASSUME NEW total \in Nat, NEW asked \in 1 .. MaxInt,
         NEW n \in 1 .. TotalPages(total, asked)
  PROVE  /\ (n - 1) * PerPageOf(asked) \in Nat
         /\ (n - 1) * PerPageOf(asked) <= total
         /\ total > 0 => (n - 1) * PerPageOf(asked) < total
<1>1. PICK p \in Nat \ {0} : p = PerPageOf(asked) /\ p <= asked
  BY SizeOfPage
<1>2. asked \in Nat \ {0}
  BY PagingAssumption
<1>3. PICK T \in Nat \ {0} : /\ T = TotalPages(total, asked)
                             /\ total > 0 => (T - 1) * asked < total
                             /\ total = 0 => T = 1
  BY <1>2, LastPage
<1>4. n \in Nat /\ n - 1 \in Nat /\ n - 1 <= T - 1
  BY <1>3
<1>5. (n - 1) * p \in Nat /\ (n - 1) * asked \in Nat /\ (T - 1) * asked \in Nat
  BY <1>2, <1>4
<1>6. (n - 1) * p <= (n - 1) * asked
  <2>1. p * (n - 1) <= asked * (n - 1)
    BY <1>1, <1>2, <1>4, TimesGrows
  <2> QED
    BY <1>2, <1>4, <2>1
<1>7. (n - 1) * asked <= (T - 1) * asked
  BY <1>2, <1>4, TimesGrows
<1>8. CASE total > 0
  BY <1>1, <1>3, <1>5, <1>6, <1>7, <1>8
<1>9. CASE total = 0
  <2>1. n - 1 = 0 /\ 0 * p = 0
    BY <1>3, <1>4, <1>9
  <2> QED
    BY <1>1, <1>9, <2>1
<1> QED
  BY <1>8, <1>9

(* The offset of a page that is asked for: what it should be when that is  *)
(* an int, below zero when it wraps but once.                              *)
LEMMA OffsetOfPage ==
  ASSUME NEW size \in Int, NEW n \in 1 .. MaxInt,
         NEW x \in Nat, x = (n - 1) * PerPageOf(IntQuery(size, DefaultPerPage))
  PROVE  /\ x <= MaxInt => Offset(n, size) = x
         /\ MaxInt < x /\ x < 2 * (MaxInt + 1) => ~(0 <= Offset(n, size))
<1>1. PageOf(IntQuery(n, 1)) = n
  BY DEF PageOf, IntQuery
<1>2. Offset(n, size) = Wrapped(x)
  BY <1>1 DEF Offset, OffsetOf
<1> QED
  BY <1>2, FitsInt, WrapsBelow

(* PagesPartition is about the arithmetic of pages alone.                  *)
THEOREM PagesPartitionAlways == PagesPartition
<1> SUFFICES ASSUME NEW total \in 0 .. MaxTotal, NEW size \in Spellings
    PROVE  LET asked == IntQuery(size, DefaultPerPage)
               cut == PerPageOf(asked)
               last == TotalPages(total, asked)
               holds(n) == {rank \in 0 .. total - 1 :
                              /\ 0 <= Offset(n, size) /\ Offset(n, size) <= rank
                              /\ rank < Offset(n, size) + cut}
           IN
           /\ UNION {holds(n) : n \in 1 .. last} = 0 .. Smaller(total, last * cut) - 1
           /\ \A m, n \in 1 .. last : m # n => holds(m) \cap holds(n) = {}
           /\ total > 0 => \A n \in 1 .. last : holds(n) # {}
           /\ last * cut < total <=> asked > MaxPerPage /\ cut < total
           /\ \A n \in Spellings :
                n > TotalPages(total, cut) /\ n <= MaxInt /\ holds(n) # {} =>
                  (n - 1) * cut >= 2 * (MaxInt + 1)
  BY DEF PagesPartition
<1> DEFINE asked == IntQuery(size, DefaultPerPage)
           cut == PerPageOf(asked)
           last == TotalPages(total, asked)
           holds(n) == {rank \in 0 .. total - 1 :
                          /\ 0 <= Offset(n, size) /\ Offset(n, size) <= rank
                          /\ rank < Offset(n, size) + cut}
<1> HIDE DEF asked, cut, last, holds
<1>1. /\ MaxInt \in Nat /\ MaxPerPage \in Nat /\ MaxTotal \in Nat
      /\ MaxTotal + MaxPerPage <= MaxInt
  BY PagingAssumption, PropertiesAssumption
<1>2. total \in Nat /\ size \in Int /\ total <= MaxInt
  BY <1>1 DEF Spellings
<1>3. PICK a \in Nat \ {0} : a = asked /\ a \in 1 .. MaxInt
  BY <1>1, PagingAssumption DEF asked, IntQuery
<1>4. PICK p \in Nat \ {0} : /\ p = PerPageOf(a) /\ p = cut /\ p <= a
                             /\ a <= MaxPerPage => p = a
                             /\ a > MaxPerPage => 2 * p <= a
  BY <1>3, SizeOfPage DEF cut
<1>5. PICK T \in Nat \ {0} : /\ T = TotalPages(total, a) /\ T = last
                             /\ total <= T * a
                             /\ total > 0 => (T - 1) * a < total
                             /\ total = 0 => T = 1
  BY <1>2, <1>3, LastPage, Zenon DEF last
<1>50. T * p \in Nat /\ T * a \in Nat
  OBVIOUS
<1>6. ASSUME NEW n \in 1 .. T
      PROVE  /\ (n - 1) * p \in Nat /\ n * p \in Nat /\ (n - 1) * p + p = n * p
             /\ total > 0 => (n - 1) * p < total
             /\ holds(n) = {rank \in 0 .. total - 1 : (n - 1) * p <= rank /\ rank < n * p}
  <2>1. /\ (n - 1) * p \in Nat /\ (n - 1) * p <= total
        /\ total > 0 => (n - 1) * p < total
    BY <1>2, <1>3, <1>4, <1>5, PageBegins
  <2>2. n * p \in Nat /\ (n - 1) * p + p = n * p
    BY Successor
  <2>3. CASE total = 0
    <3>1. 0 .. total - 1 = {}
      BY <2>3
    <3> QED
      BY <2>1, <2>2, <2>3, <3>1 DEF holds
  <2>4. CASE total > 0
    <3>1. n \in 1 .. MaxInt
      <4>1. 1 * (n - 1) <= p * (n - 1)
        BY TimesGrows
      <4> QED
        BY <1>1, <1>2, <2>1, <2>4, <4>1
    <3>2. PICK x \in Nat : x = (n - 1) * p /\ x <= MaxInt /\ x + p = n * p
      BY <1>1, <1>2, <2>1, <2>2
    <3>3. Offset(n, size) = x
      <4>1. x = (n - 1) * PerPageOf(IntQuery(size, DefaultPerPage))
        BY <1>3, <1>4, <3>2 DEF asked
      <4> QED
        BY <1>2, <3>1, <3>2, <4>1, OffsetOfPage
    <3>4. holds(n) = {rank \in 0 .. total - 1 : x <= rank /\ rank < x + p}
      BY <1>2, <1>4, <3>3 DEF holds
    <3> QED
      BY <2>1, <2>2, <3>2, <3>4
  <2> QED
    BY <1>2, <2>3, <2>4
<1>7. UNION {holds(n) : n \in 1 .. T} = 0 .. Smaller(total, T * p) - 1
  <2> DEFINE top == Smaller(total, T * p)
  <2>1. top \in Nat /\ top <= total /\ top <= T * p /\ (top = total \/ top = T * p)
    BY <1>2, <1>50 DEF Smaller
  <2> HIDE DEF top
  <2>2. ASSUME NEW rank \in 0 .. top - 1
        PROVE  \E n \in 1 .. T : rank \in holds(n)
    <3>1. rank \in Nat /\ rank < total /\ rank < T * p
      BY <1>2, <1>50, <2>1
    <3>2. PICK q \in Nat : q * p <= rank /\ rank < (q + 1) * p
      BY <3>1, Division
    <3>3. q < T
      <4>1. q * p < T * p
        BY <1>50, <3>1, <3>2, Successor
      <4> QED
        BY <4>1, TimesReflects
    <3>4. q + 1 \in 1 .. T /\ (q + 1) - 1 = q
      BY <3>3
    <3>5. rank \in holds(q + 1)
      BY <1>2, <1>6, <3>1, <3>2, <3>4
    <3> QED
      BY <3>4, <3>5
  <2>3. ASSUME NEW n \in 1 .. T, NEW rank \in holds(n)
        PROVE  rank \in 0 .. top - 1
    <3>1. rank \in 0 .. total - 1 /\ rank < n * p /\ n * p \in Nat
      BY <1>6
    <3>2. n * p <= T * p
      BY TimesGrows
    <3> QED
      BY <1>2, <1>50, <2>1, <3>1, <3>2
  <2> QED
    BY <2>2, <2>3 DEF top
<1>8. \A m, n \in 1 .. T : m # n => holds(m) \cap holds(n) = {}
  <2>1. ASSUME NEW m \in 1 .. T, NEW n \in 1 .. T, m < n
        PROVE  holds(m) \cap holds(n) = {}
    <3>1. m \in Int /\ n - 1 \in Int /\ m <= n - 1
      BY <2>1
    <3>2. m * p <= (n - 1) * p /\ m * p \in Int /\ (n - 1) * p \in Int
      BY <3>1, TimesGrows, Successor
    <3> QED
      BY <1>6, <3>2
  <2> QED
    BY <2>1
<1>9. total > 0 => \A n \in 1 .. T : holds(n) # {}
  <2> SUFFICES ASSUME total > 0, NEW n \in 1 .. T PROVE holds(n) # {}
    OBVIOUS
  <2>1. (n - 1) * p \in holds(n)
    BY <1>2, <1>6
  <2> QED
    BY <2>1
<1>10. T * p < total <=> a > MaxPerPage /\ p < total
  <2>1. ASSUME a <= MaxPerPage PROVE ~(T * p < total)
    <3>1. p = a
      BY <1>4, <2>1
    <3>2. total <= T * p
      BY <1>5, <3>1
    <3> QED
      BY <1>2, <1>50, <3>2
  <2>2. p <= T * p
    <3>1. 1 * p <= T * p
      BY TimesGrows
    <3> QED
      BY <3>1
  <2>3. ASSUME a > MaxPerPage, p < total PROVE T * p < total
    <3>1. CASE T = 1
      BY <2>3, <3>1
    <3>2. CASE T >= 2
      <4>1. (2 * p) * (T - 1) <= a * (T - 1)
        BY <1>4, <2>3, TimesGrows
      <4>2. T * p <= (2 * (T - 1)) * p
        BY <3>2, TimesGrows
      <4>3. (2 * (T - 1)) * p = (2 * p) * (T - 1) /\ a * (T - 1) = (T - 1) * a
        OBVIOUS
      <4>4. (2 * p) * (T - 1) \in Int /\ (T - 1) * a \in Int
        OBVIOUS
      <4>5. (T - 1) * a < total
        BY <1>5, <2>3, <1>2
      <4> QED
        BY <1>2, <1>50, <4>1, <4>2, <4>3, <4>4, <4>5
    <3> QED
      BY <3>1, <3>2
  <2> QED
    BY <1>1, <1>2, <1>50, <2>1, <2>2, <2>3
<1>11. ASSUME NEW n \in Spellings, n > TotalPages(total, p), n <= MaxInt, holds(n) # {}
       PROVE  (n - 1) * p >= 2 * (MaxInt + 1)
  <2>1. PICK U \in Nat \ {0} : U = TotalPages(total, p) /\ total <= U * p
    BY <1>2, LastPage, Zenon
  <2>2. n \in 1 .. MaxInt /\ n - 1 \in Nat /\ U <= n - 1
    BY <1>1, <1>11, <2>1 DEF Spellings
  <2>3. PICK x \in Nat : x = (n - 1) * p
    BY <2>2
  <2>4. total <= x
    <3>1. U * p <= (n - 1) * p
      BY <2>2, TimesGrows
    <3> QED
      BY <1>2, <2>1, <2>3, <3>1
  <2>5. ASSUME x < 2 * (MaxInt + 1) PROVE FALSE
    <3>1. x = (n - 1) * PerPageOf(IntQuery(size, DefaultPerPage))
      BY <1>3, <1>4, <2>3 DEF asked
    <3>2. /\ x <= MaxInt => Offset(n, size) = x
          /\ MaxInt < x => ~(0 <= Offset(n, size))
      BY <1>2, <2>2, <2>5, <3>1, OffsetOfPage
    <3>3. CASE x <= MaxInt
      BY <1>2, <1>11, <2>4, <3>2, <3>3 DEF holds
    <3>4. CASE MaxInt < x
      BY <1>11, <3>2, <3>4 DEF holds
    <3> QED
      BY <1>1, <3>3, <3>4
  <2> QED
    BY <1>1, <2>3, <2>5
<1> QED
  BY <1>3, <1>4, <1>5, <1>7, <1>8, <1>9, <1>10, <1>11 DEF asked, cut, last, holds

(* Whatever page and size a query spells, whatever the total: the pages    *)
(* that its answer makes of the total share no row and leave out none but  *)
(* those beyond the clamped pages of a reader that asks for more than the  *)
(* maximum, and page numbers beyond them show no row again before their    *)
(* offset has wrapped once around, in every state of every walk.           *)
THEOREM PagesPartitionTheorem == HistorySpec => []PagesPartition
  BY PagesPartitionAlways, PTL

-----------------------------------------------------------------------------
(* Ranks                                                                   *)

LEMMA Numbers ==
  /\ MaxInt \in Nat /\ MaxPerPage \in Nat /\ MaxPerPage >= 1
  /\ IsFiniteSet(Rows) /\ Cardinality(Rows) \in Nat
  /\ Cardinality(Rows) + MaxPerPage <= MaxInt
  /\ Sizes \cup {DefaultPerPage} \subseteq 1 .. MaxInt /\ 1 .. MaxInt \subseteq Int
  /\ \A size \in Int : /\ PerPageOf(size) \in Nat \ {0} /\ PerPageOf(size) <= MaxPerPage
                       /\ PerPageOf(PerPageOf(size)) = PerPageOf(size)
<1>1. MaxInt \in Nat /\ MaxPerPage \in Nat /\ MaxPerPage >= 1
  BY PagingAssumption
<1>2. IsFiniteSet(Rows) /\ Cardinality(Rows) \in Nat
  BY PropertiesAssumption, FS_CardinalityType
<1>3. Sizes \cup {DefaultPerPage} \subseteq 1 .. MaxInt /\ 1 .. MaxInt \subseteq Int
  BY <1>1, ListingAssumption, PagingAssumption
<1>4. \A size \in Int : /\ PerPageOf(size) \in Nat \ {0} /\ PerPageOf(size) <= MaxPerPage
                        /\ PerPageOf(PerPageOf(size)) = PerPageOf(size)
  BY PagingAssumption DEF PerPageOf
<1> QED
  BY <1>1, <1>2, <1>3, <1>4, PropertiesAssumption

(* Sets of rows are finite, and no larger than what they are part of.      *)
LEMMA RowSets ==
  ASSUME NEW S \in SUBSET Rows, NEW T \in SUBSET S
  PROVE  /\ IsFiniteSet(S) /\ Cardinality(S) \in Nat /\ Cardinality(S) <= Cardinality(Rows)
         /\ IsFiniteSet(T) /\ Cardinality(T) \in Nat /\ Cardinality(T) <= Cardinality(S)
<1>1. IsFiniteSet(S) /\ Cardinality(S) <= Cardinality(Rows)
  BY Numbers, FS_Subset
<1>2. IsFiniteSet(T) /\ Cardinality(T) <= Cardinality(S)
  BY <1>1, FS_Subset
<1> QED
  BY <1>1, <1>2, FS_CardinalityType

LEMMA RowSetsOrdered ==
  ASSUME NEW S \in SUBSET Rows, NEW T \in SUBSET S, NEW i \in S, i \notin T
  PROVE  Cardinality(T) < Cardinality(S)
<1>1. IsFiniteSet(S) /\ T # S
  BY RowSets
<1>2. Cardinality(T) <= Cardinality(S) /\ Cardinality(S) # Cardinality(T)
  BY <1>1, FS_Subset
<1> QED
  BY <1>2, RowSets

LEMMA UnionCounts ==
  ASSUME NEW S \in SUBSET Rows, NEW T \in SUBSET Rows, NEW X \in SUBSET (S \cup T)
  PROVE  Cardinality(X) <= Cardinality(S) + Cardinality(T)
<1>1. /\ Cardinality(S \cup T) = Cardinality(S) + Cardinality(T) - Cardinality(S \cap T)
  BY RowSets, FS_Union
<1>2. Cardinality(X) <= Cardinality(S \cup T) /\ Cardinality(X) \in Nat
  BY RowSets
<1>3. Cardinality(S \cap T) \in Nat /\ Cardinality(S) \in Nat /\ Cardinality(T) \in Nat
  BY RowSets
<1> QED
  BY <1>1, <1>2, <1>3

LEMMA DisjointCounts ==
  ASSUME NEW S \in SUBSET Rows, NEW T \in SUBSET Rows, S \cap T = {}
  PROVE  Cardinality(S \cup T) = Cardinality(S) + Cardinality(T)
<1>1. Cardinality(S \cup T) = Cardinality(S) + Cardinality(T) - Cardinality(S \cap T)
  BY RowSets, FS_Union
<1>2. Cardinality(S \cap T) = 0
  BY FS_EmptySet, Zenon
<1> QED
  BY <1>1, <1>2, RowSets

(* The rows of the list are ranked, those of their own time apart.         *)
LEMMA Ranks ==
  ASSUME ListingOK
  PROVE  /\ Listed \in SUBSET Rows /\ Kept \in SUBSET Listed /\ Kept \in SUBSET Rows
         /\ Kept \subseteq Alone
         /\ \A i \in Listed : Newer(i) \in SUBSET Listed /\ Rank(i) \in Nat
         /\ \A i \in Listed : row[i].at \in Nat
         /\ \A i, j \in Kept : Rank(i) = Rank(j) => i = j
<1>1. Listed \in SUBSET Rows /\ Kept \in SUBSET Listed /\ Kept \in SUBSET Rows /\ Kept \subseteq Alone
  BY DEF ListingOK, Listed, Kept
<1>2. \A i \in Rows : row[i].at \in Nat
  BY DEF ListingOK
<1>3. \A i \in Listed : Newer(i) \in SUBSET Listed /\ Rank(i) \in Nat
  BY <1>1, RowSets DEF Newer, Rank
<1>4. ASSUME NEW i \in Kept, NEW j \in Kept, row[i].at > row[j].at
      PROVE  Rank(i) < Rank(j)
  <2>1. Newer(i) \subseteq Newer(j) /\ i \in Newer(j) /\ i \notin Newer(i)
    BY <1>1, <1>2, <1>4 DEF Newer
  <2>2. Newer(j) \in SUBSET Rows
    BY <1>1, <1>3
  <2> QED
    BY <2>1, <2>2, RowSetsOrdered DEF Rank
<1>5. ASSUME NEW i \in Kept, NEW j \in Kept, Rank(i) = Rank(j)
      PROVE  i = j
  <2>1. Rank(i) \in Nat /\ Rank(j) \in Nat /\ row[i].at \in Nat /\ row[j].at \in Nat
    BY <1>1, <1>2, <1>3
  <2>2. row[i].at = row[j].at
    BY <1>4, <1>5, <2>1
  <2> QED
    BY <1>1, <2>2 DEF Alone
<1> QED
  BY <1>1, <1>2, <1>3, <1>5

(* So there are no more of them than ranks to have.                        *)
LEMMA RanksApart ==
  ASSUME ListingOK, NEW Z \in SUBSET Kept, NEW a \in Int, NEW d \in Nat,
         \A i \in Z : a <= Rank(i) /\ Rank(i) < a + d
  PROVE  Cardinality(Z) <= d
<1> DEFINE f == [i \in Z |-> Rank(i)]
<1>1. \A i \in Z : Rank(i) \in a .. a + d - 1
  BY Ranks
<1>2. f \in [Z -> a .. a + d - 1] /\ \A i, j \in Z : f[i] = f[j] => i = j
  BY <1>1, Ranks
<1> HIDE DEF f
<1>3. f \in Injection(Z, a .. a + d - 1)
  BY <1>2, Zenon DEF Injection, IsInjective
<1>4. IsFiniteSet(a .. a + d - 1) /\ Cardinality(a .. a + d - 1) = d
  <2>1. a + d - 1 \in Int
    OBVIOUS
  <2>2. /\ IsFiniteSet(a .. a + d - 1)
        /\ Cardinality(a .. a + d - 1) = IF a > a + d - 1 THEN 0 ELSE a + d - 1 - a + 1
    BY <2>1, FS_Interval
  <2>3. (IF a > a + d - 1 THEN 0 ELSE a + d - 1 - a + 1) = d
    OBVIOUS
  <2> QED
    BY <2>2, <2>3
<1> QED
  BY <1>3, <1>4, FS_Injection

-----------------------------------------------------------------------------
(* Rows that come and go                                                   *)

(* Rows that are born stay so and keep their time.                         *)
Moved ==
  /\ \A i \in Rows : row[i].phase # "unborn" => row'[i].at = row[i].at
  /\ Kept' \subseteq Kept

LEMMA ArrivedCounts ==
  /\ Arrived = Cardinality(Listed' \ Listed) /\ Arrived \in Nat
  /\ Departed = Cardinality(Listed \ Listed') /\ Departed \in Nat
<1>1. {i \in Rows : ~Visible(i) /\ Visible(i)'} = Listed' \ Listed
  BY DEF Listed
<1>2. {i \in Rows : Visible(i) /\ ~Visible(i)'} = Listed \ Listed'
  BY DEF Listed
<1>3. Listed' \ Listed \in SUBSET Rows /\ Listed \ Listed' \in SUBSET Rows
  BY DEF Listed
<1> QED
  BY <1>1, <1>2, <1>3, RowSets DEF Arrived, Departed

(* A row moves down by what comes and up by what goes, at the most.        *)
LEMMA RankMoves ==
  ASSUME ListingOK, ListingOK', Moved, NEW i \in Listed, i \in Listed'
  PROVE  /\ Rank(i) \in Nat /\ Rank(i)' \in Nat
         /\ Rank(i)' <= Rank(i) + Arrived
         /\ Rank(i) <= Rank(i)' + Departed
<1>1. \A j \in Listed : row'[j].at = row[j].at
  BY DEF Moved, Listed, Visible
<1>2. Newer(i) \in SUBSET Rows /\ Rank(i) \in Nat
  BY Ranks
<1>3. Newer(i)' \in SUBSET Rows
  BY DEF Newer, Listed
<1>4. Newer(i)' \subseteq Newer(i) \cup (Listed' \ Listed)
  BY <1>1 DEF Newer
<1>5. Newer(i) \subseteq Newer(i)' \cup (Listed \ Listed')
  BY <1>1 DEF Newer
<1>6. Listed' \ Listed \in SUBSET Rows /\ Listed \ Listed' \in SUBSET Rows
  BY DEF Listed
<1>7. Cardinality(Newer(i)') <= Cardinality(Newer(i)) + Arrived
  BY <1>2, <1>3, <1>4, <1>6, UnionCounts, ArrivedCounts
<1>8. Cardinality(Newer(i)) <= Cardinality(Newer(i)') + Departed
  BY <1>2, <1>3, <1>5, <1>6, UnionCounts, ArrivedCounts
<1>9. Cardinality(Newer(i)') \in Nat
  BY <1>3, RowSets
<1> QED
  BY <1>2, <1>7, <1>8, <1>9 DEF Rank

LEMMA ListedGrows == Cardinality(Listed)' <= Cardinality(Listed) + Arrived
<1>1. /\ Listed \in SUBSET Rows /\ Listed' \ Listed \in SUBSET Rows
      /\ Listed' \in SUBSET (Listed \cup (Listed' \ Listed))
  BY DEF Listed
<1> QED
  BY <1>1, UnionCounts, ArrivedCounts

-----------------------------------------------------------------------------
(* Types                                                                   *)

(* What a row and a walk are made of.                                      *)
LEMMA MadeRows ==
  ASSUME NEW p, NEW t, NEW b
  PROVE  /\ MakeRow(p, t, b).phase = p /\ MakeRow(p, t, b).at = t
         /\ (p \in {"unborn", "open", "live", "gone"} /\ t \in Nat /\ b \in BOOLEAN) =>
              MakeRow(p, t, b) \in [phase : {"unborn", "open", "live", "gone"},
                                    at : Nat, fits : BOOLEAN]
BY DEF MakeRow

LEMMA MadeWalks ==
  ASSUME NEW pc, NEW size, NEW n, NEW total, NEW got
  PROVE  /\ MakeWalk(pc, size, n, total, got).pc = pc
         /\ MakeWalk(pc, size, n, total, got).size = size
         /\ MakeWalk(pc, size, n, total, got).page = n
         /\ MakeWalk(pc, size, n, total, got).total = total
         /\ MakeWalk(pc, size, n, total, got).got = got
BY DEF MakeWalk

RowsOK(r) ==
  /\ r \in [Rows -> [phase : {"unborn", "open", "live", "gone"}, at : Nat, fits : BOOLEAN]]
  /\ \A i \in Rows : r[i].at = 0 <=> r[i].phase = "unborn"
Born(r, s) ==
  \A i \in Rows : r[i].phase # "unborn" => s[i].phase # "unborn" /\ s[i].at = r[i].at

LEMMA RowStep ==
  ASSUME RowsOK(row), clock \in Nat, Next
  PROVE  RowsOK(row') /\ clock' \in Nat /\ Born(row, row')
<1>1. CASE row' = row /\ clock' = clock
  BY <1>1 DEF Born
<1>2. CASE Read
  BY <1>1, <1>2 DEF Read, StartWalk, CountRows, FetchPage, TurnPage, GiveUp
<1>3. ASSUME NEW S \in SUBSET Rows, BeginInsert(S)
      PROVE  RowsOK(row') /\ clock' \in Nat /\ Born(row, row')
  <2>1. PICK b \in BOOLEAN :
          row' = [i \in Rows |-> IF i \in S THEN MakeRow("open", clock', b) ELSE row[i]]
    BY <1>3 DEF BeginInsert
  <2>2. PICK t \in Nat : t = clock' /\ t # 0
    BY <1>3 DEF BeginInsert
  <2>3. row' = [i \in Rows |-> IF i \in S THEN MakeRow("open", t, b) ELSE row[i]]
    BY <2>1, <2>2
  <2>4. /\ MakeRow("open", t, b) \in [phase : {"unborn", "open", "live", "gone"},
                                      at : Nat, fits : BOOLEAN]
        /\ MakeRow("open", t, b).phase = "open" /\ MakeRow("open", t, b).at = t
    BY MadeRows
  <2>5. \A i \in S : row[i].phase = "unborn"
    BY <1>3 DEF BeginInsert
  <2> QED
    BY <2>2, <2>3, <2>4, <2>5 DEF RowsOK, Born
<1>4. ASSUME NEW t \in 1 .. MaxTime, NEW phase \in {"live", "gone"}, EndInsert(t, phase)
      PROVE  RowsOK(row') /\ clock' \in Nat /\ Born(row, row')
  <2>1. /\ clock' = clock
        /\ row' = [i \in Rows |-> IF row[i].phase = "open" /\ row[i].at = t
                                  THEN MakeRow(phase, t, row[i].fits) ELSE row[i]]
    BY <1>4 DEF EndInsert
  <2>2. t \in Nat /\ t # 0
    BY ListingAssumption
  <2>3. \A i \in Rows :
          /\ MakeRow(phase, t, row[i].fits) \in [phase : {"unborn", "open", "live", "gone"},
                                                 at : Nat, fits : BOOLEAN]
          /\ MakeRow(phase, t, row[i].fits).phase = phase
          /\ MakeRow(phase, t, row[i].fits).at = t
    BY <2>2, MadeRows DEF RowsOK
  <2> QED
    BY <2>1, <2>2, <2>3 DEF RowsOK, Born
<1>5. ASSUME NEW i \in Rows, Delete(i)
      PROVE  RowsOK(row') /\ clock' \in Nat /\ Born(row, row')
  BY <1>5 DEF Delete, RowsOK, Born
<1>6. ASSUME NEW i \in Rows, Refile(i)
      PROVE  RowsOK(row') /\ clock' \in Nat /\ Born(row, row')
  BY <1>6 DEF Refile, RowsOK, Born
<1> QED
  BY <1>2, <1>3, <1>4, <1>5, <1>6 DEF Next, Write

WalkOK(w) ==
  w \in [pc : {"idle", "count", "page", "answer", "done"}, size : Sizes \cup {DefaultPerPage},
         page : Nat \ {0}, total : 0 .. Cardinality(Rows), got : SUBSET Rows]

(* A writer leaves the walk alone and a reader the rows.                   *)
LEMMA EitherSide ==
  ASSUME Next
  PROVE  \/ walk' = walk /\ Write
         \/ row' = row /\ clock' = clock /\ Read
BY DEF Next, Read, Write, BeginInsert, EndInsert, Delete, Refile,
       StartWalk, CountRows, FetchPage, TurnPage, GiveUp

LEMMA WalkStep ==
  ASSUME WalkOK(walk), Next
  PROVE  WalkOK(walk')
<1>1. CASE walk' = walk
  BY <1>1
<1>2. CASE StartWalk
  BY <1>2, Numbers DEF StartWalk, MakeWalk, WalkOK
<1>3. CASE CountRows
  <2>1. Cardinality(Listed) \in 0 .. Cardinality(Rows)
    BY Numbers, RowSets DEF Listed
  <2> QED
    BY <1>3, <2>1 DEF CountRows, MakeWalk, WalkOK
<1>4. CASE FetchPage
  <2>1. PICK T \in SUBSET Rows : walk' = MakeWalk("answer", walk.size, walk.page, walk.total, T)
    BY <1>4 DEF FetchPage, Pages, Beginnings, Listed
  <2> QED
    BY <2>1 DEF MakeWalk, WalkOK
<1>5. CASE TurnPage
  <2>1. walk.page + 1 \in Nat \ {0} /\ 1 \in Nat \ {0}
    BY DEF WalkOK
  <2> QED
    BY <1>5, <2>1, Numbers DEF TurnPage, MakeWalk, WalkOK
<1>6. CASE GiveUp
  BY <1>6, Numbers DEF GiveUp, NoWalk, MakeWalk, WalkOK
<1> QED
  BY <1>1, <1>2, <1>3, <1>4, <1>5, <1>6, EitherSide DEF Read

-----------------------------------------------------------------------------
(* The page that is fetched                                                *)

(* The rows above it, its own, and those of its rows that arrive.          *)
Fetched(S, above, T) ==
  /\ S \in SUBSET Listed /\ above \in SUBSET Listed /\ S \cap above = {}
  /\ Cardinality(above) = Smaller(OffsetOf(walk.page, walk.size), Cardinality(Listed))
  /\ Cardinality(S) = Smaller(PerPageOf(walk.size), Cardinality(Listed) - Cardinality(above))
  /\ \A i \in above : \A j \in Listed \ above : row[i].at >= row[j].at
  /\ \A i \in S : \A j \in Listed \ (S \cup above) : row[i].at >= row[j].at
  /\ T \in SUBSET S
  /\ walk' = MakeWalk("answer", walk.size, walk.page, walk.total, T)

LEMMA FetchedPage ==
  ASSUME FetchPage
  PROVE  \E S, above, T \in SUBSET Rows :
           Fetched(S, above, T) /\ CutOff = Cardinality(S \ T) /\ CutOff \in Nat
<1>1. PICK S \in Pages(OffsetOf(walk.page, walk.size), PerPageOf(walk.size)) :
        \E T \in Beginnings(S) :
          walk' = MakeWalk("answer", walk.size, walk.page, walk.total, T)
  BY DEF FetchPage
<1>2. PICK T \in Beginnings(S) :
        walk' = MakeWalk("answer", walk.size, walk.page, walk.total, T)
  BY <1>1
<1>3. T \in SUBSET S /\ S \in SUBSET Listed /\ Listed \in SUBSET Rows
  BY DEF Beginnings, Pages, Listed
<1>4. PICK above \in SUBSET (Listed \ S) :
        /\ Cardinality(above) = Smaller(OffsetOf(walk.page, walk.size), Cardinality(Listed))
        /\ Cardinality(S) = Smaller(PerPageOf(walk.size),
                                    Cardinality(Listed) - Cardinality(above))
        /\ \A i \in above, j \in S \cup (Listed \ (S \cup above)) : row[i].at >= row[j].at
        /\ \A i \in S, j \in Listed \ (S \cup above) : row[i].at >= row[j].at
  BY DEF Pages
<1>5. Listed \ above = S \cup (Listed \ (S \cup above))
  BY <1>3
<1>6. Fetched(S, above, T)
  BY <1>2, <1>3, <1>4, <1>5 DEF Fetched
<1>7. walk'.got = T
  BY <1>2, MadeWalks
<1>8. CutOff = Cardinality(S) - Cardinality(T)
  BY <1>4, <1>7 DEF CutOff
<1>9. S = T \cup (S \ T) /\ T \cap (S \ T) = {} /\ T \in SUBSET Rows /\ S \in SUBSET Rows
  BY <1>3
<1>10. Cardinality(S) = Cardinality(T) + Cardinality(S \ T)
  BY <1>9, DisjointCounts
<1>11. Cardinality(S \ T) \in Nat /\ Cardinality(T) \in Nat
  BY <1>9, RowSets
<1>12. CutOff = Cardinality(S \ T) /\ CutOff \in Nat
  BY <1>8, <1>10, <1>11
<1> QED
  BY <1>3, <1>6, <1>12

LEMMA NextListingOK ==
  ASSUME ListingOK, Next, Remember
  PROVE  ListingOK'
<1>1. RowsOK(row) /\ clock \in Nat /\ WalkOK(walk)
  BY DEF ListingOK, RowsOK, WalkOK
<1>2. RowsOK(row') /\ clock' \in Nat /\ WalkOK(walk')
  BY <1>1, RowStep, WalkStep
<1>3. CASE walk.pc \in {"idle", "done"}
  <2>1. Forget(IF walk'.pc = "count" THEN Listed ELSE {})
    BY <1>3 DEF Remember
  <2>2. walk'.pc = "count" => row' = row
    BY <1>3, EitherSide
  <2>3. steady' \subseteq Listed'
    BY <2>1, <2>2 DEF Forget, Listed, Visible
  <2> QED
    BY <1>2, <2>1, <2>3 DEF Forget, ListingOK, RowsOK, WalkOK
<1>4. CASE walk.pc \notin {"idle", "done"}
  <2>1. /\ came' = came + Arrived /\ went' = went + Departed
        /\ shown' = IF walk.pc = "page" /\ walk'.pc = "answer"
                    THEN shown \cup (walk'.got \X {walk.page}) ELSE shown
        /\ steady' = {i \in steady : Visible(i)'}
        /\ late' = IF walk.pc = "count" /\ walk'.pc = "page" THEN 0
                   ELSE IF walk.pc = "page" THEN late + Arrived ELSE late
        /\ lost' = IF walk.pc = "page" /\ walk'.pc = "answer" THEN lost + CutOff ELSE lost
    BY <1>4 DEF Remember
  <2>2. walk.pc = "page" /\ walk'.pc = "answer" => CutOff \in Nat
    <3>1. ASSUME walk.pc = "page", walk'.pc = "answer" PROVE FetchPage
      BY <3>1, EitherSide, MadeWalks DEF Read, StartWalk, CountRows, TurnPage, GiveUp, NoWalk
    <3> QED
      BY <3>1, FetchedPage
  <2>3. lost' \in Nat /\ late' \in Nat /\ came' \in Nat /\ went' \in Nat
    BY <2>1, <2>2, ArrivedCounts DEF ListingOK
  <2>4. shown' \in SUBSET (Rows \X (Nat \ {0}))
    <3>1. walk'.got \in SUBSET Rows /\ walk.page \in Nat \ {0}
      BY <1>1, <1>2 DEF WalkOK
    <3> QED
      BY <2>1, <3>1 DEF ListingOK
  <2>5. steady' \subseteq Listed'
    BY <2>1 DEF ListingOK, Listed, Visible
  <2> QED
    BY <1>2, <2>3, <2>4, <2>5 DEF ListingOK, RowsOK, WalkOK
<1> QED
  BY <1>3, <1>4

LEMMA SizeFits ==
  ASSUME ListingOK
  PROVE  /\ walk.size \in 1 .. MaxInt /\ walk.size \in Nat \ {0}
         /\ PerPageOf(walk.size) \in Nat \ {0} /\ PerPageOf(walk.size) <= walk.size
         /\ walk.size <= MaxPerPage => PerPageOf(walk.size) = walk.size
<1>1. PICK size \in Sizes \cup {DefaultPerPage} : size = walk.size
  BY DEF ListingOK
<1>2. size \in 1 .. MaxInt
  BY Numbers, Zenon
<1>3. size \in Nat \ {0}
  BY <1>2
<1> QED
  BY <1>1, <1>2, <1>3, SizeOfPage

(* What n pages of p rows leave of t rows.                                 *)
LEMMA LeftOver ==
  ASSUME NEW t \in Nat, NEW x \in Nat
  PROVE  /\ t - Smaller(t, x) \in Nat /\ t <= x + (t - Smaller(t, x))
         /\ t <= x => t - Smaller(t, x) = 0
BY DEF Smaller

LEMMA UnreadIs ==
  ASSUME ListingOK
  PROVE  /\ walk.total \in Nat /\ walk.page * PerPageOf(walk.size) \in Nat /\ Unread \in Nat
         /\ walk.total <= walk.page * PerPageOf(walk.size) + Unread
         /\ walk.total <= walk.page * PerPageOf(walk.size) => Unread = 0
<1>1. PICK t \in Nat : t = walk.total
  BY Numbers DEF ListingOK
<1>2. PICK n \in Nat \ {0} : n = walk.page
  BY DEF ListingOK
<1>3. PICK p \in Nat \ {0} : p = PerPageOf(walk.size)
  BY SizeFits
<1>4. PICK x \in Nat : x = n * p
  OBVIOUS
<1>5. Unread = t - Smaller(t, x)
  BY <1>1, <1>2, <1>3, <1>4 DEF Unread
<1> QED
  BY <1>1, <1>2, <1>3, <1>4, <1>5, LeftOver, Zenon

(* Where the page begins is where it should.                               *)
LEMMA OffsetIsStart ==
  ASSUME ListingOK, StartOf(walk.page) <= Cardinality(Rows)
  PROVE  /\ StartOf(walk.page) \in Nat
         /\ OffsetOf(walk.page, walk.size) = StartOf(walk.page)
<1>1. PICK n \in Nat \ {0} : n = walk.page
  BY DEF ListingOK
<1>2. PICK p \in Nat \ {0} : p = PerPageOf(walk.size)
  BY SizeFits
<1>3. (n - 1) * p \in Nat /\ PageOf(n) = n
  BY DEF PageOf
<1>4. StartOf(walk.page) = (n - 1) * p
  BY <1>1, <1>2 DEF StartOf
<1>5. (n - 1) * p <= MaxInt
  BY <1>3, <1>4, Numbers
<1>6. Wrapped((n - 1) * p) = (n - 1) * p
  BY <1>3, <1>5, FitsInt
<1> QED
  BY <1>1, <1>2, <1>3, <1>4, <1>6 DEF OffsetOf

(* The page holds those of the rows of their own time whose rank says so.  *)
LEMMA PageRanks ==
  ASSUME ListingOK, NEW o \in Nat, OffsetOf(walk.page, walk.size) = o,
         NEW p \in Nat \ {0}, PerPageOf(walk.size) = p,
         NEW S, NEW above, NEW T, Fetched(S, above, T), NEW i \in Kept
  PROVE  /\ i \in above => Rank(i) < o
         /\ i \in S => o <= Rank(i) /\ Rank(i) < o + p
         /\ i \notin S /\ i \notin above =>
              /\ o + p <= Rank(i)
              /\ Cardinality(Listed \ (S \cup above)) = Cardinality(Listed) - (o + p)
<1>1. /\ S \in SUBSET Listed /\ above \in SUBSET Listed /\ S \cap above = {}
      /\ Cardinality(above) = Smaller(o, Cardinality(Listed))
      /\ Cardinality(S) = Smaller(p, Cardinality(Listed) - Cardinality(above))
      /\ \A k \in above : \A j \in Listed \ above : row[k].at >= row[j].at
      /\ \A k \in S : \A j \in Listed \ (S \cup above) : row[k].at >= row[j].at
  BY DEF Fetched
<1>2. /\ Listed \in SUBSET Rows /\ S \in SUBSET Rows /\ above \in SUBSET Rows
      /\ i \in Listed /\ Newer(i) \in SUBSET Rows
  BY <1>1, Ranks
<1>3. \A j \in Listed : row[j].at \in Nat
  BY Ranks
<1>4. \A j \in Listed : j # i => row[j].at # row[i].at
  BY <1>2, Ranks DEF Alone
<1>5. /\ Cardinality(S \cup above) = Cardinality(S) + Cardinality(above)
      /\ Cardinality(S \cup above) \in Nat
      /\ Cardinality(S) \in Nat /\ Cardinality(above) \in Nat /\ Cardinality(Listed) \in Nat
      /\ Rank(i) \in Nat
  BY <1>1, <1>2, DisjointCounts, RowSets DEF Rank
<1>6. Cardinality(above) <= o /\ Cardinality(S) <= p
  BY <1>1, <1>5 DEF Smaller
<1>7. ASSUME i \in above PROVE Rank(i) < o
  <2>1. Newer(i) \subseteq above /\ i \notin Newer(i)
    BY <1>1, <1>2, <1>3, <1>7 DEF Newer
  <2>2. Rank(i) < Cardinality(above)
    BY <1>2, <1>7, <2>1, RowSetsOrdered DEF Rank
  <2> QED
    BY <1>5, <1>6, <2>2
<1>8. ASSUME i \in S PROVE o <= Rank(i) /\ Rank(i) < o + p
  <2>1. i \notin above
    BY <1>1, <1>8
  <2>2. above \subseteq Newer(i)
    BY <1>1, <1>2, <1>3, <1>4, <2>1 DEF Newer
  <2>3. Newer(i) \subseteq S \cup above /\ i \notin Newer(i)
    BY <1>1, <1>2, <1>3, <1>8 DEF Newer
  <2>4. Cardinality(above) <= Rank(i)
    BY <1>2, <2>2, RowSets DEF Rank
  <2>5. Rank(i) < Cardinality(S \cup above)
    BY <1>2, <1>8, <2>3, RowSetsOrdered DEF Rank
  <2>6. Cardinality(above) < Cardinality(Listed)
    BY <1>1, <1>2, <2>1, RowSetsOrdered
  <2>7. Cardinality(above) = o
    BY <1>1, <1>5, <2>6 DEF Smaller
  <2> QED
    BY <1>5, <1>6, <2>4, <2>5, <2>7
<1>9. ASSUME i \notin S, i \notin above
      PROVE  /\ o + p <= Rank(i)
             /\ Cardinality(Listed \ (S \cup above)) = Cardinality(Listed) - (o + p)
  <2>1. above \subseteq Newer(i)
    BY <1>1, <1>2, <1>3, <1>4, <1>9 DEF Newer
  <2>2. S \subseteq Newer(i)
    BY <1>1, <1>2, <1>3, <1>4, <1>9 DEF Newer
  <2>3. Cardinality(S \cup above) <= Rank(i)
    BY <1>2, <2>1, <2>2, RowSets DEF Rank
  <2>4. Cardinality(S \cup above) < Cardinality(Listed)
    BY <1>1, <1>2, <1>9, RowSetsOrdered
  <2>5. Cardinality(above) = o
    BY <1>1, <1>5, <2>4 DEF Smaller
  <2>6. Cardinality(S) = p
    BY <1>1, <1>5, <2>4, <2>5 DEF Smaller
  <2>7. Listed = (S \cup above) \cup (Listed \ (S \cup above))
    BY <1>1
  <2>8. Cardinality(Listed) = Cardinality(S \cup above) + Cardinality(Listed \ (S \cup above))
    <3>1. (S \cup above) \cap (Listed \ (S \cup above)) = {}
      OBVIOUS
    <3>2. S \cup above \in SUBSET Rows /\ Listed \ (S \cup above) \in SUBSET Rows
      BY <1>2
    <3> QED
      BY <2>7, <3>1, <3>2, DisjointCounts
  <2>9. Cardinality(Listed \ (S \cup above)) \in Nat
    BY <1>2, RowSets
  <2> QED
    BY <1>5, <2>3, <2>5, <2>6, <2>8, <2>9
<1> QED
  BY <1>7, <1>8, <1>9

-----------------------------------------------------------------------------
(* The walk                                                                *)

(* During a walk the rows that are kept become fewer.                      *)
LEMMA WalkMoves ==
  ASSUME ListingOK, Next, Remember, walk.pc \notin {"idle", "done"}
  PROVE  Moved
<1>1. RowsOK(row) /\ Born(row, row')
  <2>1. RowsOK(row) /\ clock \in Nat
    BY DEF ListingOK, RowsOK
  <2> QED
    BY <2>1, RowStep
<1>2. steady' = {i \in steady : Visible(i)'}
  BY DEF Remember
<1>3. ASSUME NEW i \in Kept' PROVE i \in Kept
  <2>1. i \in steady /\ i \in Listed /\ i \in Rows
    BY <1>2, <1>3 DEF Kept, ListingOK, Listed
  <2>2. i \in Alone'
    BY <1>3 DEF Kept
  <2>3. row[i].phase = "live" /\ row'[i].at = row[i].at /\ row[i].at # 0
    BY <1>1, <2>1 DEF Listed, Visible, RowsOK, Born
  <2>4. \A j \in Rows \ {i} : row[j].at # row[i].at
    <3>1. SUFFICES ASSUME NEW j \in Rows \ {i}, row[j].at = row[i].at PROVE FALSE
      OBVIOUS
    <3>2. row[j].phase # "unborn"
      BY <1>1, <2>3, <3>1 DEF RowsOK
    <3>3. row'[j].at = row[j].at
      BY <1>1, <3>2 DEF Born
    <3> QED
      BY <2>2, <2>3, <3>1, <3>3 DEF Alone
  <2> QED
    BY <2>1, <2>4 DEF Kept, Alone
<1> QED
  BY <1>1, <1>3 DEF Moved, Born

LEMMA StartsInt ==
  ASSUME ListingOK, NEW n \in Nat \ {0}
  PROVE  StartOf(n) \in Nat /\ StartOf(n + 1) = StartOf(n) + PerPageOf(walk.size)
<1>1. PICK p \in Nat \ {0} : p = PerPageOf(walk.size)
  BY SizeFits
<1>2. (n - 1) * p \in Nat /\ ((n + 1) - 1) * p = (n - 1) * p + p
  OBVIOUS
<1> QED
  BY <1>1, <1>2 DEF StartOf

(* The rows shown again are finitely many.                                 *)
LEMMA ShownFinite ==
  ASSUME ListingOK, NEW n \in Nat, \A s \in shown : s[2] < n
  PROVE  IsFiniteSet(shown) /\ IsFiniteSet(Again) /\ Cardinality(Again) \in Nat
<1>1. IsFiniteSet(Rows \X (1 .. n))
  <2>1. IsFiniteSet(1 .. n) /\ IsFiniteSet(Rows)
    BY Numbers, FS_Interval
  <2> QED
    BY <2>1, FS_Product
<1>2. shown \subseteq Rows \X (1 .. n)
  BY DEF ListingOK
<1>3. IsFiniteSet(shown)
  BY <1>1, <1>2, FS_Subset
<1>4. IsFiniteSet(Again)
  BY <1>3, FS_Subset DEF Again
<1> QED
  BY <1>3, <1>4, FS_CardinalityType

(* What was read stays explained when rows come and go.                    *)
LEMMA ReadUpToStays ==
  ASSUME ListingOK, ListingOK', Moved, NEW n \in Nat \ {0}, ReadUpTo(n),
         shown' = shown, walk'.size = walk.size,
         came' = came + Arrived, went' = went + Departed, lost' = lost
  PROVE  ReadUpTo(n)'
<1>1. PICK o \in Nat : o = StartOf(n)
  BY StartsInt
<1>2. StartOf(n)' = o
  BY <1>1 DEF StartOf
<1>3. Kept' \subseteq Kept /\ Kept \in SUBSET Listed /\ Kept \in SUBSET Rows
      /\ Kept' \in SUBSET Listed'
  BY Ranks DEF Moved, Kept, ListingOK
<1>4. Shown' = Shown
  BY DEF Shown
<1>5. Arrived \in Nat /\ Departed \in Nat
  BY ArrivedCounts
<1>6. ASSUME NEW i \in Kept'
      PROVE  /\ i \in Kept /\ Rank(i) \in Nat /\ Rank(i)' \in Nat
             /\ Rank(i)' <= Rank(i) + Arrived /\ Rank(i) <= Rank(i)' + Departed
  BY <1>3, <1>6, RankMoves
<1>7. Cardinality(Passed(n)') <= Cardinality(Passed(n)) + Departed
  <2> DEFINE Z == {i \in Kept : o <= Rank(i) /\ Rank(i) < o + Departed}
  <2>1. Cardinality(Z) <= Departed
    BY <1>5, RanksApart
  <2>2. Passed(n)' \subseteq Passed(n) \cup Z
    <3>1. SUFFICES ASSUME NEW i \in Passed(n)' PROVE i \in Passed(n) \cup Z
      OBVIOUS
    <3>2. i \in Kept' /\ i \notin Shown /\ Rank(i)' < o
      BY <1>2, <1>4, <3>1 DEF Passed
    <3>3. i \in Kept /\ Rank(i) \in Nat /\ Rank(i) < o + Departed
      BY <1>5, <1>6, <3>2
    <3>4. CASE Rank(i) < o
      BY <1>1, <3>2, <3>3, <3>4 DEF Passed
    <3>5. CASE ~(Rank(i) < o)
      BY <3>3, <3>5
    <3> QED
      BY <3>4, <3>5
  <2>3. Passed(n) \in SUBSET Rows /\ Z \in SUBSET Rows
    BY <1>3 DEF Passed
  <2> HIDE DEF Z
  <2>4. Cardinality(Passed(n)') <= Cardinality(Passed(n)) + Cardinality(Z)
    BY <2>2, <2>3, UnionCounts
  <2>5. Passed(n)' \in SUBSET Rows
    BY <2>2, <2>3
  <2> QED
    BY <1>5, <2>1, <2>3, <2>4, <2>5, RowSets
<1>8. Cardinality(Ahead(n)') <= Cardinality(Ahead(n)) + Arrived
  <2> DEFINE Z == {i \in Kept : o - Arrived <= Rank(i) /\ Rank(i) < (o - Arrived) + Arrived}
  <2>1. Cardinality(Z) <= Arrived
    <3>1. o - Arrived \in Int
      BY <1>5
    <3> QED
      BY <1>5, <3>1, RanksApart
  <2>2. Ahead(n)' \subseteq Ahead(n) \cup Z
    <3>1. SUFFICES ASSUME NEW i \in Ahead(n)' PROVE i \in Ahead(n) \cup Z
      OBVIOUS
    <3>2. i \in Kept' /\ i \in Shown /\ Rank(i)' >= o
      BY <1>2, <1>4, <3>1 DEF Ahead
    <3>3. i \in Kept /\ Rank(i) \in Nat /\ o - Arrived <= Rank(i)
      BY <1>5, <1>6, <3>2
    <3>4. CASE Rank(i) >= o
      BY <1>1, <3>2, <3>3, <3>4 DEF Ahead
    <3>5. CASE ~(Rank(i) >= o)
      BY <1>5, <3>3, <3>5
    <3> QED
      BY <3>4, <3>5
  <2>3. Ahead(n) \in SUBSET Rows /\ Z \in SUBSET Rows
    BY <1>3 DEF Ahead
  <2> HIDE DEF Z
  <2>4. Cardinality(Ahead(n)') <= Cardinality(Ahead(n)) + Cardinality(Z)
    BY <2>2, <2>3, UnionCounts
  <2>5. Ahead(n)' \in SUBSET Rows
    BY <2>2, <2>3
  <2> QED
    BY <1>5, <2>1, <2>3, <2>4, <2>5, RowSets
<1>9. \A s \in shown : s[2] < n
  BY DEF ReadUpTo
<1>10. IsFiniteSet(Again) /\ Cardinality(Again) \in Nat /\ Again' \subseteq Again
  <2>1. Again' \subseteq Again
    BY <1>3 DEF Again
  <2> QED
    BY <1>9, <2>1, ShownFinite
<1>11. IsFiniteSet(Again') /\ Cardinality(Again') <= Cardinality(Again) /\ Cardinality(Again') \in Nat
  BY <1>10, FS_Subset, FS_CardinalityType
<1>12. /\ Cardinality(Passed(n)) <= went + lost
       /\ Cardinality(Ahead(n)) + Cardinality(Again) <= came
  BY DEF ReadUpTo
<1>13. /\ Passed(n) \in SUBSET Rows /\ Ahead(n) \in SUBSET Rows
       /\ Passed(n)' \in SUBSET Rows /\ Ahead(n)' \in SUBSET Rows
  BY <1>3 DEF Passed, Ahead
<1>14. /\ Cardinality(Passed(n)) \in Nat /\ Cardinality(Ahead(n)) \in Nat
       /\ Cardinality(Passed(n)') \in Nat /\ Cardinality(Ahead(n)') \in Nat
  BY <1>13, RowSets
<1>15. came \in Nat /\ went \in Nat /\ lost \in Nat
  BY DEF ListingOK
<1>16. Cardinality(Passed(n)') <= went' + lost'
  BY <1>5, <1>7, <1>12, <1>14, <1>15
<1>17. Cardinality(Ahead(n)') + Cardinality(Again') <= came'
  BY <1>5, <1>8, <1>10, <1>11, <1>12, <1>14, <1>15
<1> QED
  BY <1>9, <1>16, <1>17 DEF ReadUpTo

(* A page that is fetched shows those that are due, and accounts for what  *)
(* broke off.                                                              *)
LEMMA FetchReads ==
  ASSUME ListingOK, ListingOK', Next, Remember, FetchPage,
         NEW n \in Nat \ {0}, n = walk.page, ReadUpTo(n), StartOf(n) <= Cardinality(Rows),
         Cardinality(Listed) <= walk.total + late
  PROVE  /\ ReadUpTo(n + 1)'
         /\ Cardinality(Kept' \ Shown') <= went' + late' + lost' + Unread'
<1>1. PICK o \in Nat : o = StartOf(n) /\ OffsetOf(walk.page, walk.size) = o
  BY OffsetIsStart
<1>2. PICK p \in Nat \ {0} : p = PerPageOf(walk.size)
  BY SizeFits
<1>3. StartOf(n + 1) = o + p
  BY <1>1, <1>2, StartsInt
<1>4. PICK S, above, T \in SUBSET Rows :
        Fetched(S, above, T) /\ CutOff = Cardinality(S \ T) /\ CutOff \in Nat
  BY FetchedPage
<1>5. /\ walk' = MakeWalk("answer", walk.size, walk.page, walk.total, T)
      /\ S \in SUBSET Listed /\ above \in SUBSET Listed /\ T \in SUBSET S
  BY <1>4 DEF Fetched
<1>6. /\ walk'.pc = "answer" /\ walk'.size = walk.size /\ walk'.got = T
      /\ walk.pc = "page" /\ row' = row
  BY <1>5, MadeWalks DEF FetchPage
<1>7. Listed' = Listed /\ \A i \in Rows : Newer(i)' = Newer(i)
  BY <1>6 DEF Listed, Visible, Newer
<1>8. \A i \in Rows : Rank(i)' = Rank(i)
  BY <1>7 DEF Rank
<1>9. StartOf(n + 1)' = o + p
  BY <1>3, <1>6 DEF StartOf
<1>10. /\ steady' = {i \in steady : Visible(i)'} /\ shown' = shown \cup (T \X {n})
       /\ came' = came + Arrived /\ went' = went + Departed
       /\ late' = late + Arrived /\ lost' = lost + CutOff
  BY <1>6 DEF Remember
<1>11. Kept' = Kept
  <2>1. steady' = steady
    BY <1>6, <1>10 DEF ListingOK, Listed, Visible
  <2> QED
    BY <1>6, <2>1 DEF Kept, Alone
<1>12. Shown' = Shown \cup T
  <2>1. \A s \in T \X {n} : s[1] \in T
    OBVIOUS
  <2>2. \A i \in T : \E s \in T \X {n} : s[1] = i
    <3>1. SUFFICES ASSUME NEW i \in T PROVE \E s \in T \X {n} : s[1] = i
      OBVIOUS
    <3>2. <<i, n>> \in T \X {n} /\ <<i, n>>[1] = i
      OBVIOUS
    <3> QED
      BY <3>2
  <2> QED
    BY <1>10, <2>1, <2>2 DEF Shown
<1>13. /\ Kept \in SUBSET Listed /\ Kept \in SUBSET Rows /\ Listed \in SUBSET Rows
       /\ \A i \in Kept : Rank(i) \in Nat
  BY Ranks
<1>14. ASSUME NEW i \in Kept
       PROVE  /\ i \in above => Rank(i) < o
              /\ i \in S => o <= Rank(i) /\ Rank(i) < o + p
              /\ i \notin S /\ i \notin above =>
                   /\ o + p <= Rank(i)
                   /\ Cardinality(Listed \ (S \cup above)) = Cardinality(Listed) - (o + p)
  <2>1. Fetched(S, above, T)
    BY <1>4
  <2>2. OffsetOf(walk.page, walk.size) = o /\ PerPageOf(walk.size) = p
    BY <1>1, <1>2
  <2> QED
    BY <2>1, <2>2, PageRanks, SMTT(30)
<1>15. Arrived \in Nat /\ Departed \in Nat
  BY ArrivedCounts
<1>16. came \in Nat /\ went \in Nat /\ late \in Nat /\ lost \in Nat
  BY DEF ListingOK
<1>17. /\ Cardinality(Passed(n)) <= went + lost
       /\ Cardinality(Ahead(n)) + Cardinality(Again) <= came
       /\ \A s \in shown : s[2] < n
  BY DEF ReadUpTo
<1>18. /\ Passed(n) \in SUBSET Rows /\ Ahead(n) \in SUBSET Rows /\ S \ T \in SUBSET Rows
       /\ Cardinality(Passed(n)) \in Nat /\ Cardinality(Ahead(n)) \in Nat
  BY <1>4, <1>13, RowSets DEF Passed, Ahead
<1>19. Passed(n + 1)' \subseteq Passed(n) \cup (S \ T)
  <2>1. SUFFICES ASSUME NEW i \in Passed(n + 1)' PROVE i \in Passed(n) \cup (S \ T)
    OBVIOUS
  <2>2. i \in Kept /\ i \notin Shown /\ i \notin T /\ Rank(i) < o + p
    BY <1>8, <1>9, <1>11, <1>12, <1>13, <2>1 DEF Passed
  <2>3. CASE i \in S
    BY <2>2, <2>3
  <2>4. CASE i \notin S
    <3>1. i \in above
      BY <1>13, <1>14, <2>2, <2>4
    <3> QED
      BY <1>1, <1>14, <2>2, <3>1 DEF Passed
  <2> QED
    BY <2>3, <2>4
<1>20. /\ Cardinality(Passed(n + 1)') <= Cardinality(Passed(n)) + CutOff
       /\ Passed(n + 1)' \in SUBSET Rows /\ Cardinality(Passed(n + 1)') \in Nat
  BY <1>4, <1>18, <1>19, UnionCounts, RowSets
<1>21. Cardinality(Passed(n + 1)') <= went' + lost'
  BY <1>4, <1>10, <1>15, <1>16, <1>17, <1>18, <1>20
(* Those shown before that are on this page are shown again, and no longer *)
(* ahead.                                                                  *)
<1> DEFINE Twice == {i \in Kept \cap T : i \in Shown}
<1>22. Again' = Again \cup (Twice \X {n}) /\ Again \cap (Twice \X {n}) = {}
  <2>1. \A s \in shown : s[2] < n /\ s[2] \in Nat
    BY <1>17 DEF ListingOK
  <2>2. ASSUME NEW s \in Again' PROVE s \in Again \cup (Twice \X {n})
    <3>1. /\ s \in shown \cup (T \X {n}) /\ s[1] \in Kept
          /\ \E m \in 1 .. s[2] - 1 : <<s[1], m>> \in shown \cup (T \X {n})
      BY <1>10, <1>11, <2>2 DEF Again
    <3>2. PICK m \in 1 .. s[2] - 1 : <<s[1], m>> \in shown \cup (T \X {n})
      BY <3>1
    <3>3. s[2] \in Nat /\ s[2] <= n
      BY <2>1, <3>1
    <3>4. m < n /\ m # n
      BY <3>2, <3>3
    <3>5. <<s[1], m>> \in shown
      BY <3>2, <3>4
    <3>6. CASE s \in shown
      BY <3>1, <3>2, <3>5, <3>6 DEF Again
    <3>7. CASE s \in T \X {n}
      <4>1. s[1] \in Shown
        <5>1. <<s[1], m>>[1] = s[1]
          OBVIOUS
        <5> QED
          BY <3>5, <5>1, Zenon DEF Shown
      <4> QED
        BY <3>1, <3>7, <4>1
    <3> QED
      BY <3>1, <3>6, <3>7
  <2>3. ASSUME NEW s \in Again PROVE s \in Again'
    BY <1>10, <1>11, <2>3 DEF Again
  <2>4. ASSUME NEW i \in Twice PROVE <<i, n>> \in Again'
    <3>1. PICK s \in shown : s[1] = i
      BY <2>4 DEF Shown
    <3>2. s = <<i, s[2]>> /\ s[2] \in 1 .. n - 1
      BY <2>1, <3>1 DEF ListingOK
    <3>3. <<i, s[2]>> \in shown'
      BY <1>10, <3>1, <3>2
    <3>4. <<i, n>> \in shown' /\ <<i, n>>[1] = i /\ <<i, n>>[2] = n
      BY <1>10, <2>4
    <3>5. i \in Kept'
      BY <1>11, <2>4
    <3> QED
      BY <3>2, <3>3, <3>4, <3>5 DEF Again
  <2>5. \A s \in Twice \X {n} : s[2] = n
    OBVIOUS
  <2>6. Again \cap (Twice \X {n}) = {}
    BY <2>1, <2>5 DEF Again
  <2>7. \A s \in Twice \X {n} : s \in Again'
    BY <2>4
  <2> HIDE DEF Twice
  <2> QED
    BY <2>2, <2>3, <2>6, <2>7
<1>23. /\ Twice \in SUBSET Rows /\ IsFiniteSet(Twice) /\ Cardinality(Twice) \in Nat
       /\ Twice \subseteq Ahead(n)
  <2>1. Twice \in SUBSET Rows
    BY <1>13
  <2>2. Twice \subseteq Ahead(n)
    BY <1>1, <1>5, <1>14 DEF Ahead
  <2> QED
    BY <2>1, <2>2, RowSets
<1>24. Ahead(n + 1)' \subseteq Ahead(n) \ Twice
  <2>1. SUFFICES ASSUME NEW i \in Ahead(n + 1)' PROVE i \in Ahead(n) \ Twice
    OBVIOUS
  <2>2. i \in Kept /\ (i \in Shown \/ i \in T) /\ Rank(i) >= o + p
    BY <1>8, <1>9, <1>11, <1>12, <1>13, <2>1 DEF Ahead
  <2>3. i \notin S
    BY <1>13, <1>14, <2>2
  <2>4. i \in Shown /\ i \notin T /\ Rank(i) >= o
    BY <1>5, <1>13, <2>2, <2>3
  <2> QED
    BY <1>1, <2>2, <2>4 DEF Ahead
<1> HIDE DEF Twice
<1>25. Cardinality(Ahead(n)) = Cardinality(Ahead(n) \ Twice) + Cardinality(Twice)
  <2>1. Ahead(n) = (Ahead(n) \ Twice) \cup Twice /\ (Ahead(n) \ Twice) \cap Twice = {}
    BY <1>23
  <2>2. Ahead(n) \ Twice \in SUBSET Rows
    BY <1>18
  <2> QED
    BY <1>23, <2>1, <2>2, DisjointCounts
<1>26. /\ Cardinality(Ahead(n + 1)') <= Cardinality(Ahead(n) \ Twice)
       /\ Cardinality(Ahead(n + 1)') \in Nat /\ Cardinality(Ahead(n) \ Twice) \in Nat
  <2>1. Ahead(n) \ Twice \in SUBSET Rows
    BY <1>18
  <2> QED
    BY <1>24, <2>1, RowSets
<1>27. /\ Cardinality(Again') = Cardinality(Again) + Cardinality(Twice)
       /\ Cardinality(Again) \in Nat
  <2>1. IsFiniteSet(Again) /\ Cardinality(Again) \in Nat
    BY <1>17, ShownFinite
  <2>2. IsFiniteSet({n}) /\ Cardinality({n}) = 1
    BY FS_Singleton
  <2>3. IsFiniteSet(Twice \X {n}) /\ Cardinality(Twice \X {n}) = Cardinality(Twice) * 1
    BY <1>23, <2>2, FS_Product
  <2>4. Cardinality(Again') =
          Cardinality(Again) + Cardinality(Twice \X {n}) - Cardinality(Again \cap (Twice \X {n}))
    BY <1>22, <2>1, <2>3, FS_Union
  <2>5. Cardinality(Again \cap (Twice \X {n})) = 0
    BY <1>22, FS_EmptySet
  <2> QED
    BY <1>23, <2>1, <2>3, <2>4, <2>5
<1>28. Cardinality(Ahead(n + 1)') + Cardinality(Again') <= came'
  BY <1>10, <1>15, <1>16, <1>17, <1>23, <1>25, <1>26, <1>27
<1>29. \A s \in shown' : s[2] < n + 1
  BY <1>10, <1>17 DEF ListingOK
<1>30. ReadUpTo(n + 1)'
  BY <1>21, <1>28, <1>29 DEF ReadUpTo
<1>31. Cardinality(Kept' \ Shown') <= went' + late' + lost' + Unread'
  <2>1. PICK u \in Nat : u = Unread' /\ walk.total <= (o + p) + u
    <3>1. Unread' = Unread
      <4>1. walk'.page = walk.page /\ walk'.total = walk.total
        BY <1>5, MadeWalks
      <4> QED
        BY <1>6, <4>1 DEF Unread
    <3>2. o + p = n * p
      BY <1>1, <1>2, Successor DEF StartOf
    <3>3. Unread \in Nat /\ walk.total <= n * p + Unread
      BY <1>2, UnreadIs
    <3> QED
      BY <3>1, <3>2, <3>3
  <2> DEFINE Beyond == {i \in Kept : i \notin S /\ i \notin above}
  <2>2. Beyond \in SUBSET Rows /\ Cardinality(Beyond) \in Nat
    BY <1>13, RowSets
  <2>3. Cardinality(Beyond) <= late + u
    <3>1. CASE Beyond = {}
      <4>1. Cardinality(Beyond) = 0
        BY <3>1, FS_EmptySet
      <4> QED
        BY <1>16, <4>1
    <3>2. CASE Beyond # {}
      <4>1. Cardinality(Listed \ (S \cup above)) = Cardinality(Listed) - (o + p)
        BY <1>14, <3>2
      <4>2. Beyond \subseteq Listed \ (S \cup above) /\ Listed \ (S \cup above) \in SUBSET Rows
        BY <1>13
      <4>3. Cardinality(Beyond) <= Cardinality(Listed \ (S \cup above))
        BY <4>2, RowSets
      <4>4. Cardinality(Listed) \in Nat /\ walk.total \in Nat
        BY <1>13, RowSets, Numbers DEF ListingOK
      <4> QED
        BY <1>2, <1>16, <2>1, <2>2, <4>1, <4>3, <4>4
    <3> QED
      BY <3>1, <3>2
  <2>4. Kept' \ Shown' \subseteq Passed(n + 1)' \cup Beyond
    <3>1. SUFFICES ASSUME NEW i \in Kept, i \notin Shown, i \notin T, i \notin Beyond
                   PROVE  i \in Passed(n + 1)'
      BY <1>11, <1>12
    <3>2. Rank(i) < o + p
      BY <1>2, <1>13, <1>14, <3>1
    <3> QED
      BY <1>8, <1>9, <1>11, <1>12, <1>13, <3>1, <3>2 DEF Passed
  <2> HIDE DEF Beyond
  <2>5. Cardinality(Kept' \ Shown') <= Cardinality(Passed(n + 1)') + Cardinality(Beyond)
    BY <1>20, <2>2, <2>4, UnionCounts
  <2>6. Cardinality(Kept' \ Shown') \in Nat
    BY <1>11, <1>13, RowSets
  <2>7. late' >= late /\ went' \in Nat /\ lost' \in Nat /\ late' \in Nat
    BY <1>4, <1>10, <1>15, <1>16
  <2> QED
    BY <1>16, <1>20, <1>21, <2>1, <2>2, <2>3, <2>5, <2>6, <2>7
<1> QED
  BY <1>30, <1>31

LEMMA SumsAreNat == \A a, b, c \in Nat : 0 <= a + b /\ 0 + 0 <= c
OBVIOUS

(* When a walk begins nothing is read yet.                                 *)
LEMMA NothingRead ==
  ASSUME ListingOK', shown' = {}, StartOf(1)' = 0
  PROVE  ReadUpTo(1)'
<1>1. Shown' = {} /\ Again' = {}
  BY DEF Shown, Again
<1>2. Passed(1)' = {} /\ Ahead(1)' = {}
  <2>1. ASSUME NEW i \in Rows PROVE Rank(i)' \in Nat
    <3>1. Newer(i)' \in SUBSET Rows
      BY DEF Newer, Listed
    <3> QED
      BY <3>1, RowSets DEF Rank
  <2>2. Kept' \in SUBSET Rows
    BY DEF Kept, Alone
  <2> QED
    BY <1>1, <2>1, <2>2 DEF Passed, Ahead
<1>3. PICK a \in Nat, b \in Nat, c \in Nat : a = went' /\ b = lost' /\ c = came'
  BY DEF ListingOK
<1>4. 0 <= a + b /\ 0 + 0 <= c
  BY <1>3, SumsAreNat, Zenon
<1>5. /\ Cardinality(Passed(1)') = 0 /\ Cardinality(Ahead(1)') = 0 /\ Cardinality(Again') = 0
  BY <1>1, <1>2, FS_EmptySet, Zenon
<1>6. \A s \in shown' : s[2] < 1
  OBVIOUS
<1> QED
  BY <1>3, <1>4, <1>5, <1>6, Zenon DEF ReadUpTo

LEMMA UnreadNat ==
  ASSUME ListingOK'
  PROVE  Unread' \in Nat
<1>1. PICK t \in Nat, n \in Nat \ {0}, size \in Sizes \cup {DefaultPerPage} :
        t = walk'.total /\ n = walk'.page /\ size = walk'.size
  BY Numbers DEF ListingOK
<1>2. size \in 1 .. MaxInt
  BY Numbers, Zenon
<1>3. PICK p \in Nat \ {0} : p = PerPageOf(size)
  BY <1>2, SizeOfPage
<1>4. PICK x \in Nat : x = n * p
  OBVIOUS
<1>5. Unread' = t - Smaller(t, x)
  BY <1>1, <1>3, <1>4 DEF Unread
<1> QED
  BY <1>5, LeftOver

(* A step while there is no walk.                                          *)
LEMMA NoWalkStep ==
  ASSUME ListingOK, ListingOK', Next, Remember, walk.pc \in {"idle", "done"}
  PROVE  WalkInv'
<1>1. Forget(IF walk'.pc = "count" THEN Listed ELSE {})
  BY DEF Remember
<1>2. shown' = {} /\ came' = 0 /\ went' = 0 /\ late' = 0 /\ lost' = 0
  BY <1>1 DEF Forget
<1>3. CASE StartWalk
  <2>1. PICK size \in Sizes \cup {DefaultPerPage} : walk' = MakeWalk("count", size, 1, 0, {})
    BY <1>3 DEF StartWalk
  <2>2. walk'.pc = "count" /\ walk'.page = 1
    BY <2>1, MadeWalks
  <2>3. StartOf(1)' = 0
    <3>1. PICK p \in Int : p = PerPageOf(walk'.size)
      <4>1. walk'.size = size
        BY <2>1, MadeWalks
      <4>2. size \in Int
        BY Numbers, Zenon
      <4>3. PerPageOf(size) \in Int
        BY <4>2, Numbers
      <4> QED
        BY <4>1, <4>3
    <3>2. (1 - 1) * p = 0
      OBVIOUS
    <3> QED
      BY <3>1, <3>2 DEF StartOf
  <2>4. ReadUpTo(1)'
    BY <1>2, <2>3, NothingRead
  <2>5. 0 <= Cardinality(Rows)
    BY Numbers
  <2> QED
    BY <2>2, <2>3, <2>4, <2>5 DEF WalkInv, MissesExplained, RepeatsExplained
<1>4. CASE walk'.pc \in {"idle", "done"}
  <2>1. steady' = {}
    BY <1>1, <1>4 DEF Forget
  <2>2. Kept' = {} /\ Again' = {} /\ Kept' \ Shown' = {}
    BY <1>2, <2>1 DEF Kept, Again
  <2>3. Cardinality(Kept' \ Shown') = 0 /\ Cardinality(Again') = 0
    BY <2>2, FS_EmptySet
  <2>4. PICK u \in Nat : u = IF walk'.size > MaxPerPage THEN Unread' ELSE 0
    BY UnreadNat, Zenon
  <2>5. /\ Cardinality(Kept' \ Shown') <=
             went' + late' + lost' + (IF walk'.size > MaxPerPage THEN Unread' ELSE 0)
        /\ Cardinality(Again') <= came'
    <3>1. 0 <= 0 + 0 + 0 + u /\ 0 <= 0
      OBVIOUS
    <3> QED
      BY <1>2, <2>3, <2>4, <3>1, Zenon
  <2> QED
    BY <1>4, <2>5 DEF WalkInv, MissesExplained, RepeatsExplained
<1>5. StartWalk \/ walk' = walk
  BY EitherSide DEF Read, CountRows, FetchPage, TurnPage, GiveUp
<1> QED
  BY <1>3, <1>4, <1>5

(* A step of a walk that fetches nothing.                                  *)
LEMMA WalkEffects ==
  ASSUME ListingOK, Next, Remember, walk.pc \notin {"idle", "done"}, ~FetchPage
  PROVE  /\ shown' = shown /\ lost' = lost
         /\ came' = came + Arrived /\ went' = went + Departed
         /\ walk.pc = "page" => late' = late + Arrived
         /\ walk.pc = "count" /\ walk'.pc = "page" => late' = 0
         /\ walk.pc = "answer" => late' = late
<1>1. ~(walk.pc = "page" /\ walk'.pc = "answer")
  <2>1. SUFFICES ASSUME walk.pc = "page", walk'.pc = "answer" PROVE FALSE
    OBVIOUS
  <2>2. GiveUp
    BY <2>1, EitherSide DEF Read, StartWalk, CountRows, TurnPage
  <2> QED
    BY <2>1, <2>2, MadeWalks DEF GiveUp, NoWalk
<1> QED
  BY <1>1 DEF Remember

LEMMA NextWalkInv ==
  ASSUME ListingOK, ListingOK', WalkInv, Next, Remember
  PROVE  WalkInv'
<1>1. CASE walk.pc \in {"idle", "done"}
  BY <1>1, NoWalkStep
<1>2. CASE walk.pc \notin {"idle", "done"} /\ FetchPage
  <2>1. PICK n \in Nat \ {0} : n = walk.page
    BY DEF ListingOK
  <2>2. walk.pc = "page"
    BY <1>2 DEF FetchPage
  <2>3. /\ ReadUpTo(n) /\ StartOf(n) <= Cardinality(Rows)
        /\ Cardinality(Listed) <= walk.total + late
    BY <2>1, <2>2 DEF WalkInv
  <2>4. ReadUpTo(n + 1)' /\ Cardinality(Kept' \ Shown') <= went' + late' + lost' + Unread'
    BY <1>2, <2>1, <2>3, FetchReads
  <2>5. \E T : walk' = MakeWalk("answer", walk.size, walk.page, walk.total, T)
    BY <1>2 DEF FetchPage
  <2>6. walk'.pc = "answer" /\ walk'.page = n /\ walk'.total = walk.total /\ walk'.size = walk.size
    BY <2>1, <2>5, MadeWalks
  <2> QED
    BY <2>4, <2>6 DEF WalkInv, MissesExplained, RepeatsExplained
<1>3. CASE walk.pc \notin {"idle", "done"} /\ ~FetchPage
  <2>1. Moved
    BY <1>3, WalkMoves
  <2>2. /\ shown' = shown /\ lost' = lost
        /\ came' = came + Arrived /\ went' = went + Departed
        /\ walk.pc = "page" => late' = late + Arrived
        /\ walk.pc = "count" /\ walk'.pc = "page" => late' = 0
        /\ walk.pc = "answer" => late' = late
    BY <1>3, WalkEffects
  <2>3. PICK n \in Nat \ {0} : n = walk.page
    BY DEF ListingOK
  <2>4. ASSUME NEW m \in Nat \ {0}, ReadUpTo(m), walk'.size = walk.size
        PROVE  ReadUpTo(m)'
    BY <2>1, <2>2, <2>4, ReadUpToStays
  <2>5. walk'.size = walk.size => \A m \in Nat : StartOf(m)' = StartOf(m)
    BY DEF StartOf
  <2>6. Arrived \in Nat /\ Departed \in Nat
    BY ArrivedCounts
  <2>7. /\ came \in Nat /\ went \in Nat /\ late \in Nat /\ lost \in Nat
        /\ walk.pc = "count" \/ walk.pc = "page" \/ walk.pc = "answer"
        /\ Unread \in Nat
    BY <1>3, UnreadIs DEF ListingOK
  <2>8. CASE walk' = walk
    <3>1. CASE walk.pc \in {"count", "page"}
      <4>1. ReadUpTo(n) /\ StartOf(n) <= Cardinality(Rows)
        BY <2>3, <3>1 DEF WalkInv
      <4>2. ReadUpTo(n)' /\ StartOf(n)' <= Cardinality(Rows)
        BY <2>4, <2>5, <2>8, <4>1
      <4>3. walk.pc = "page" => Cardinality(Listed)' <= walk'.total + late'
        <5>1. SUFFICES ASSUME walk.pc = "page"
                       PROVE  Cardinality(Listed)' <= walk.total + (late + Arrived)
          BY <2>2, <2>8
        <5>2. Cardinality(Listed) <= walk.total + late
          BY <5>1 DEF WalkInv
        <5>3. Cardinality(Listed) \in Nat /\ Cardinality(Listed)' \in Nat /\ walk.total \in Nat
          BY RowSets, UnreadIs DEF Listed
        <5> QED
          BY <2>6, <2>7, <5>2, <5>3, ListedGrows
      <4> QED
        BY <2>3, <2>8, <3>1, <4>2, <4>3 DEF WalkInv, MissesExplained, RepeatsExplained
    <3>2. CASE walk.pc = "answer"
      <4>1. ReadUpTo(n + 1)
        BY <2>3, <3>2 DEF WalkInv
      <4>2. ReadUpTo(n + 1)'
        BY <2>4, <2>8, <4>1
      <4>3. Cardinality(Kept' \ Shown') <= went' + late' + lost' + Unread'
        <5>1. Cardinality(Kept \ Shown) <= went + late + lost + Unread
          BY <2>3, <3>2 DEF WalkInv
        <5>2. Kept' \ Shown' \in SUBSET (Kept \ Shown) /\ Kept \ Shown \in SUBSET Rows
          BY <2>1, <2>2, Ranks DEF Moved, Shown
        <5>3. /\ Cardinality(Kept' \ Shown') <= Cardinality(Kept \ Shown)
              /\ Cardinality(Kept' \ Shown') \in Nat /\ Cardinality(Kept \ Shown) \in Nat
          BY <5>2, RowSets
        <5>4. Unread' = Unread
          BY <2>8 DEF Unread
        <5> QED
          BY <2>2, <2>6, <2>7, <3>2, <5>1, <5>3, <5>4
      <4> QED
        BY <2>3, <2>8, <3>2, <4>2, <4>3 DEF WalkInv, MissesExplained, RepeatsExplained
    <3> QED
      BY <2>7, <3>1, <3>2
  <2>9. CASE CountRows
    <3>1. /\ walk.pc = "count"
          /\ walk' = MakeWalk("page", walk.size, walk.page, Cardinality(Listed), {})
      BY <2>9 DEF CountRows
    <3>2. /\ walk'.pc = "page" /\ walk'.size = walk.size /\ walk'.page = n
          /\ walk'.total = Cardinality(Listed)
      BY <2>3, <3>1, MadeWalks
    <3>3. ReadUpTo(n) /\ StartOf(n) <= Cardinality(Rows)
      BY <2>3, <3>1 DEF WalkInv
    <3>4. ReadUpTo(n)' /\ StartOf(n)' <= Cardinality(Rows)
      BY <2>4, <2>5, <3>2, <3>3
    <3>5. Cardinality(Listed)' <= walk'.total + late'
      <4>1. Listed' = Listed
        BY <2>9 DEF CountRows, Listed, Visible
      <4>2. Cardinality(Listed) \in Nat /\ late' = 0
        BY <2>2, <3>1, <3>2, RowSets DEF Listed
      <4> QED
        BY <3>2, <4>1, <4>2
    <3> QED
      BY <3>2, <3>4, <3>5 DEF WalkInv, MissesExplained, RepeatsExplained
  <2>10. CASE TurnPage
    <3>1. walk.pc = "answer" /\ ReadUpTo(n + 1)
      BY <2>3, <2>10 DEF WalkInv, TurnPage
    <3>2. PICK t \in Nat : t = walk.total /\ t <= Cardinality(Rows)
      BY Numbers DEF ListingOK
    <3>3. PICK a \in Nat \ {0}, p \in Nat \ {0} :
            /\ a = walk.size /\ p = PerPageOf(walk.size) /\ p <= a
            /\ a <= MaxPerPage => p = a
      BY SizeFits, Zenon
    <3>4. PICK pages \in Nat \ {0} : /\ pages = TotalPages(t, a) /\ t <= pages * a
                                     /\ t > 0 => (pages - 1) * a < t
                                     /\ t = 0 => pages = 1
      BY LastPage, Zenon
    <3>5. CASE n < pages
      <4>1. walk' = MakeWalk("count", walk.size, n + 1, 0, {})
        BY <2>3, <2>10, <3>2, <3>3, <3>4, <3>5 DEF TurnPage
      <4>2. walk'.pc = "count" /\ walk'.size = walk.size /\ walk'.page = n + 1
        BY <4>1, MadeWalks
      <4>3. ReadUpTo(n + 1)'
        BY <2>4, <3>1, <4>2
      <4>4. StartOf(n + 1)' <= Cardinality(Rows)
        <5>1. StartOf(n + 1)' = n * p
          BY <2>5, <3>3, <4>2 DEF StartOf
        <5>2. n * p <= n * a
          <6>1. p * n <= a * n
            BY <3>3, TimesGrows
          <6> QED
            BY <6>1
        <5>3. n * a <= (pages - 1) * a
          <6>1. n <= pages - 1
            BY <3>5
          <6> QED
            BY <6>1, TimesGrows
        <5>4. (pages - 1) * a < t
          BY <3>4, <3>5
        <5>5. n * p \in Int /\ n * a \in Int /\ (pages - 1) * a \in Int
          OBVIOUS
        <5> QED
          BY <3>2, <5>1, <5>2, <5>3, <5>4, <5>5, Numbers
      <4> QED
        BY <4>2, <4>3, <4>4 DEF WalkInv, MissesExplained, RepeatsExplained
    <3>6. CASE ~(n < pages)
      <4>1. walk' = MakeWalk("done", walk.size, n, walk.total, {})
        BY <2>3, <2>10, <3>2, <3>3, <3>4, <3>6 DEF TurnPage
      <4>2. /\ walk'.pc = "done" /\ walk'.size = walk.size /\ walk'.page = n
            /\ walk'.total = walk.total
        BY <4>1, MadeWalks
      <4>3. Unread' = Unread /\ (a <= MaxPerPage => Unread = 0)
        <5>1. Unread' = Unread
          BY <2>3, <4>2 DEF Unread
        <5>2. ASSUME a <= MaxPerPage PROVE Unread = 0
          <6>1. p = a /\ pages <= n
            BY <3>3, <3>6, <5>2
          <6>2. pages * a <= n * a
            BY <6>1, TimesGrows
          <6>3. pages * a \in Int /\ n * a \in Int
            OBVIOUS
          <6>4. t <= n * a
            BY <3>4, <6>2, <6>3
          <6> QED
            BY <2>3, <3>2, <3>3, <6>1, <6>4, UnreadIs
        <5> QED
          BY <5>1, <5>2
      <4>4. Cardinality(Kept \ Shown) <= went + late + lost + Unread
        BY <3>1 DEF WalkInv
      <4>5. Kept' \ Shown' \in SUBSET (Kept \ Shown) /\ Kept \ Shown \in SUBSET Rows
        BY <2>1, <2>2, Ranks DEF Moved, Shown
      <4>6. /\ Cardinality(Kept' \ Shown') <= Cardinality(Kept \ Shown)
            /\ Cardinality(Kept' \ Shown') \in Nat /\ Cardinality(Kept \ Shown) \in Nat
        BY <4>5, RowSets
      <4>7. Cardinality(Kept' \ Shown') <=
              went' + late' + lost' + (IF walk'.size > MaxPerPage THEN Unread' ELSE 0)
        BY <2>2, <2>6, <2>7, <3>1, <3>3, <4>2, <4>3, <4>4, <4>6, Numbers
      <4>8. ReadUpTo(n + 1)'
        BY <2>4, <3>1, <4>2
      <4>9. Cardinality(Again') <= came'
        <5>1. Cardinality(Ahead(n + 1)') + Cardinality(Again') <= came'
          BY <4>8 DEF ReadUpTo
        <5>2. Cardinality(Ahead(n + 1)') \in Nat
          <6>1. Ahead(n + 1)' \in SUBSET Rows
            BY <2>1, Ranks DEF Moved, Ahead
          <6> QED
            BY <6>1, RowSets
        <5>3. Cardinality(Again') \in Nat
          <6>1. \A s \in shown : s[2] < n + 1
            BY <3>1 DEF ReadUpTo
          <6>2. IsFiniteSet(Again)
            BY <6>1, ShownFinite
          <6>3. Again' \subseteq Again
            BY <2>1, <2>2 DEF Again, Moved
          <6> QED
            BY <6>2, <6>3, FS_Subset, FS_CardinalityType
        <5> QED
          BY <2>2, <2>6, <2>7, <5>1, <5>2, <5>3
      <4> QED
        BY <4>2, <4>7, <4>9 DEF WalkInv, MissesExplained, RepeatsExplained
    <3> QED
      BY <3>5, <3>6
  <2>11. CASE GiveUp
    <3>1. walk'.pc = "idle"
      BY <2>11, MadeWalks DEF GiveUp, NoWalk
    <3> QED
      BY <3>1 DEF WalkInv, MissesExplained, RepeatsExplained
  <2> QED
    BY <1>3, <2>8, <2>9, <2>10, <2>11, EitherSide DEF Read, StartWalk
<1> QED
  BY <1>1, <1>2, <1>3

LEMMA InitListing == HistoryInit => ListingOK /\ WalkInv
<1> SUFFICES ASSUME HistoryInit PROVE ListingOK /\ WalkInv
  OBVIOUS
<1>1. /\ row = [i \in Rows |-> MakeRow("unborn", 0, FALSE)] /\ clock = 0
      /\ walk = MakeWalk("idle", DefaultPerPage, 1, 0, {}) /\ shown = {} /\ steady = {}
      /\ came = 0 /\ went = 0 /\ late = 0 /\ lost = 0
  BY DEF HistoryInit, Init, NoWalk
<1>2. RowsOK(row)
  <2>1. /\ MakeRow("unborn", 0, FALSE) \in [phase : {"unborn", "open", "live", "gone"},
                                            at : Nat, fits : BOOLEAN]
        /\ MakeRow("unborn", 0, FALSE).phase = "unborn" /\ MakeRow("unborn", 0, FALSE).at = 0
    BY DEF MakeRow
  <2> QED
    BY <1>1, <2>1 DEF RowsOK
<1>3. WalkOK(walk) /\ walk.pc = "idle"
  BY <1>1, Numbers DEF WalkOK, MakeWalk
<1> QED
  BY <1>1, <1>2, <1>3 DEF ListingOK, RowsOK, WalkOK, WalkInv, MissesExplained, RepeatsExplained

(* The ranks account for every walk: the rows it passed over left the list *)
(* or broke off, and those it met again were moved down.                   *)
THEOREM WalkInductive == HistorySpec => [](ListingOK /\ WalkInv)
<1>1. ListingOK /\ WalkInv /\ [Next /\ Remember]_<<vars, history>> => (ListingOK /\ WalkInv)'
  <2> SUFFICES ASSUME ListingOK, WalkInv, [Next /\ Remember]_<<vars, history>>
               PROVE  ListingOK' /\ WalkInv'
    OBVIOUS
  <2>1. CASE Next /\ Remember
    BY <2>1, NextListingOK, NextWalkInv
  <2>2. CASE UNCHANGED <<vars, history>>
    <3>1. /\ row' = row /\ clock' = clock /\ walk' = walk /\ shown' = shown /\ steady' = steady
          /\ came' = came /\ went' = went /\ late' = late /\ lost' = lost
      BY <2>2 DEF vars, history
    <3>2. /\ Listed' = Listed /\ Kept' = Kept /\ Shown' = Shown /\ Again' = Again
          /\ Unread' = Unread
      BY <3>1 DEF Listed, Visible, Kept, Alone, Shown, Again, Unread
    <3>3. \A n : ReadUpTo(n)' = ReadUpTo(n) /\ StartOf(n)' = StartOf(n)
      BY <3>1, <3>2 DEF ReadUpTo, StartOf, Passed, Ahead, Rank, Newer
    <3> QED
      BY <3>1, <3>2, <3>3 DEF ListingOK, WalkInv, MissesExplained, RepeatsExplained
  <2> QED
    BY <2>1, <2>2
<1> QED
  BY <1>1, InitListing, PTL DEF HistorySpec

(* What a walk through the pages misses is accounted for, for any number   *)
(* of rows and pages.                                                      *)
THEOREM MissesTheorem == HistorySpec => []MissesExplained
<1>1. WalkInv => MissesExplained
  BY DEF WalkInv
<1> QED
  BY <1>1, WalkInductive, PTL

(* What a walk shows again is accounted for too.                           *)
THEOREM RepeatsTheorem == HistorySpec => []RepeatsExplained
<1>1. WalkInv => RepeatsExplained
  BY DEF WalkInv
<1> QED
  BY <1>1, WalkInductive, PTL
=============================================================================
