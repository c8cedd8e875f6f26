--------------------------- MODULE PageMemoryProofs ---------------------------
(***************************************************************************)
(* Proofs about pages: the addresses in the free list and the ranges of    *)
(* the virtual memory manager, the granule map that finds pages by their   *)
(* addresses, the memory behind the pages, and the account of it all.      *)
(* What is proved of memory holds without a condition, since its manager   *)
(* is under a mutex.  What is proved of addresses holds while one thread   *)
(* at a time allocates and no page is taken from the end; two threads that *)
(* allocate at once get the same addresses, since allocate_virtual_memory  *)
(* takes no mutex.                                                         *)
(***************************************************************************)
EXTENDS PageMemory, FiniteSetTheorems, NaturalsInduction, WellFoundedInduction, TLAPS

\* Under what the code keeps addresses apart: nobody else is inside
\* allocate_virtual_memory, and find_fit_from_end is not called, which cuts a
\* range out of the middle of what it leaves in the list.
OneAtATime == Callers = 1 /\ LargeSizes = {}

-----------------------------------------------------------------------------
(* Lists of ranges.                                                        *)

\* Ranges that hold something.
Pieces == [addr : Nat, size : Nat \ {0}]

Apart(x, y) == End(x) <= y.addr \/ End(y) <= x.addr

Sorted(list) ==
  \A i, j \in 1 .. Len(list) : i < j => End(list[i]) <= list[j].addr

OffList(x, list) == \A i \in 1 .. Len(list) : Apart(x, list[i])

LEMMA PieceFields ==
  ASSUME NEW x \in Pieces
  PROVE  /\ x.addr \in Nat /\ x.size \in Nat /\ x.size >= 1 /\ End(x) \in Nat
         /\ End(x) = x.addr + x.size
BY DEF Pieces, End

LEMMA SegmentIsPiece ==
  ASSUME NEW a \in Nat, NEW n \in Nat, n >= 1
  PROVE  /\ Segment(a, n) \in Pieces /\ Segment(a, n).addr = a /\ Segment(a, n).size = n
         /\ End(Segment(a, n)) = a + n
BY DEF Segment, Pieces, End

\* Ranges that are apart share no granule.
LEMMA ApartMeansDisjoint ==
  ASSUME NEW x \in Pieces, NEW y \in Pieces, Apart(x, y)
  PROVE  Units(x) \cap Units(y) = {}
<1>1. /\ x.addr \in Nat /\ End(x) \in Nat /\ y.addr \in Nat /\ End(y) \in Nat
  BY PieceFields
<1>2. ASSUME NEW g \in Units(x), g \in Units(y) PROVE FALSE
  BY <1>1, <1>2 DEF Units, Apart
<1> QED BY <1>2

\* The Min of the community modules is the least of a set of numbers.
LEMMA MinIsLeast ==
  ASSUME NEW I, I \subseteq Nat, I # {}
  PROVE  Min(I) \in I /\ \A j \in I : Min(I) <= j
<1>1. PICK x \in I : \A y \in I : ~(<<y, x>> \in OpToRel(<, Nat))
  BY NatLessThanWellFounded, WFMin
<1>2. \A y \in I : x <= y
  <2> TAKE y \in I
  <2>1. y \in Nat /\ x \in Nat
    OBVIOUS
  <2>2. y < x => <<y, x>> \in {ss \in Nat \X Nat : ss[1] < ss[2]}
    BY <2>1
  <2>3. ~(y < x)
    BY <1>1, <2>2 DEF OpToRel
  <2> QED BY <2>1, <2>3
<1>3. \E z \in I : \A y \in I : z <= y
  BY <1>2
<1> QED BY <1>3 DEF Min

\* What SequencesExt does to a list at one place.
LEMMA RemoveAtFacts ==
  ASSUME NEW S, NEW list \in Seq(S), NEW i \in 1 .. Len(list)
  PROVE  /\ RemoveAt(list, i) \in Seq(S) /\ Len(RemoveAt(list, i)) = Len(list) - 1
         /\ \A j \in 1 .. Len(list) - 1 :
              RemoveAt(list, i)[j] = IF j < i THEN list[j] ELSE list[j + 1]
<1> DEFINE n == Len(list)
           u == SubSeq(list, 1, i - 1)
           v == SubSeq(list, i + 1, n)
<1>1. n \in Nat /\ i \in Nat /\ 1 <= i /\ i <= n
  OBVIOUS
<1>2. u \in Seq(S) /\ Len(u) = i - 1 /\ \A j \in 1 .. i - 1 : u[j] = list[j]
  BY <1>1
<1>3. v \in Seq(S) /\ Len(v) = n - i /\ \A j \in 1 .. n - i : v[j] = list[i + j]
  BY <1>1
<1> HIDE DEF u, v
<1>4. /\ u \o v \in Seq(S) /\ Len(u \o v) = n - 1
      /\ \A j \in 1 .. i - 1 : (u \o v)[j] = u[j]
      /\ \A j \in 1 .. n - i : (u \o v)[(i - 1) + j] = v[j]
  <2>1. (i - 1) + (n - i) = n - 1
    BY <1>1
  <2>2. /\ u \o v \in Seq(S) /\ Len(u \o v) = Len(u) + Len(v)
        /\ \A j \in 1 .. Len(u) : (u \o v)[j] = u[j]
        /\ \A j \in 1 .. Len(v) : (u \o v)[Len(u) + j] = v[j]
    <3>1. u \in Seq(S) /\ v \in Seq(S)
      BY <1>2, <1>3
    <3> QED BY <3>1
  <2> QED BY <1>2, <1>3, <2>1, <2>2
<1>5. ASSUME NEW j \in 1 .. n - 1
      PROVE  (u \o v)[j] = IF j < i THEN list[j] ELSE list[j + 1]
  <2>1. CASE j < i
    <3>1. j \in 1 .. i - 1
      BY <1>1, <2>1
    <3> QED BY <1>2, <1>4, <2>1, <3>1
  <2>2. CASE j >= i
    <3> DEFINE k == j - (i - 1)
    <3>1. k \in 1 .. n - i /\ i + k = j + 1 /\ (i - 1) + k = j /\ ~(j < i)
      BY <1>1, <2>2
    <3> HIDE DEF k
    <3>2. (u \o v)[(i - 1) + k] = v[k] /\ v[k] = list[i + k]
      BY <1>3, <1>4, <3>1
    <3> QED BY <3>1, <3>2
  <2>3. j < i \/ j >= i
    BY <1>1
  <2> QED BY <2>1, <2>2, <2>3
<1> QED BY <1>4, <1>5 DEF RemoveAt, u, v

LEMMA InsertAtFacts ==
  ASSUME NEW S, NEW list \in Seq(S), NEW i \in 1 .. Len(list), NEW x \in S
  PROVE  /\ InsertAt(list, i, x) \in Seq(S) /\ Len(InsertAt(list, i, x)) = Len(list) + 1
         /\ \A j \in 1 .. Len(list) + 1 :
              InsertAt(list, i, x)[j] = IF j < i THEN list[j] ELSE IF j = i THEN x ELSE list[j - 1]
<1> DEFINE n == Len(list)
           u == SubSeq(list, 1, i - 1)
           v == SubSeq(list, i, n)
<1>1. n \in Nat /\ i \in Nat /\ 1 <= i /\ i <= n
  OBVIOUS
<1>2. u \in Seq(S) /\ Len(u) = i - 1 /\ \A j \in 1 .. i - 1 : u[j] = list[j]
  BY <1>1
<1>3. v \in Seq(S) /\ Len(v) = n - i + 1 /\ \A j \in 1 .. n - i + 1 : v[j] = list[i + j - 1]
  BY <1>1
<1> HIDE DEF u, v
<1> DEFINE w == u \o <<x>>
<1>4. /\ w \in Seq(S) /\ Len(w) = i /\ w[i] = x /\ \A j \in 1 .. i - 1 : w[j] = list[j]
  BY <1>1, <1>2
<1> HIDE DEF w
<1>5. /\ w \o v \in Seq(S) /\ Len(w \o v) = n + 1
      /\ \A j \in 1 .. i : (w \o v)[j] = w[j]
      /\ \A j \in 1 .. n - i + 1 : (w \o v)[i + j] = v[j]
  <2>1. i + (n - i + 1) = n + 1
    BY <1>1
  <2>2. /\ w \o v \in Seq(S) /\ Len(w \o v) = Len(w) + Len(v)
        /\ \A j \in 1 .. Len(w) : (w \o v)[j] = w[j]
        /\ \A j \in 1 .. Len(v) : (w \o v)[Len(w) + j] = v[j]
    <3>1. w \in Seq(S) /\ v \in Seq(S)
      BY <1>3, <1>4
    <3> QED BY <3>1
  <2> QED BY <1>3, <1>4, <2>1, <2>2
<1>6. ASSUME NEW j \in 1 .. n + 1
      PROVE  (w \o v)[j] = IF j < i THEN list[j] ELSE IF j = i THEN x ELSE list[j - 1]
  <2>1. CASE j <= i
    <3>1. j \in 1 .. i /\ (j < i => j \in 1 .. i - 1) /\ (~(j < i) => j = i)
      BY <1>1, <2>1
    <3> QED BY <1>4, <1>5, <3>1
  <2>2. CASE j > i
    <3> DEFINE k == j - i
    <3>1. k \in 1 .. n - i + 1 /\ i + k - 1 = j - 1 /\ i + k = j /\ j # i /\ ~(j < i)
      BY <1>1, <2>2
    <3> HIDE DEF k
    <3>2. (w \o v)[i + k] = v[k] /\ v[k] = list[i + k - 1]
      BY <1>3, <1>5, <3>1
    <3> QED BY <3>1, <3>2
  <2>3. j <= i \/ j > i
    BY <1>1
  <2> QED BY <2>1, <2>2, <2>3
<1> QED BY <1>5, <1>6 DEF InsertAt, u, v, w

\* A segment that is taken whole leaves the others, which are apart from it.
LEMMA RemoveKeeps ==
  ASSUME NEW list \in Seq(Pieces), Sorted(list), NEW i \in 1 .. Len(list)
  PROVE  /\ RemoveAt(list, i) \in Seq(Pieces) /\ Sorted(RemoveAt(list, i))
         /\ OffList(list[i], RemoveAt(list, i))
         /\ \A y \in Pieces : OffList(y, list) => OffList(y, RemoveAt(list, i)) /\ Apart(y, list[i])
<1> DEFINE left == RemoveAt(list, i)
           n == Len(list)
<1>1. /\ left \in Seq(Pieces) /\ Len(left) = n - 1
      /\ \A j \in 1 .. n - 1 : left[j] = IF j < i THEN list[j] ELSE list[j + 1]
  BY RemoveAtFacts
<1>2. n \in Nat /\ i \in Nat /\ 1 <= i /\ i <= n
  OBVIOUS
<1> HIDE DEF left
<1>3. \A j \in 1 .. n - 1 : \E k \in 1 .. n :
        /\ k # i /\ left[j] = list[k] /\ k = IF j < i THEN j ELSE j + 1
  <2> TAKE j \in 1 .. n - 1
  <2>1. CASE j < i
    BY <1>1, <1>2, <2>1
  <2>2. CASE j >= i
    <3>1. j + 1 \in 1 .. n /\ j + 1 # i /\ ~(j < i)
      BY <1>2, <2>2
    <3> QED BY <1>1, <3>1
  <2> QED BY <1>2, <2>1, <2>2
<1>4. Sorted(left)
  <2> SUFFICES ASSUME NEW j \in 1 .. n - 1, NEW k \in 1 .. n - 1, j < k
               PROVE  End(left[j]) <= left[k].addr
    BY <1>1, <1>2 DEF Sorted
  <2>1. PICK jj \in 1 .. n : left[j] = list[jj] /\ jj = IF j < i THEN j ELSE j + 1
    BY <1>3
  <2>2. PICK kk \in 1 .. n : left[k] = list[kk] /\ kk = IF k < i THEN k ELSE k + 1
    BY <1>3
  <2>3. jj < kk
    BY <1>2, <2>1, <2>2
  <2> QED BY <2>1, <2>2, <2>3 DEF Sorted
<1>5. OffList(list[i], left)
  <2> SUFFICES ASSUME NEW j \in 1 .. n - 1 PROVE Apart(list[i], left[j])
    BY <1>1, <1>2 DEF OffList
  <2>1. PICK k \in 1 .. n : k # i /\ left[j] = list[k]
    BY <1>3
  <2>2. k < i \/ i < k
    BY <1>2, <2>1
  <2> QED BY <2>1, <2>2 DEF Sorted, Apart
<1>6. ASSUME NEW y \in Pieces, OffList(y, list)
      PROVE  OffList(y, left) /\ Apart(y, list[i])
  BY <1>1, <1>2, <1>3, <1>6 DEF OffList
<1> QED BY <1>1, <1>4, <1>5, <1>6 DEF left

\* A segment is known by its end.
LEMMA EndsDiffer ==
  ASSUME NEW list \in Seq(Pieces), Sorted(list),
         NEW i \in 1 .. Len(list), NEW j \in 1 .. Len(list), End(list[i]) = End(list[j])
  PROVE  i = j
<1>1. /\ list[i] \in Pieces /\ list[j] \in Pieces
  OBVIOUS
<1>2. /\ list[i].addr \in Nat /\ End(list[i]) \in Nat /\ list[i].addr < End(list[i])
      /\ list[j].addr \in Nat /\ End(list[j]) \in Nat /\ list[j].addr < End(list[j])
  <2>1. \A x \in Pieces : x.addr \in Nat /\ End(x) \in Nat /\ x.addr < End(x)
    <3> TAKE x \in Pieces
    <3>1. x.addr \in Nat /\ x.size \in Nat /\ x.size >= 1 /\ End(x) = x.addr + x.size
      BY PieceFields
    <3> QED BY <3>1
  <2> QED BY <1>1, <2>1
<1>3. ~(i < j) /\ ~(j < i)
  BY <1>2 DEF Sorted
<1> QED BY <1>3

\* A range cut off the front of a larger segment.
CutAt(list, i, n) == [list EXCEPT ![i] = Segment(list[i].addr + n, list[i].size - n)]

LEMMA CutKeeps ==
  ASSUME NEW list \in Seq(Pieces), Sorted(list), NEW i \in 1 .. Len(list),
         NEW n \in Nat, n >= 1, n < list[i].size
  PROVE  /\ CutAt(list, i, n) \in Seq(Pieces) /\ Sorted(CutAt(list, i, n))
         /\ Segment(list[i].addr, n) \in Pieces
         /\ OffList(Segment(list[i].addr, n), CutAt(list, i, n))
         /\ \A y \in Pieces :
              OffList(y, list) =>
                OffList(y, CutAt(list, i, n)) /\ Apart(y, Segment(list[i].addr, n))
<1> DEFINE left == CutAt(list, i, n)
           a == list[i].addr
           m == list[i].size
           x == Segment(a, n)
           r == Segment(a + n, m - n)
<1>1. /\ list[i] \in Pieces /\ a \in Nat /\ m \in Nat /\ End(list[i]) = a + m
      /\ \A j \in 1 .. Len(list) : /\ list[j] \in Pieces /\ list[j].addr \in Nat
                                   /\ End(list[j]) \in Nat /\ list[j].addr < End(list[j])
      /\ i \in Nat /\ Len(list) \in Nat
  <2>1. \A y \in Pieces : /\ y.addr \in Nat /\ End(y) \in Nat /\ y.addr < End(y)
                          /\ y.size \in Nat /\ End(y) = y.addr + y.size
    BY DEF Pieces, End
  <2>2. \A j \in 1 .. Len(list) : list[j] \in Pieces
    OBVIOUS
  <2> HIDE DEF Pieces
  <2> QED BY <2>1, <2>2
<1>2. x \in Pieces /\ x.addr = a /\ End(x) = a + n
  BY <1>1, SegmentIsPiece
<1>3. r \in Pieces /\ r.addr = a + n /\ End(r) = a + m
  <2>1. a + n \in Nat /\ m - n \in Nat /\ m - n >= 1 /\ (a + n) + (m - n) = a + m
    <3>1. n < m /\ a \in Nat /\ m \in Nat
      BY <1>1
    <3> HIDE DEF a, m
    <3> QED BY <3>1
  <2> QED BY <2>1, SegmentIsPiece
<1>10. a + n <= a + m /\ a + n \in Nat /\ a + m \in Nat
  <2>1. n < m /\ a \in Nat /\ m \in Nat
    BY <1>1
  <2> HIDE DEF a, m
  <2> QED BY <2>1
<1>11. End(list[i]) = a + m /\ list[i].addr = a
  BY <1>1
<1> HIDE DEF a, m, x, r
<1>4. left = [list EXCEPT ![i] = r]
  BY DEF a, m, r, CutAt
<1> HIDE DEF left
<1>5. /\ left \in Seq(Pieces) /\ Len(left) = Len(list) /\ left[i] = r
      /\ \A j \in 1 .. Len(list) : j # i => left[j] = list[j]
  BY <1>3, <1>4
<1>6. list[i].addr = a
  BY DEF a
<1>7. Sorted(left)
  <2> SUFFICES ASSUME NEW j \in 1 .. Len(list), NEW k \in 1 .. Len(list), j < k
               PROVE  End(left[j]) <= left[k].addr
    BY <1>5 DEF Sorted
  <2>1. End(list[j]) <= list[k].addr
    BY DEF Sorted
  <2>2. CASE j = i
    <3>1. End(left[j]) = End(list[j]) /\ left[k] = list[k]
      <4>1. left[k] = list[k]
        BY <1>1, <1>5, <2>2
      <4>2. End(left[j]) = a + m /\ End(list[j]) = a + m
        BY <1>3, <1>5, <1>11, <2>2
      <4> QED BY <4>1, <4>2
    <3> QED BY <2>1, <3>1
  <2>3. CASE k = i
    <3>1. left[j] = list[j] /\ left[k].addr = a + n /\ list[k].addr = a
      BY <1>3, <1>5, <1>6, <2>3
    <3> QED BY <1>1, <2>1, <3>1
  <2>4. CASE j # i /\ k # i
    BY <1>5, <2>1, <2>4
  <2> QED BY <2>2, <2>3, <2>4
<1>8. OffList(x, left)
  <2> SUFFICES ASSUME NEW j \in 1 .. Len(list) PROVE Apart(x, left[j])
    BY <1>5 DEF OffList
  <2>1. CASE j = i
    BY <1>1, <1>2, <1>3, <1>5, <2>1 DEF Apart
  <2>2. CASE j < i
    <3>1. End(list[j]) <= a /\ left[j] = list[j]
      BY <1>5, <1>6, <2>2 DEF Sorted
    <3> QED BY <1>2, <3>1 DEF Apart
  <2>3. CASE j > i
    <3>1. End(list[i]) <= list[j].addr /\ left[j] = list[j]
      BY <1>1, <1>5, <2>3 DEF Sorted
    <3>2. End(x) <= list[j].addr
      BY <1>1, <1>2, <1>10, <1>11, <3>1
    <3> QED BY <3>1, <3>2 DEF Apart
  <2> QED BY <2>1, <2>2, <2>3
<1>9. ASSUME NEW y \in Pieces, OffList(y, list)
      PROVE  OffList(y, left) /\ Apart(y, x)
  <2>1. y.addr \in Nat /\ End(y) \in Nat
    BY PieceFields
  <2>2. Apart(y, list[i])
    BY <1>9 DEF OffList
  <2>3. Apart(y, x) /\ Apart(y, r)
    <3>1. End(y) <= a \/ a + m <= y.addr
      BY <1>11, <2>2 DEF Apart
    <3>2. a \in Nat /\ a <= a + n
      BY <1>1
    <3>3. (End(y) <= a \/ a + n <= y.addr) /\ (End(y) <= a + n \/ a + m <= y.addr)
      BY <1>10, <2>1, <3>1, <3>2
    <3> QED BY <1>2, <1>3, <3>3 DEF Apart
  <2>4. OffList(y, left)
    BY <1>5, <1>9, <2>3 DEF OffList
  <2> QED BY <2>3, <2>4
<1> QED BY <1>2, <1>5, <1>7, <1>8, <1>9 DEF x, a, left

\* release_virtual_memory keeps the order, and what was apart stays apart.
LEMMA ReleaseKeeps ==
  ASSUME NEW list \in Seq(Pieces), Sorted(list), NEW x \in Pieces, OffList(x, list)
  PROVE  /\ Release(list, x) \in Seq(Pieces) /\ Sorted(Release(list, x))
         /\ \A y \in Pieces : OffList(y, list) /\ Apart(y, x) => OffList(y, Release(list, x))
<1> DEFINE I == {i \in 1 .. Len(list) : End(x) = list[i].addr \/ list[i].addr > x.addr}
           n == Len(list)
           left == Release(list, x)
<1>1. /\ x.addr \in Nat /\ End(x) \in Nat /\ x.addr < End(x) /\ n \in Nat
      /\ \A j \in 1 .. n : /\ list[j] \in Pieces /\ list[j].addr \in Nat
                           /\ End(list[j]) \in Nat /\ list[j].addr < End(list[j])
  <2>1. \A y \in Pieces : y.addr \in Nat /\ End(y) \in Nat /\ y.addr < End(y)
    <3> TAKE y \in Pieces
    <3>1. y.addr \in Nat /\ y.size \in Nat /\ y.size >= 1 /\ End(y) = y.addr + y.size
      BY PieceFields
    <3> QED BY <3>1
  <2>2. \A j \in 1 .. n : list[j] \in Pieces
    OBVIOUS
  <2> HIDE DEF I, left
  <2> QED BY <2>1, <2>2
<1>2. \A j \in 1 .. n : j \notin I => End(list[j]) <= x.addr
  <2> TAKE j \in 1 .. n
  <2> HAVE j \notin I
  <2>1. Apart(x, list[j]) /\ End(x) # list[j].addr /\ ~(list[j].addr > x.addr)
    BY DEF OffList
  <2> QED BY <1>1, <2>1 DEF Apart
<1>3. CASE I = {}
  <2>1. left = Append(list, x)
    BY <1>3 DEF Release, SelectInSeq
  <2>2. /\ left \in Seq(Pieces) /\ Len(left) = n + 1 /\ left[n + 1] = x
        /\ \A j \in 1 .. n : left[j] = list[j]
    BY <2>1
  <2> HIDE DEF left, I
  <2>3. Sorted(left)
    <3> SUFFICES ASSUME NEW j \in 1 .. n + 1, NEW k \in 1 .. n + 1, j < k
                 PROVE  End(left[j]) <= left[k].addr
      BY <2>2 DEF Sorted
    <3>1. j \in 1 .. n /\ left[j] = list[j]
      BY <1>1, <2>2
    <3>2. CASE k = n + 1
      BY <1>2, <1>3, <2>2, <3>1, <3>2
    <3>3. CASE k \in 1 .. n
      BY <2>2, <3>1, <3>3 DEF Sorted
    <3> QED BY <1>1, <3>2, <3>3
  <2>4. ASSUME NEW y \in Pieces, OffList(y, list), Apart(y, x) PROVE OffList(y, left)
    <3> SUFFICES ASSUME NEW j \in 1 .. n + 1 PROVE Apart(y, left[j])
      BY <2>2 DEF OffList
    <3>1. CASE j = n + 1
      BY <2>2, <2>4, <3>1
    <3>2. CASE j \in 1 .. n
      BY <2>2, <2>4, <3>2 DEF OffList
    <3> QED BY <1>1, <3>1, <3>2
  <2> QED BY <2>2, <2>3, <2>4 DEF left
<1>4. CASE I # {}
  <2> DEFINE i == Min(I)
  <2>1. i \in I /\ \A j \in I : i <= j
    <3>1. I \subseteq Nat
      OBVIOUS
    <3> HIDE DEF I
    <3> QED BY <1>4, <3>1, MinIsLeast
  <2>2. i \in 1 .. n /\ i # 0 /\ \A j \in 1 .. n : j < i => End(list[j]) <= x.addr
    <3>1. I \subseteq 1 .. n /\ 1 .. n \subseteq Nat \ {0}
      OBVIOUS
    <3> HIDE DEF I, i
    <3>2. \A j \in 1 .. n : j < i => j \notin I
      BY <2>1, <3>1
    <3> QED BY <1>2, <2>1, <3>1, <3>2
  <2>3. left = IF End(x) = list[i].addr
                 THEN ReplaceAt(list, i, Segment(x.addr, x.size + list[i].size))
                 ELSE InsertAt(list, i, x)
    BY <1>4, <2>2 DEF Release, SelectInSeq
  <2>4. End(x) = list[i].addr \/ list[i].addr > x.addr
    BY <2>1
  <2> HIDE DEF left, I, i
  <2>5. CASE End(x) = list[i].addr
    <3> DEFINE r == Segment(x.addr, x.size + list[i].size)
    <3>1. r \in Pieces /\ r.addr = x.addr /\ End(r) = End(list[i])
      <4>1. /\ x.size \in Nat /\ list[i].size \in Nat /\ x.size >= 1
            /\ End(x) = x.addr + x.size /\ End(list[i]) = list[i].addr + list[i].size
        BY <1>1, <2>2, PieceFields
      <4>2. x.size + list[i].size \in Nat /\ x.size + list[i].size >= 1
        BY <4>1
      <4>3. r \in Pieces /\ r.addr = x.addr /\ End(r) = x.addr + (x.size + list[i].size)
        BY <1>1, <4>2, SegmentIsPiece
      <4>4. x.addr + (x.size + list[i].size) = End(list[i])
        <5>1. list[i].addr \in Nat
          BY <1>1, <2>2
        <5>2. \A b, c, d \in Nat : b + (c + d) = (b + c) + d
          OBVIOUS
        <5>3. x.addr + (x.size + list[i].size) = (x.addr + x.size) + list[i].size
          BY <1>1, <4>1, <5>2
        <5> QED BY <2>5, <4>1, <5>3
      <4> QED BY <4>3, <4>4
    <3> HIDE DEF r
    <3>2. left = [list EXCEPT ![i] = r]
      BY <2>3, <2>5 DEF ReplaceAt, r
    <3>3. /\ left \in Seq(Pieces) /\ Len(left) = n /\ left[i] = r
          /\ \A j \in 1 .. n : j # i => left[j] = list[j]
      BY <2>2, <3>1, <3>2
    <3>4. Sorted(left)
      <4> SUFFICES ASSUME NEW j \in 1 .. n, NEW k \in 1 .. n, j < k
                   PROVE  End(left[j]) <= left[k].addr
        BY <3>3 DEF Sorted
      <4>1. End(list[j]) <= list[k].addr
        BY DEF Sorted
      <4>2. CASE j = i
        BY <3>1, <3>3, <4>1, <4>2
      <4>3. CASE k = i
        BY <2>2, <3>1, <3>3, <4>3
      <4>4. CASE j # i /\ k # i
        BY <3>3, <4>1, <4>4
      <4> QED BY <4>2, <4>3, <4>4
    <3>5. ASSUME NEW y \in Pieces, OffList(y, list), Apart(y, x) PROVE OffList(y, left)
      <4>1. y.addr \in Nat /\ End(y) \in Nat /\ y.addr < End(y)
        BY PieceFields
      <4>2. Apart(y, list[i])
        BY <2>2, <3>5 DEF OffList
      <4>3. Apart(y, r)
        BY <1>1, <2>2, <2>5, <3>1, <3>5, <4>1, <4>2 DEF Apart
      <4> QED BY <3>3, <3>5, <4>3 DEF OffList
    <3> QED BY <3>3, <3>4, <3>5 DEF left
  <2>6. CASE End(x) # list[i].addr
    <3>1. /\ left \in Seq(Pieces) /\ Len(left) = n + 1
          /\ \A j \in 1 .. n + 1 :
               left[j] = IF j < i THEN list[j] ELSE IF j = i THEN x ELSE list[j - 1]
      BY <2>2, <2>3, <2>6, InsertAtFacts
    <3>2. \A k \in 1 .. n : k >= i => End(x) <= list[k].addr
      <4> TAKE k \in 1 .. n
      <4> HAVE k >= i
      <4>1. list[k].addr > x.addr
        <5>1. CASE k = i
          BY <2>4, <2>6, <5>1
        <5>2. CASE k > i
          <6>1. End(list[i]) <= list[k].addr
            BY <2>2, <5>2 DEF Sorted
          <6> QED BY <1>1, <2>2, <2>4, <2>6, <6>1
        <5> QED BY <2>2, <5>1, <5>2
      <4>2. Apart(x, list[k])
        BY DEF OffList
      <4> QED BY <1>1, <4>1, <4>2 DEF Apart
    <3>3. \A j \in 1 .. n + 1 : \/ j < i /\ j \in 1 .. n /\ left[j] = list[j]
                                \/ j = i /\ left[j] = x
                                \/ j > i /\ j - 1 \in 1 .. n /\ left[j] = list[j - 1]
      <4> TAKE j \in 1 .. n + 1
      <4>1. i \in Nat /\ 1 <= i /\ i <= n
        BY <2>2
      <4>2. CASE j < i
        BY <1>1, <3>1, <4>1, <4>2
      <4>3. CASE j = i
        BY <3>1, <4>1, <4>3
      <4>4. CASE j > i
        <5>1. j - 1 \in 1 .. n /\ ~(j < i) /\ j # i
          BY <1>1, <4>1, <4>4
        <5> QED BY <3>1, <4>4, <5>1
      <4> QED BY <4>1, <4>2, <4>3, <4>4
    <3>4. Sorted(left)
      <4> SUFFICES ASSUME NEW j \in 1 .. n + 1, NEW k \in 1 .. n + 1, j < k
                   PROVE  End(left[j]) <= left[k].addr
        BY <3>1 DEF Sorted
      <4>1. i \in 1 .. n /\ i \in Nat
        BY <2>2
      <4>2. CASE j < i
        <5>1. left[j] = list[j] /\ j \in 1 .. n /\ End(list[j]) <= x.addr
          BY <2>2, <3>3, <4>1, <4>2
        <5>2. CASE k < i
          BY <3>3, <4>1, <5>1, <5>2 DEF Sorted
        <5>3. CASE k = i
          BY <3>3, <4>1, <5>1, <5>3
        <5>4. CASE k > i
          <6>1. left[k] = list[k - 1] /\ k - 1 \in 1 .. n /\ j < k - 1
            BY <3>3, <4>1, <4>2, <5>4
          <6> QED BY <5>1, <6>1 DEF Sorted
        <5> QED BY <4>1, <5>2, <5>3, <5>4
      <4>3. CASE j = i
        <5>1. left[j] = x /\ left[k] = list[k - 1] /\ k - 1 \in 1 .. n /\ k - 1 >= i
          BY <3>3, <4>1, <4>3
        <5> QED BY <3>2, <5>1
      <4>4. CASE j > i
        <5>1. /\ left[j] = list[j - 1] /\ j - 1 \in 1 .. n
              /\ left[k] = list[k - 1] /\ k - 1 \in 1 .. n /\ j - 1 < k - 1
          BY <3>3, <4>1, <4>4
        <5> QED BY <5>1 DEF Sorted
      <4> QED BY <4>1, <4>2, <4>3, <4>4
    <3>5. ASSUME NEW y \in Pieces, OffList(y, list), Apart(y, x) PROVE OffList(y, left)
      BY <3>1, <3>3, <3>5 DEF OffList
    <3> QED BY <3>1, <3>4, <3>5 DEF left
  <2> QED BY <2>5, <2>6
<1> QED BY <1>3, <1>4

-----------------------------------------------------------------------------
(* The virtual memory manager.  No cut is pending but one, whose segment   *)
(* still is as it was read; ranges and segments are apart.                 *)

FreeFits == free \in Seq(Pieces) /\ Sorted(free)

HeldFits ==
  /\ held \in [Pages -> Pieces \cup {None}]
  /\ \A p \in Pages : held[p] # None => OffList(held[p], free)
  /\ \A p, q \in Pages : held[p] # None /\ held[q] # None /\ p # q => Apart(held[p], held[q])

CutIs(p, i, n) ==
  /\ n < free[i].size
  /\ cut[p] = [range |-> Segment(free[i].addr, n), end |-> End(free[i])]

CutFits ==
  /\ DOMAIN cut = Pages
  /\ \A p \in Pages : cut[p] # None =>
       /\ held[p] = None
       /\ \E i \in 1 .. Len(free), n \in Nat \ {0} : CutIs(p, i, n)

OneCut == \A p, q \in Pages : cut[p] # None /\ cut[q] # None => p = q

VInv == FreeFits /\ HeldFits /\ CutFits /\ OneCut

\* With one caller at a time, who enters the manager finds no cut pending.
LEMMA NobodyInside ==
  ASSUME Callers = 1, OneCut, Cardinality(V!Calls) < Callers
  PROVE  \A p \in Pages : cut[p] = None
<1> SUFFICES ASSUME NEW p \in Pages, cut[p] # None PROVE FALSE
  OBVIOUS
<1>1. V!Calls = {p}
  BY DEF OneCut, V!Calls
<1>2. Cardinality({p}) = 1
  BY FS_Singleton
<1> QED BY <1>1, <1>2

\* The searches give a segment of the list.
LEMMA FoundFits ==
  ASSUME NEW list \in Seq(Pieces), NEW n \in Nat, FromFront(list, n) # 0
  PROVE  FromFront(list, n) \in 1 .. Len(list)
<1> DEFINE I == {i \in 1 .. Len(list) : list[i].size >= n}
<1>1. FromFront(list, n) = IF I # {} THEN Min(I) ELSE 0
  BY DEF FromFront, SelectInSeq
<1>2. I \subseteq Nat /\ I \subseteq 1 .. Len(list)
  OBVIOUS
<1> HIDE DEF I
<1>3. I # {}
  BY <1>1
<1> QED BY <1>1, <1>2, <1>3, MinIsLeast

\* What the calls of the manager do.
LEMMA TakesWhole ==
  ASSUME OneAtATime, VInv, NEW p \in Pages, NEW n \in Sizes, V!TakeWhole(p, n)
  PROVE  /\ \A q \in Pages : cut[q] = None
         /\ held[p] = None /\ cut' = cut
         /\ \E i \in 1 .. Len(free) : /\ free' = RemoveAt(free, i)
                                      /\ held' = [held EXCEPT ![p] = free[i]]
<1>1. n \in Nat /\ LargeSizes = {} /\ Callers = 1
  BY PageMemoryAssumption DEF OneAtATime
<1>2. V!Fit(n) = FromFront(free, n)
  BY <1>1 DEF V!Fit, V!FromFront, FromFront, V!SelectInSeq, SelectInSeq, V!Min, Min
<1>3. V!Fit(n) # 0 /\ held[p] = None /\ cut' = cut /\ Cardinality(V!Calls) < Callers
  BY DEF V!TakeWhole, V!New, V!Cardinality, Cardinality
<1>4. FromFront(free, n) \in 1 .. Len(free)
  BY <1>1, <1>2, <1>3, FoundFits DEF VInv, FreeFits
<1>5. free' = RemoveAt(free, FromFront(free, n)) /\ held' = [held EXCEPT ![p] = free[FromFront(free, n)]]
  BY <1>2 DEF V!TakeWhole, V!RemoveAt, RemoveAt, V!Hold
<1>6. \A q \in Pages : cut[q] = None
  BY <1>1, <1>3, NobodyInside DEF VInv
<1> QED BY <1>3, <1>4, <1>5, <1>6

LEMMA ReadsPiece ==
  ASSUME OneAtATime, VInv, NEW p \in Pages, NEW n \in Sizes, V!ReadPiece(p, n)
  PROVE  /\ \A q \in Pages : cut[q] = None
         /\ held[p] = None /\ held' = held /\ free' = free
         /\ \E i \in 1 .. Len(free) :
              /\ n < free[i].size
              /\ cut' = [cut EXCEPT ![p] = [range |-> Segment(free[i].addr, n),
                                            end |-> End(free[i])]]
<1>1. n \in Nat /\ LargeSizes = {} /\ Callers = 1
  BY PageMemoryAssumption DEF OneAtATime
<1>2. V!Fit(n) = FromFront(free, n)
  BY <1>1 DEF V!Fit, V!FromFront, FromFront, V!SelectInSeq, SelectInSeq, V!Min, Min
<1>3. /\ V!Fit(n) # 0 /\ held[p] = None /\ Cardinality(V!Calls) < Callers
      /\ held' = held /\ free' = free
  BY DEF V!ReadPiece, V!New, V!Cardinality, Cardinality
<1>4. FromFront(free, n) \in 1 .. Len(free)
  BY <1>1, <1>2, <1>3, FoundFits DEF VInv, FreeFits
<1> DEFINE i == FromFront(free, n)
<1>5. free[i] \in Pieces
  BY <1>4 DEF VInv, FreeFits
<1>6. free[i].size > n /\ cut' = [cut EXCEPT ![p] = [range |-> V!Piece(i, n), end |-> V!End(free[i])]]
  BY <1>2 DEF V!ReadPiece
<1>7. V!Piece(i, n) = Segment(free[i].addr, n) /\ V!End(free[i]) = End(free[i])
  BY <1>1 DEF V!Piece, V!Segment, Segment, V!End, End
<1>8. n < free[i].size
  BY <1>1, <1>5, <1>6, PieceFields
<1>9. \A q \in Pages : cut[q] = None
  BY <1>1, <1>3, NobodyInside DEF VInv
<1> HIDE DEF i
<1> QED BY <1>3, <1>4, <1>6, <1>7, <1>8, <1>9 DEF i

LEMMA CutsPiece ==
  ASSUME OneAtATime, VInv, NEW p \in Pages, V!CutPiece(p)
  PROVE  /\ cut[p] # None /\ held[p] = None /\ cut' = [cut EXCEPT ![p] = None]
         /\ \E i \in 1 .. Len(free), n \in Nat \ {0} :
              /\ n < free[i].size
              /\ free' = [free EXCEPT ![i] = Segment(free[i].addr + n, free[i].size - n)]
              /\ held' = [held EXCEPT ![p] = Segment(free[i].addr, n)]
<1>1. LargeSizes = {}
  BY DEF OneAtATime
<1>2. cut[p] # None /\ cut' = [cut EXCEPT ![p] = None] /\ held' = [held EXCEPT ![p] = cut[p].range]
  BY DEF V!CutPiece, V!Hold
<1>3. PICK i \in 1 .. Len(free), n \in Nat \ {0} : held[p] = None /\ CutIs(p, i, n)
  BY <1>2 DEF VInv, CutFits
<1>4. /\ n < free[i].size /\ cut[p].range = Segment(free[i].addr, n)
      /\ cut[p].end = End(free[i]) /\ cut[p].range.size = n
  BY <1>3 DEF CutIs, Segment
<1> DEFINE I == {j \in 1 .. Len(free) : End(free[j]) = cut[p].end}
<1>5. I = {i}
  <2>1. i \in I
    BY <1>4
  <2>2. ASSUME NEW j \in I PROVE j = i
    BY <1>4, <2>2, EndsDiffer DEF VInv, FreeFits
  <2> QED BY <2>1, <2>2
<1>6. Min(I) = i
  <2>1. I \subseteq Nat /\ I # {}
    BY <1>5
  <2> HIDE DEF I
  <2> QED BY <1>5, <2>1, MinIsLeast
<1>7. SelectInSeq(free, LAMBDA s : End(s) = cut[p].end) = i
  BY <1>5, <1>6 DEF SelectInSeq
<1>8. V!SelectInSeq(free, LAMBDA s : V!End(s) = cut[p].end) = i
  BY <1>7 DEF V!SelectInSeq, SelectInSeq, V!End, End, V!Min, Min
<1>9. i # 0
  OBVIOUS
<1>10. free' = [free EXCEPT ![i] = Segment(free[i].addr + n, free[i].size - n)]
  BY <1>1, <1>4, <1>8, <1>9 DEF V!CutPiece, V!ReplaceAt, V!Segment, Segment
<1> HIDE DEF I
<1> QED BY <1>2, <1>3, <1>4, <1>10

LEMMA Frees ==
  ASSUME OneAtATime, VInv, NEW p \in Pages, V!Free(p)
  PROVE  /\ \A q \in Pages : cut[q] = None
         /\ held[p] # None /\ cut' = cut
         /\ free' = Release(free, held[p]) /\ held' = [held EXCEPT ![p] = None]
<1>1. held[p] # None /\ cut' = cut /\ Cardinality(V!Calls) < Callers /\ held' = [held EXCEPT ![p] = None]
  BY DEF V!Free, V!Hold, V!Cardinality, Cardinality
<1>2. free' = Release(free, held[p])
  BY DEF V!Free, V!Release, Release, V!SelectInSeq, SelectInSeq, V!Segment, Segment,
         V!InsertAt, InsertAt, V!ReplaceAt, ReplaceAt, V!End, End, V!Min, Min
<1> QED BY <1>1, <1>2, NobodyInside DEF OneAtATime, VInv

\* A step that leaves one page with a range apart from all others, and a list
\* that all ranges are apart from.
LEMMA HoldKeeps ==
  ASSUME HeldFits, NEW p \in Pages, NEW x \in Pieces, held' = [held EXCEPT ![p] = x],
         OffList(x, free'),
         \A q \in Pages \ {p} : held[q] # None => OffList(held[q], free') /\ Apart(held[q], x)
  PROVE  HeldFits'
<1>1. held' \in [Pages -> Pieces \cup {None}]
  BY DEF HeldFits
<1>2. held'[p] = x /\ \A q \in Pages \ {p} : held'[q] = held[q]
  BY DEF HeldFits
<1>3. \A q \in Pages : held'[q] # None => OffList(held'[q], free')
  BY <1>2
<1>4. ASSUME NEW q \in Pages, NEW r \in Pages, held'[q] # None, held'[r] # None, q # r
      PROVE  Apart(held'[q], held'[r])
  <2>1. CASE q = p
    BY <1>2, <1>4, <2>1 DEF Apart
  <2>2. CASE r = p
    BY <1>2, <1>4, <2>2
  <2>3. CASE q # p /\ r # p
    BY <1>2, <1>4, <2>3 DEF HeldFits
  <2> QED BY <2>1, <2>2, <2>3
<1> QED BY <1>1, <1>3, <1>4 DEF HeldFits

LEMMA InitVInv == Init => VInv
<1> SUFFICES ASSUME Init PROVE VInv
  OBVIOUS
<1>1. free = <<Segment(0, Addresses)>> /\ held = [p \in Pages |-> None] /\ cut = [p \in Pages |-> None]
  BY DEF Init, V!Init, V!Segment, Segment
<1>2. Segment(0, Addresses) \in Pieces
  BY PageMemoryAssumption DEF Segment, Pieces
<1>3. FreeFits
  BY <1>1, <1>2 DEF FreeFits, Sorted
<1>4. HeldFits /\ CutFits /\ OneCut
  BY <1>1 DEF HeldFits, CutFits, OneCut
<1> QED BY <1>3, <1>4 DEF VInv

\* Every step either leaves the manager alone or is one of its calls.
ManagerStep(t) ==
  \/ \E p \in Pages, n \in Sizes : V!TakeWhole(p, n) \/ V!ReadPiece(p, n)
  \/ V!CutPiece(at[t]) \/ V!Free(at[t])
  \/ UNCHANGED virtual

LEMMA StepsCall ==
  ASSUME Next
  PROVE  \E t \in Threads : ManagerStep(t)
<1>1. PICK t \in Threads :
        \/ \E p \in Pages, n \in Sizes : NewVirtual(t, p, n)
        \/ NewVirtualCut(t) \/ NewPhysical(t) \/ NewPhysicalFails(t)
        \/ Publish(t) \/ Count(t)
        \/ \E p \in Pages : Unlink(t, p)
        \/ Uncount(t) \/ FreeVirtual(t) \/ FreePhysical(t)
  BY DEF Next
<1>2. CASE \E p \in Pages, n \in Sizes : NewVirtual(t, p, n)
  BY <1>2 DEF NewVirtual, ManagerStep
<1>3. CASE NewVirtualCut(t)
  BY <1>3 DEF NewVirtualCut, ManagerStep
<1>4. CASE NewPhysicalFails(t) \/ FreeVirtual(t)
  BY <1>4 DEF NewPhysicalFails, FreeVirtual, ManagerStep
<1>5. CASE NewPhysical(t) \/ Publish(t) \/ Count(t) \/ Uncount(t) \/ FreePhysical(t)
  BY <1>5 DEF NewPhysical, Publish, Count, Uncount, FreePhysical, ManagerStep
<1>6. CASE \E p \in Pages : Unlink(t, p)
  BY <1>6 DEF Unlink, ManagerStep
<1> QED BY <1>1, <1>2, <1>3, <1>4, <1>5, <1>6

LEMMA NextVInv ==
  ASSUME OneAtATime, VInv, at \in [Threads -> Pages], [Next]_vars
  PROVE  VInv'
<1>1. free \in Seq(Pieces) /\ Sorted(free)
  BY DEF VInv, FreeFits
<1>2. held \in [Pages -> Pieces \cup {None}] /\ DOMAIN cut = Pages
  BY DEF VInv, HeldFits, CutFits
<1>3. CASE UNCHANGED virtual
  BY <1>3 DEF virtual, VInv, FreeFits, HeldFits, CutFits, CutIs, OneCut
<1>4. ASSUME NEW p \in Pages, NEW n \in Sizes, V!TakeWhole(p, n)
      PROVE  VInv'
  <2>1. /\ \A q \in Pages : cut[q] = None
        /\ held[p] = None /\ cut' = cut
    BY <1>4, TakesWhole
  <2>2. PICK i \in 1 .. Len(free) : /\ free' = RemoveAt(free, i)
                                    /\ held' = [held EXCEPT ![p] = free[i]]
    BY <1>4, TakesWhole
  <2>3. /\ free' \in Seq(Pieces) /\ Sorted(free') /\ OffList(free[i], free')
        /\ \A y \in Pieces : OffList(y, free) => OffList(y, free') /\ Apart(y, free[i])
    BY <1>1, <2>2, RemoveKeeps
  <2>4. free[i] \in Pieces
    BY <1>1
  <2>5. \A q \in Pages \ {p} : held[q] # None => OffList(held[q], free') /\ Apart(held[q], free[i])
    BY <1>2, <2>3 DEF VInv, HeldFits
  <2>6. HeldFits'
    BY <2>2, <2>3, <2>4, <2>5, HoldKeeps DEF VInv
  <2> QED BY <1>2, <2>1, <2>3, <2>6 DEF VInv, FreeFits, CutFits, OneCut
<1>5. ASSUME NEW p \in Pages, NEW n \in Sizes, V!ReadPiece(p, n)
      PROVE  VInv'
  <2>1. /\ \A q \in Pages : cut[q] = None
        /\ held[p] = None /\ held' = held /\ free' = free
    BY <1>5, ReadsPiece
  <2>2. PICK i \in 1 .. Len(free) :
          /\ n < free[i].size
          /\ cut' = [cut EXCEPT ![p] = [range |-> Segment(free[i].addr, n),
                                        end |-> End(free[i])]]
    BY <1>5, ReadsPiece
  <2>3. n \in Nat \ {0}
    BY PageMemoryAssumption
  <2>4. DOMAIN cut' = Pages /\ \A q \in Pages \ {p} : cut'[q] = None
    BY <1>2, <2>1, <2>2
  <2>5. CutIs(p, i, n)'
    BY <1>2, <2>1, <2>2 DEF CutIs
  <2>6. CutFits' /\ OneCut'
    <3>1. Len(free') = Len(free)
      BY <2>1
    <3> QED BY <2>1, <2>3, <2>4, <2>5, <3>1 DEF CutFits, OneCut
  <2> QED BY <2>1, <2>6 DEF VInv, FreeFits, HeldFits
<1>6. ASSUME NEW t \in Threads, V!CutPiece(at[t])
      PROVE  VInv'
  <2> DEFINE p == at[t]
  <2>0. p \in Pages
    OBVIOUS
  <2>1. cut[p] # None /\ held[p] = None /\ cut' = [cut EXCEPT ![p] = None]
    BY <1>6, <2>0, CutsPiece
  <2>2. PICK i \in 1 .. Len(free), n \in Nat \ {0} :
          /\ n < free[i].size
          /\ free' = [free EXCEPT ![i] = Segment(free[i].addr + n, free[i].size - n)]
          /\ held' = [held EXCEPT ![p] = Segment(free[i].addr, n)]
    BY <1>6, <2>0, CutsPiece
  <2> HIDE DEF p
  <2> DEFINE x == Segment(free[i].addr, n)
  <2>3. /\ free' \in Seq(Pieces) /\ Sorted(free') /\ x \in Pieces /\ OffList(x, free')
        /\ \A y \in Pieces : OffList(y, free) => OffList(y, free') /\ Apart(y, x)
    <3>1. n >= 1 /\ n \in Nat
      OBVIOUS
    <3>2. free' = CutAt(free, i, n)
      BY <2>2 DEF CutAt
    <3>3. /\ CutAt(free, i, n) \in Seq(Pieces) /\ Sorted(CutAt(free, i, n))
          /\ Segment(free[i].addr, n) \in Pieces
          /\ OffList(Segment(free[i].addr, n), CutAt(free, i, n))
          /\ \A y \in Pieces :
               OffList(y, free) =>
                 OffList(y, CutAt(free, i, n)) /\ Apart(y, Segment(free[i].addr, n))
      BY <1>1, <2>2, <3>1, CutKeeps
    <3> QED BY <3>2, <3>3
  <2> HIDE DEF x
  <2>4. held' = [held EXCEPT ![p] = x]
    BY <2>2 DEF x
  <2>5. \A q \in Pages \ {p} : held[q] # None => OffList(held[q], free') /\ Apart(held[q], x)
    BY <1>2, <2>3 DEF VInv, HeldFits
  <2>6. HeldFits'
    BY <2>0, <2>3, <2>4, <2>5, HoldKeeps DEF VInv
  <2>7. DOMAIN cut' = Pages /\ \A q \in Pages : cut'[q] = None
    BY <1>2, <2>0, <2>1 DEF VInv, OneCut
  <2> QED BY <2>3, <2>6, <2>7 DEF VInv, FreeFits, CutFits, OneCut
<1>7. ASSUME NEW t \in Threads, V!Free(at[t])
      PROVE  VInv'
  <2> DEFINE p == at[t]
  <2>0. p \in Pages
    OBVIOUS
  <2>1. /\ \A q \in Pages : cut[q] = None
        /\ held[p] # None /\ cut' = cut
        /\ free' = Release(free, held[p]) /\ held' = [held EXCEPT ![p] = None]
    BY <1>7, <2>0, Frees
  <2> HIDE DEF p
  <2>2. held[p] \in Pieces /\ OffList(held[p], free)
    BY <1>2, <2>0, <2>1 DEF VInv, HeldFits
  <2>3. /\ free' \in Seq(Pieces) /\ Sorted(free')
        /\ \A y \in Pieces : OffList(y, free) /\ Apart(y, held[p]) => OffList(y, free')
    BY <1>1, <2>1, <2>2, ReleaseKeeps
  <2>4. held' \in [Pages -> Pieces \cup {None}] /\ held'[p] = None
        /\ \A q \in Pages \ {p} : held'[q] = held[q]
    BY <1>2, <2>0, <2>1
  <2>5. \A q \in Pages \ {p} : held[q] # None => OffList(held[q], free')
    BY <1>2, <2>0, <2>1, <2>3 DEF VInv, HeldFits
  <2>6. HeldFits'
    BY <2>4, <2>5 DEF VInv, HeldFits
  <2> QED BY <1>2, <2>1, <2>3, <2>6 DEF VInv, FreeFits, CutFits, OneCut
<1>8. CASE UNCHANGED vars
  BY <1>3, <1>8 DEF vars, virtual
<1>9. CASE Next
  <2>1. PICK t \in Threads : ManagerStep(t)
    BY <1>9, StepsCall
  <2> QED BY <1>3, <1>4, <1>5, <1>6, <1>7, <2>1 DEF ManagerStep
<1> QED BY <1>8, <1>9

-----------------------------------------------------------------------------
(* The granule map.  Threads work at pages of their own; a listed page has *)
(* its range, and so has one that is about to be listed or has just been   *)
(* taken off the list, which nobody else can reach.                        *)

Labels == {"idle", "cut", "physical", "publish", "count", "uncount", "addresses", "memory"}

ThreadsFit ==
  /\ pc \in [Threads -> Labels]
  /\ at \in [Threads -> Pages]

MapsFit ==
  /\ pages \subseteq Pages
  /\ DOMAIN granules = 0 .. Addresses - 1

OwnPages == \A t, u \in Threads : pc[t] # "idle" /\ pc[u] # "idle" /\ t # u => at[t] # at[u]

\* Where a thread has a page with a range that is on no list.
Unlisted == {"physical", "publish", "uncount", "addresses"}

RangesFit ==
  /\ \A p \in pages : held[p] # None
  /\ \A t \in Threads : pc[t] \in Unlisted => held[at[t]] # None /\ at[t] \notin pages

IInv == VInv /\ ThreadsFit /\ MapsFit /\ OwnPages /\ RangesFit /\ GranulesFindPages

LEMMA NoneIsNoPiece == None \notin Pieces
<1>1. ASSUME NEW x \in Pieces PROVE x \in [addr : Nat, size : Nat]
  BY DEF Pieces
<1> QED BY <1>1, PageMemoryAssumption

LEMMA InitIInv == Init => IInv
<1> SUFFICES ASSUME Init PROVE IInv
  OBVIOUS
<1>1. VInv
  BY InitVInv
<1>2. ThreadsFit /\ MapsFit /\ OwnPages /\ RangesFit
  BY DEF Init, ThreadsFit, MapsFit, OwnPages, RangesFit, Labels, Unlisted
<1>3. GranulesFindPages
  BY DEF Init, GranulesFindPages
<1> QED BY <1>1, <1>2, <1>3 DEF IInv

\* The range of one page and that of another share no granule.
LEMMA UnitsApart ==
  ASSUME VInv, NEW p \in Pages, NEW q \in Pages, p # q, held[p] # None, held[q] # None
  PROVE  Units(held[p]) \cap Units(held[q]) = {}
<1>1. held[p] \in Pieces /\ held[q] \in Pieces /\ Apart(held[p], held[q])
  BY DEF VInv, HeldFits
<1> QED BY <1>1, ApartMeansDisjoint

\* A thread that goes on to another step, or starts with a page that nobody
\* is busy with, leaves the threads at pages of their own.
LEMMA GoesOn ==
  ASSUME ThreadsFit, OwnPages, NEW t \in Threads, NEW from \in Labels, NEW to \in Labels,
         from # "idle", Move(t, from, to), at' = at
  PROVE  /\ ThreadsFit' /\ OwnPages' /\ pc'[t] = to
         /\ \A u \in Threads \ {t} : pc'[u] = pc[u] /\ (pc[u] # "idle" => at[u] # at[t])
<1>1. pc[t] = from /\ pc' = [pc EXCEPT ![t] = to]
  BY DEF Move, Goto
<1>2. pc' \in [Threads -> Labels] /\ pc'[t] = to /\ \A u \in Threads \ {t} : pc'[u] = pc[u]
  BY <1>1 DEF ThreadsFit
<1>3. \A u \in Threads \ {t} : pc[u] # "idle" => at[u] # at[t]
  BY <1>1 DEF OwnPages
<1>4. OwnPages'
  BY <1>1, <1>2 DEF OwnPages
<1> QED BY <1>2, <1>3, <1>4 DEF ThreadsFit

LEMMA Starts ==
  ASSUME ThreadsFit, OwnPages, NEW t \in Threads, NEW p \in Pages, NEW to \in Labels,
         Start(t, p, to)
  PROVE  /\ ThreadsFit' /\ OwnPages' /\ pc'[t] = to /\ at'[t] = p
         /\ \A u \in Threads \ {t} : /\ pc'[u] = pc[u] /\ at'[u] = at[u]
                                     /\ pc[u] # "idle" => at[u] # p
<1>1. /\ pc[t] = "idle" /\ pc' = [pc EXCEPT ![t] = to] /\ at' = [at EXCEPT ![t] = p]
      /\ \A u \in Threads : pc[u] # "idle" => at[u] # p
  BY DEF Start, Busy, Move, Goto
<1>2. /\ pc' \in [Threads -> Labels] /\ pc'[t] = to /\ at' \in [Threads -> Pages] /\ at'[t] = p
      /\ \A u \in Threads \ {t} : pc'[u] = pc[u] /\ at'[u] = at[u]
  BY <1>1 DEF ThreadsFit
<1>3. OwnPages'
  BY <1>1, <1>2 DEF OwnPages
<1> QED BY <1>1, <1>2, <1>3 DEF ThreadsFit

\* A page that is on no list may get a range or lose it.
LEMMA MapKeeps ==
  ASSUME MapsFit, GranulesFindPages, pages' = pages, granules' = granules,
         \A p \in pages : held'[p] = held[p]
  PROVE  MapsFit' /\ GranulesFindPages'
BY DEF MapsFit, GranulesFindPages

LEMMA NextIInv == OneAtATime /\ IInv /\ [Next]_vars => IInv'
<1> SUFFICES ASSUME OneAtATime, IInv, [Next]_vars PROVE IInv'
  OBVIOUS
<1>1. VInv /\ ThreadsFit /\ MapsFit /\ OwnPages /\ RangesFit /\ GranulesFindPages
  BY DEF IInv
<1>2. /\ pc \in [Threads -> Labels] /\ at \in [Threads -> Pages] /\ pages \subseteq Pages
      /\ held \in [Pages -> Pieces \cup {None}] /\ free \in Seq(Pieces)
  BY <1>1 DEF ThreadsFit, MapsFit, VInv, HeldFits, FreeFits
<1>3. VInv'
  BY <1>1, <1>2, NextVInv
<1>4. ASSUME NEW t \in Threads, NEW p \in Pages, NEW n \in Sizes, NewVirtual(t, p, n)
      PROVE  IInv'
  <2>1. /\ held[p] = None /\ pages' = pages /\ granules' = granules
        /\ \A q \in Pages \ {p} : held'[q] = held[q]
        /\ \/ Start(t, p, "physical") /\ held'[p] # None
           \/ Start(t, p, "cut")
    <3>1. CASE V!TakeWhole(p, n) /\ Start(t, p, "physical")
      <4>1. held[p] = None /\ \E i \in 1 .. Len(free) : held' = [held EXCEPT ![p] = free[i]]
        BY <1>1, <3>1, TakesWhole
      <4>2. \A i \in 1 .. Len(free) : free[i] # None
        BY <1>2, NoneIsNoPiece
      <4> QED BY <1>2, <1>4, <3>1, <4>1, <4>2 DEF NewVirtual, maps
    <3>2. CASE V!ReadPiece(p, n) /\ Start(t, p, "cut")
      <4>1. held[p] = None /\ held' = held
        BY <1>1, <3>2, ReadsPiece
      <4> QED BY <1>4, <3>2, <4>1 DEF NewVirtual, maps
    <3> QED BY <1>4, <3>1, <3>2 DEF NewVirtual
  <2>2. p \notin pages
    BY <1>1, <2>1 DEF RangesFit
  <2>3. MapsFit' /\ GranulesFindPages'
    <3>1. \A q \in pages : held'[q] = held[q]
      BY <1>2, <2>1, <2>2
    <3> QED BY <1>1, <2>1, <3>1, MapKeeps
  <2>4. PICK to \in {"physical", "cut"} : Start(t, p, to) /\ (to = "physical" => held'[p] # None)
    BY <2>1
  <2>5. /\ ThreadsFit' /\ OwnPages' /\ pc'[t] = to /\ at'[t] = p
        /\ \A u \in Threads \ {t} : /\ pc'[u] = pc[u] /\ at'[u] = at[u]
                                    /\ pc[u] # "idle" => at[u] # p
    BY <1>1, <2>4, Starts DEF Labels
  <2>6. RangesFit'
    <3>1. ASSUME NEW u \in Threads, pc'[u] \in Unlisted
          PROVE  held'[at'[u]] # None /\ at'[u] \notin pages'
      <4>1. CASE u = t
        BY <2>1, <2>2, <2>4, <2>5, <3>1, <4>1 DEF Unlisted
      <4>2. CASE u # t
        BY <1>1, <1>2, <2>1, <2>5, <3>1, <4>2 DEF RangesFit, Unlisted
      <4> QED BY <4>1, <4>2
    <3>2. \A q \in pages' : held'[q] # None
      BY <1>1, <1>2, <2>1, <2>2 DEF RangesFit
    <3> QED BY <3>1, <3>2 DEF RangesFit
  <2> QED BY <1>3, <2>3, <2>5, <2>6 DEF IInv
<1>5. ASSUME NEW t \in Threads, NewVirtualCut(t)
      PROVE  IInv'
  <2>1. /\ held[at[t]] = None /\ held'[at[t]] # None
        /\ \A q \in Pages \ {at[t]} : held'[q] = held[q]
    <3>1. /\ held[at[t]] = None
          /\ \E i \in 1 .. Len(free), n \in Nat \ {0} : held' = [held EXCEPT ![at[t]] = Segment(free[i].addr, n)]
      BY <1>1, <1>2, <1>5, CutsPiece DEF NewVirtualCut
    <3>2. \A i \in 1 .. Len(free), n \in Nat \ {0} : Segment(free[i].addr, n) # None
      <4> TAKE i \in 1 .. Len(free), n \in Nat \ {0}
      <4>1. free[i].addr \in Nat /\ n >= 1 /\ n \in Nat
        <5>1. free[i] \in Pieces /\ n >= 1 /\ n \in Nat
          BY <1>2
        <5> QED BY <5>1, PieceFields
      <4>2. Segment(free[i].addr, n) \in Pieces
        BY <4>1, SegmentIsPiece
      <4> QED BY <4>2, NoneIsNoPiece
    <3> QED BY <1>2, <3>1, <3>2
  <2>2. Move(t, "cut", "physical") /\ at' = at /\ pages' = pages /\ granules' = granules
    BY <1>5 DEF NewVirtualCut, maps
  <2>3. /\ ThreadsFit' /\ OwnPages' /\ pc'[t] = "physical"
        /\ \A u \in Threads \ {t} : pc'[u] = pc[u] /\ (pc[u] # "idle" => at[u] # at[t])
    BY <1>1, <2>2, GoesOn DEF Labels
  <2>4. at[t] \notin pages
    BY <1>1, <2>1 DEF RangesFit
  <2>5. MapsFit' /\ GranulesFindPages'
    <3>1. \A q \in pages : held'[q] = held[q]
      BY <1>2, <2>1, <2>4
    <3> QED BY <1>1, <2>2, <3>1, MapKeeps
  <2>6. RangesFit'
    <3>1. ASSUME NEW u \in Threads, pc'[u] \in Unlisted
          PROVE  held'[at'[u]] # None /\ at'[u] \notin pages'
      <4>1. CASE u = t
        BY <2>1, <2>2, <2>4, <4>1
      <4>2. CASE u # t
        BY <1>1, <1>2, <2>1, <2>2, <2>3, <3>1, <4>2 DEF RangesFit, Unlisted
      <4> QED BY <4>1, <4>2
    <3>2. \A q \in pages' : held'[q] # None
      BY <1>1, <1>2, <2>1, <2>2, <2>4 DEF RangesFit
    <3> QED BY <3>1, <3>2 DEF RangesFit
  <2> QED BY <1>3, <2>3, <2>5, <2>6 DEF IInv
\* The steps that touch neither ranges nor maps.
<1>6. ASSUME NEW t \in Threads, NEW from \in Labels, NEW to \in Labels,
             from # "idle", Move(t, from, to), to \in Unlisted => from \in Unlisted,
             at' = at, UNCHANGED <<virtual, maps>>
      PROVE  IInv'
  <2>1. /\ ThreadsFit' /\ OwnPages' /\ pc'[t] = to /\ pc[t] = from
        /\ \A u \in Threads \ {t} : pc'[u] = pc[u]
    BY <1>1, <1>6, GoesOn DEF Move
  <2>2. held' = held /\ pages' = pages /\ granules' = granules
    BY <1>6 DEF virtual, maps
  <2>3. MapsFit' /\ GranulesFindPages'
    BY <1>1, <2>2, MapKeeps
  <2>4. RangesFit'
    BY <1>1, <1>6, <2>1, <2>2 DEF RangesFit
  <2> QED BY <1>3, <2>1, <2>3, <2>4 DEF IInv
\* The steps that give a range back.
<1>7. ASSUME NEW t \in Threads, NEW from \in Unlisted, NEW to \in Labels \ Unlisted,
             Move(t, from, to), V!Free(at[t]), at' = at, UNCHANGED maps
      PROVE  IInv'
  <2>1. held' = [held EXCEPT ![at[t]] = None]
    BY <1>1, <1>2, <1>7, Frees
  <2>2. from \in Labels /\ from # "idle"
    BY DEF Labels, Unlisted
  <2>3. /\ ThreadsFit' /\ OwnPages' /\ pc'[t] = to
        /\ \A u \in Threads \ {t} : pc'[u] = pc[u] /\ (pc[u] # "idle" => at[u] # at[t])
    BY <1>1, <1>7, <2>2, GoesOn
  <2>4. pages' = pages /\ granules' = granules
    BY <1>7 DEF maps
  <2>5. at[t] \notin pages
    BY <1>1, <1>7 DEF RangesFit, Move
  <2>6. \A q \in Pages \ {at[t]} : held'[q] = held[q]
    BY <1>2, <2>1
  <2>7. MapsFit' /\ GranulesFindPages'
    <3>1. \A q \in pages : held'[q] = held[q]
      BY <1>2, <2>5, <2>6
    <3> QED BY <1>1, <2>4, <3>1, MapKeeps
  <2>8. RangesFit'
    <3>1. ASSUME NEW u \in Threads, pc'[u] \in Unlisted
          PROVE  held'[at'[u]] # None /\ at'[u] \notin pages'
      <4>1. u # t
        BY <2>3, <3>1
      <4> QED BY <1>1, <1>2, <1>7, <2>3, <2>4, <2>6, <3>1, <4>1 DEF RangesFit, Unlisted
    <3>2. \A q \in pages' : held'[q] # None
      BY <1>1, <1>2, <2>4, <2>5, <2>6 DEF RangesFit
    <3> QED BY <3>1, <3>2 DEF RangesFit
  <2> QED BY <1>3, <2>3, <2>7, <2>8 DEF IInv
<1>8. ASSUME NEW t \in Threads, Publish(t)
      PROVE  IInv'
  <2> DEFINE p == at[t]
  <2>1. /\ Move(t, "publish", "count") /\ at' = at /\ pages' = pages \cup {p} /\ held' = held
        /\ granules' = [g \in DOMAIN granules |->
                          IF g \in Units(held[p]) THEN p ELSE granules[g]]
    BY <1>8 DEF Publish, virtual
  <2>2. /\ ThreadsFit' /\ OwnPages' /\ pc'[t] = "count"
        /\ \A u \in Threads \ {t} : pc'[u] = pc[u] /\ (pc[u] # "idle" => at[u] # at[t])
    BY <1>1, <2>1, GoesOn DEF Labels
  <2>3. p \in Pages /\ held[p] # None /\ p \notin pages /\ p # None
    BY <1>1, <1>2, <2>1, PageMemoryAssumption DEF RangesFit, Unlisted, Move
  <2> HIDE DEF p
  <2>4. MapsFit'
    BY <1>1, <2>1, <2>3 DEF MapsFit
  <2>5. GranulesFindPages'
    <3> SUFFICES ASSUME NEW g \in DOMAIN granules
                 PROVE  /\ granules'[g] # None => granules'[g] \in pages'
                        /\ \A q \in pages' : g \in Units(held[q]) <=> granules'[g] = q
      BY <2>1 DEF GranulesFindPages
    <3>1. /\ granules[g] # None => granules[g] \in pages
          /\ \A q \in pages : g \in Units(held[q]) <=> granules[g] = q
      BY <1>1 DEF GranulesFindPages
    <3>2. CASE g \in Units(held[p])
      <4>1. \A q \in pages : g \notin Units(held[q])
        BY <1>1, <1>2, <2>3, <3>2, UnitsApart DEF RangesFit
      <4> QED BY <2>1, <2>3, <3>2, <4>1
    <3>3. CASE g \notin Units(held[p])
      BY <2>1, <2>3, <3>1, <3>3
    <3> QED BY <3>2, <3>3
  <2>6. RangesFit'
    <3>1. ASSUME NEW u \in Threads, pc'[u] \in Unlisted
          PROVE  held'[at'[u]] # None /\ at'[u] \notin pages'
      <4>1. u # t
        BY <2>2, <3>1 DEF Unlisted
      <4> QED BY <1>1, <2>1, <2>2, <3>1, <4>1 DEF RangesFit, Unlisted, p
    <3>2. \A q \in pages' : held'[q] # None
      BY <1>1, <2>1, <2>3 DEF RangesFit
    <3> QED BY <3>1, <3>2 DEF RangesFit
  <2> QED BY <1>3, <2>2, <2>4, <2>5, <2>6 DEF IInv
<1>9. ASSUME NEW t \in Threads, NEW p \in Pages, Unlink(t, p)
      PROVE  IInv'
  <2>1. /\ p \in pages /\ Start(t, p, "uncount") /\ pages' = pages \ {p} /\ held' = held
        /\ granules' = [g \in DOMAIN granules |->
                          IF g \in Units(held[p]) THEN None ELSE granules[g]]
    BY <1>9 DEF Unlink, virtual
  <2>2. /\ ThreadsFit' /\ OwnPages' /\ pc'[t] = "uncount" /\ at'[t] = p
        /\ \A u \in Threads \ {t} : /\ pc'[u] = pc[u] /\ at'[u] = at[u]
                                    /\ pc[u] # "idle" => at[u] # p
    BY <1>1, <2>1, Starts DEF Labels
  <2>3. MapsFit'
    BY <1>1, <2>1 DEF MapsFit
  <2>4. GranulesFindPages'
    <3> SUFFICES ASSUME NEW g \in DOMAIN granules
                 PROVE  /\ granules'[g] # None => granules'[g] \in pages'
                        /\ \A q \in pages' : g \in Units(held[q]) <=> granules'[g] = q
      BY <2>1 DEF GranulesFindPages
    <3>1. /\ granules[g] # None => granules[g] \in pages
          /\ \A q \in pages : g \in Units(held[q]) <=> granules[g] = q
      BY <1>1 DEF GranulesFindPages
    <3>2. None \notin pages
      BY <1>2, PageMemoryAssumption
    <3>3. CASE g \in Units(held[p])
      <4>1. granules[g] = p /\ granules'[g] = None
        BY <2>1, <3>1, <3>3
      <4> QED BY <2>1, <3>1, <3>2, <4>1
    <3>4. CASE g \notin Units(held[p])
      <4>1. granules[g] # p /\ granules'[g] = granules[g]
        BY <2>1, <3>1, <3>4
      <4> QED BY <2>1, <3>1, <4>1
    <3> QED BY <3>3, <3>4
  <2>5. RangesFit'
    BY <1>1, <2>1, <2>2 DEF RangesFit
  <2> QED BY <1>3, <2>2, <2>3, <2>4, <2>5 DEF IInv
<1>10. CASE UNCHANGED vars
  <2>1. /\ pc' = pc /\ at' = at /\ pages' = pages /\ granules' = granules /\ held' = held
    BY <1>10 DEF vars, virtual, maps
  <2>2. ThreadsFit' /\ MapsFit' /\ OwnPages' /\ RangesFit' /\ GranulesFindPages'
    BY <1>1, <2>1 DEF ThreadsFit, MapsFit, OwnPages, RangesFit, GranulesFindPages
  <2> QED BY <1>3, <2>2 DEF IInv
<1>11. ASSUME NEW t \in Threads,
              NewPhysical(t) \/ Count(t) \/ Uncount(t) \/ FreePhysical(t)
       PROVE  IInv'
  <2>1. UNCHANGED <<virtual, maps>> /\ at' = at
    BY <1>11 DEF NewPhysical, Count, Uncount, FreePhysical
  <2>2. \/ Move(t, "physical", "publish") \/ Move(t, "count", "idle")
        \/ Move(t, "uncount", "addresses") \/ Move(t, "memory", "idle")
    BY <1>11 DEF NewPhysical, Count, Uncount, FreePhysical
  <2> QED BY <1>6, <2>1, <2>2 DEF Labels, Unlisted
<1>12. ASSUME NEW t \in Threads, NewPhysicalFails(t) \/ FreeVirtual(t)
       PROVE  IInv'
  <2>1. UNCHANGED maps /\ at' = at /\ V!Free(at[t])
    BY <1>12 DEF NewPhysicalFails, FreeVirtual
  <2>2. Move(t, "physical", "idle") \/ Move(t, "addresses", "memory")
    BY <1>12 DEF NewPhysicalFails, FreeVirtual
  <2> QED BY <1>7, <2>1, <2>2 DEF Labels, Unlisted
<1>13. CASE Next
  <2>1. PICK t \in Threads :
          \/ \E p \in Pages, n \in Sizes : NewVirtual(t, p, n)
          \/ NewVirtualCut(t) \/ NewPhysical(t) \/ NewPhysicalFails(t)
          \/ Publish(t) \/ Count(t)
          \/ \E p \in Pages : Unlink(t, p)
          \/ Uncount(t) \/ FreeVirtual(t) \/ FreePhysical(t)
    BY <1>13 DEF Next
  <2> QED BY <2>1, <1>4, <1>5, <1>8, <1>9, <1>11, <1>12
<1> QED BY <1>10, <1>13

\* The invariant of the virtual memory manager and of the granule map, while
\* one thread at a time is in the manager and takes ranges from the front.
THEOREM InvariantHolds == OneAtATime => (Spec => []IInv)
<1> SUFFICES ASSUME OneAtATime PROVE Spec => []IInv
  OBVIOUS
<1>1. Init => IInv
  BY InitIInv
<1>2. IInv /\ [Next]_vars => IInv'
  BY NextIInv
<1> QED BY <1>1, <1>2, PTL DEF Spec

\* Ranges that are apart are disjoint, and an ordered list has no overlap.
LEMMA ApartIsDisjoint == VInv => AddressesDisjoint
<1> SUFFICES ASSUME VInv PROVE AddressesDisjoint
  OBVIOUS
<1>1. /\ free \in Seq(Pieces) /\ Sorted(free) /\ held \in [Pages -> Pieces \cup {None}]
      /\ \A p \in Pages : held[p] # None => OffList(held[p], free)
  BY DEF VInv, FreeFits, HeldFits
<1>2. \A p, q \in V!Holders : p # q => V!Units(held[p]) \cap V!Units(held[q]) = {}
  BY UnitsApart DEF V!Holders, V!Units, Units, V!End, End
<1>3. \A p \in V!Holders, i \in DOMAIN free : V!Units(held[p]) \cap V!Units(free[i]) = {}
  <2> SUFFICES ASSUME NEW p \in V!Holders, NEW i \in DOMAIN free
               PROVE  Units(held[p]) \cap Units(free[i]) = {}
    BY DEF V!Units, Units, V!End, End
  <2>1. held[p] \in Pieces /\ free[i] \in Pieces /\ Apart(held[p], free[i])
    BY <1>1 DEF V!Holders, OffList
  <2> QED BY <2>1, ApartMeansDisjoint
<1>4. V!Ordered(free)
  <2>1. \A i \in 1 .. Len(free) - 1 : End(free[i]) <= free[i + 1].addr
    <3> TAKE i \in 1 .. Len(free) - 1
    <3>1. i \in 1 .. Len(free) /\ i + 1 \in 1 .. Len(free) /\ i < i + 1
      BY <1>1
    <3> QED BY <1>1, <3>1 DEF Sorted
  <2> QED BY <2>1 DEF V!Ordered, V!End, End
<1> QED BY <1>2, <1>3, <1>4 DEF AddressesDisjoint, V!Disjoint

\* No address is in two pages, or in a page and in the free list
\* (allocate_virtual_memory, release_virtual_memory), for any number of threads
\* and pages and any sizes, while one thread at a time is in the manager
\* and no page is large.
THEOREM AddressesAreDisjoint == OneAtATime => (Spec => []AddressesDisjoint)
<1> SUFFICES ASSUME OneAtATime PROVE Spec => []AddressesDisjoint
  OBVIOUS
<1>1. Spec => []IInv
  BY InvariantHolds
<1>2. IInv => AddressesDisjoint
  BY ApartIsDisjoint DEF IInv
<1> QED BY <1>1, <1>2, PTL

\* Every granule of a listed page leads to it and no other granule leads
\* anywhere (ygc_addr_in_page), on the same conditions.
THEOREM GranulesLeadToPages == OneAtATime => (Spec => []GranulesFindPages)
<1> SUFFICES ASSUME OneAtATime PROVE Spec => []GranulesFindPages
  OBVIOUS
<1>1. Spec => []IInv
  BY InvariantHolds
<1>2. IInv => GranulesFindPages
  BY DEF IInv
<1> QED BY <1>1, <1>2, PTL
-----------------------------------------------------------------------------
(* Folds.  What a fold of the community modules computes is a recursive    *)
(* function on the sets of places; an element h[k] of the lists below is   *)
(* what the fold has after k of them.                                      *)

\* Induction up to n, for a set of numbers.
LEMMA Upwards ==
  ASSUME NEW n \in Nat, NEW G, 0 \in G, \A k \in 0 .. n : k \in G /\ k < n => k + 1 \in G
  PROVE  \A k \in 0 .. n : k \in G
<1> DEFINE I == {k \in 0 .. n : k \notin G}
<1> SUFFICES ASSUME I # {} PROVE FALSE
  OBVIOUS
<1>1. I \subseteq Nat
  OBVIOUS
<1>2. Min(I) \in I /\ \A j \in I : Min(I) <= j
  <2> HIDE DEF I
  <2> QED BY <1>1, MinIsLeast
<1> DEFINE m == Min(I)
<1>3. m \in 0 .. n /\ m \notin G /\ m # 0
  BY <1>2
<1>4. \A j \in 0 .. n : j < m => j \in G
  BY <1>2
<1> HIDE DEF m, I
<1>5. m - 1 \in 0 .. n /\ m - 1 < m /\ m - 1 < n /\ (m - 1) + 1 = m
  BY <1>3
<1> QED BY <1>3, <1>4, <1>5

\* Max of the sets a fold over a list goes through.
LEMMA MaxIsLast ==
  ASSUME NEW k \in Nat, NEW s \in SUBSET (1 .. k + 1), k + 1 \in s
  PROVE  Max(s) = k + 1
<1>1. \A y \in s : k + 1 >= y
  OBVIOUS
<1>2. \E x \in s : \A y \in s : x >= y
  BY <1>1
<1>3. Max(s) \in s /\ \A y \in s : Max(s) >= y
  BY <1>2, Zenon DEF Max
<1>4. Max(s) \in 1 .. k + 1 /\ Max(s) >= k + 1
  BY <1>3
<1> HIDE <1>1, <1>2, <1>3
<1> QED BY <1>4

\* What the folds of Segments and PhysicalMemory do with an element.
Do(kind, acc, x) == IF kind = "sum" THEN acc + x.size ELSE Release(acc, x)

FoldStep(kind, base, xs, g, s) ==
  IF s = {} THEN base ELSE Do(kind, g[s \ {Max(s)}], xs[Max(s)])

LEMMA FoldExists ==
  ASSUME NEW kind, NEW base, NEW xs, NEW n \in Nat
  PROVE  \E g : g = [s \in SUBSET (1 .. n) |-> FoldStep(kind, base, xs, g, s)]
<1> DEFINE G == {k \in 0 .. n : \E g : g = [s \in SUBSET (1 .. k) |-> FoldStep(kind, base, xs, g, s)]}
<1>1. 0 \in G
  <2> DEFINE g == [s \in SUBSET (1 .. 0) |-> base]
  <2>1. SUBSET (1 .. 0) = {{}}
    OBVIOUS
  <2>2. g = [s \in SUBSET (1 .. 0) |-> FoldStep(kind, base, xs, g, s)]
    BY <2>1 DEF FoldStep
  <2> HIDE DEF g
  <2>3. \E f : f = [s \in SUBSET (1 .. 0) |-> FoldStep(kind, base, xs, f, s)]
    BY <2>2
  <2> QED BY <2>3
<1>2. ASSUME NEW k \in 0 .. n, k \in G, k < n PROVE k + 1 \in G
  <2>1. PICK g : g = [s \in SUBSET (1 .. k) |-> FoldStep(kind, base, xs, g, s)]
    BY <1>2
  <2> DEFINE h == [s \in SUBSET (1 .. k + 1) |->
                     IF k + 1 \in s THEN Do(kind, g[s \ {k + 1}], xs[k + 1]) ELSE g[s]]
  <2>2. ASSUME NEW s \in SUBSET (1 .. k + 1), k + 1 \notin s
        PROVE  s \in SUBSET (1 .. k)
    BY <2>2
  <2>3. ASSUME NEW s \in SUBSET (1 .. k + 1) PROVE h[s] = FoldStep(kind, base, xs, h, s)
    <3>1. CASE k + 1 \in s
      <4>1. Max(s) = k + 1 /\ s # {}
        BY <3>1, MaxIsLast
      <4>2. s \ {k + 1} \in SUBSET (1 .. k + 1) /\ k + 1 \notin s \ {k + 1}
        OBVIOUS
      <4>3. h[s \ {k + 1}] = g[s \ {k + 1}] /\ h[s] = Do(kind, g[s \ {k + 1}], xs[k + 1])
        BY <3>1, <4>2
      <4> HIDE DEF h
      <4> QED BY <4>1, <4>3 DEF FoldStep
    <3>2. CASE k + 1 \notin s /\ s # {}
      <4>1. s \in SUBSET (1 .. k)
        BY <2>2, <3>2
      <4>2. /\ s \ {Max(s)} \in SUBSET (1 .. k) /\ s \ {Max(s)} \in SUBSET (1 .. k + 1)
            /\ k + 1 \notin s \ {Max(s)}
        BY <3>2, <4>1
      <4>3. h[s] = g[s] /\ h[s \ {Max(s)}] = g[s \ {Max(s)}]
        BY <3>2, <4>2
      <4>4. g[s] = FoldStep(kind, base, xs, g, s)
        BY <2>1, <4>1
      <4> HIDE DEF h
      <4> QED BY <3>2, <4>3, <4>4 DEF FoldStep
    <3>3. CASE s = {}
      <4>1. s \in SUBSET (1 .. k) /\ k + 1 \notin s
        BY <3>3
      <4>2. h[s] = g[s] /\ g[s] = base
        BY <2>1, <3>3, <4>1 DEF FoldStep
      <4> HIDE DEF h
      <4> QED BY <3>3, <4>2 DEF FoldStep
    <3> QED BY <3>1, <3>2, <3>3
  <2>4. h = [s \in SUBSET (1 .. k + 1) |-> FoldStep(kind, base, xs, h, s)]
    BY <2>3
  <2> HIDE DEF h
  <2>5. \E f : f = [s \in SUBSET (1 .. k + 1) |-> FoldStep(kind, base, xs, f, s)]
    BY <2>4
  <2> QED BY <1>2, <2>5
<1> HIDE DEF G
<1>3. \A k \in 0 .. n : k \in G
  BY <1>1, <1>2, Upwards
<1>4. n \in G
  BY <1>3
<1> QED BY <1>4 DEF G

ReleaseAll(list, xs) == FoldLeft(Release, list, xs)

\* What the fold has after k elements.
AfterElements(kind, base, xs) ==
  LET g == CHOOSE g : g = [s \in SUBSET (1 .. Len(xs)) |-> FoldStep(kind, base, xs, g, s)]
  IN  [k \in 0 .. Len(xs) |-> g[1 .. k]]

\* A fold goes through the list from its first element to its last.
LEMMA FoldSteps ==
  ASSUME NEW kind, NEW base, NEW xs \in Seq(Pieces)
  PROVE  LET h == AfterElements(kind, base, xs) IN
         /\ h[0] = base
         /\ \A k \in 0 .. Len(xs) : k < Len(xs) => h[k + 1] = Do(kind, h[k], xs[k + 1])
         /\ kind = "sum" /\ base = 0 => TotalSize(xs) = h[Len(xs)]
         /\ kind = "release" => ReleaseAll(base, xs) = h[Len(xs)]
<1> DEFINE g == CHOOSE g : g = [s \in SUBSET (1 .. Len(xs)) |-> FoldStep(kind, base, xs, g, s)]
           h == [k \in 0 .. Len(xs) |-> g[1 .. k]]
<1>1. Len(xs) \in Nat /\ DOMAIN xs = 1 .. Len(xs)
  OBVIOUS
<1>2. g = [s \in SUBSET (1 .. Len(xs)) |-> FoldStep(kind, base, xs, g, s)]
  BY <1>1, FoldExists
<1>3. kind = "release" => ReleaseAll(base, xs) = g[1 .. Len(xs)]
  BY <1>1 DEF ReleaseAll, FoldLeft, MapThenFoldSet, FoldStep, Do
<1>4. kind = "sum" /\ base = 0 => TotalSize(xs) = g[1 .. Len(xs)]
  BY <1>1 DEF TotalSize, FoldLeft, MapThenFoldSet, FoldStep, Do
<1> HIDE DEF g
<1>8. \A s \in SUBSET (1 .. Len(xs)) : g[s] = FoldStep(kind, base, xs, g, s)
  BY <1>2, Zenon
<1>5. h[0] = base
  <2>1. 1 .. 0 = {} /\ {} \in SUBSET (1 .. Len(xs)) /\ h[0] = g[1 .. 0]
    BY <1>1
  <2>2. g[{}] = base
    BY <1>2, <2>1 DEF FoldStep
  <2> QED BY <2>1, <2>2
<1>6. ASSUME NEW k \in 0 .. Len(xs), k < Len(xs)
      PROVE  h[k + 1] = Do(kind, h[k], xs[k + 1])
  <2>1. /\ k \in Nat /\ k + 1 \in 0 .. Len(xs) /\ k + 1 \in 1 .. k + 1
        /\ 1 .. k + 1 \in SUBSET (1 .. k + 1) /\ 1 .. k + 1 \in SUBSET (1 .. Len(xs))
    BY <1>1, <1>6
  <2>2. Max(1 .. k + 1) = k + 1
    BY <2>1, MaxIsLast
  <2>3. (1 .. k + 1) \ {k + 1} = 1 .. k /\ 1 .. k + 1 # {}
    <3>1. k \in Int
      BY <2>1
    <3> HIDE <2>1, <2>2, <1>1, <1>2, <1>3, <1>4, <1>5, <1>6 DEF h
    <3>2. \A i \in Int : i \in (1 .. k + 1) \ {k + 1} <=> i \in 1 .. k
      BY <3>1
    <3>3. (1 .. k + 1) \ {k + 1} = 1 .. k
      BY <3>2
    <3>4. k + 1 \in 1 .. k + 1
      BY <2>1
    <3> QED BY <3>3, <3>4
  <2>4. g[1 .. k + 1] = FoldStep(kind, base, xs, g, 1 .. k + 1)
    <3> DEFINE s == 1 .. k + 1
    <3>1. s \in SUBSET (1 .. Len(xs))
      BY <2>1
    <3> HIDE DEF s
    <3>2. g[s] = FoldStep(kind, base, xs, g, s)
      BY <1>8, <3>1
    <3> QED BY <3>2 DEF s
  <2>5. g[1 .. k + 1] = Do(kind, g[1 .. k], xs[k + 1])
    BY <2>2, <2>3, <2>4 DEF FoldStep
  <2>6. h[k + 1] = g[1 .. k + 1] /\ h[k] = g[1 .. k]
    BY <2>1
  <2> QED BY <2>5, <2>6
<1>7. h[Len(xs)] = g[1 .. Len(xs)]
  BY <1>1
<1>9. h = AfterElements(kind, base, xs)
  BY DEF g, AfterElements
<1> HIDE DEF h
<1> QED BY <1>3, <1>4, <1>5, <1>6, <1>7, <1>9

LEMMA SumSteps ==
  ASSUME NEW xs \in Seq(Pieces)
  PROVE  \E h : /\ h[0] = 0
                /\ \A k \in 0 .. Len(xs) : k < Len(xs) => h[k + 1] = h[k] + xs[k + 1].size
                /\ TotalSize(xs) = h[Len(xs)]
<1> DEFINE h == AfterElements("sum", 0, xs)
<1>1. /\ h[0] = 0 /\ TotalSize(xs) = h[Len(xs)]
      /\ \A k \in 0 .. Len(xs) : k < Len(xs) => h[k + 1] = Do("sum", h[k], xs[k + 1])
  BY FoldSteps
<1> HIDE DEF h
<1>2. ASSUME NEW k \in 0 .. Len(xs), k < Len(xs) PROVE h[k + 1] = h[k] + xs[k + 1].size
  BY <1>1, <1>2, Zenon DEF Do
<1> QED BY <1>1, <1>2

LEMMA ReleaseSteps ==
  ASSUME NEW list, NEW xs \in Seq(Pieces)
  PROVE  \E h : /\ h[0] = list
                /\ \A k \in 0 .. Len(xs) : k < Len(xs) => h[k + 1] = Release(h[k], xs[k + 1])
                /\ ReleaseAll(list, xs) = h[Len(xs)]
<1> DEFINE h == AfterElements("release", list, xs)
<1>1. /\ h[0] = list /\ ReleaseAll(list, xs) = h[Len(xs)]
      /\ \A k \in 0 .. Len(xs) : k < Len(xs) => h[k + 1] = Do("release", h[k], xs[k + 1])
  BY FoldSteps
<1> HIDE DEF h
<1>2. ASSUME NEW k \in 0 .. Len(xs), k < Len(xs) PROVE h[k + 1] = Release(h[k], xs[k + 1])
  BY <1>1, <1>2 DEF Do
<1> QED BY <1>1, <1>2

-----------------------------------------------------------------------------
(* What a list covers.                                                     *)

Covered(list) == UNION {Units(list[i]) : i \in 1 .. Len(list)}

LEMMA InCovered ==
  ASSUME NEW list, NEW g
  PROVE  g \in Covered(list) <=> \E i \in 1 .. Len(list) : g \in Units(list[i])
BY DEF Covered

LEMMA UnitsCount ==
  ASSUME NEW x \in Pieces
  PROVE  /\ IsFiniteSet(Units(x)) /\ Cardinality(Units(x)) = x.size
         /\ x.addr \in Units(x) /\ Units(x) \subseteq Nat
<1>1. /\ x.addr \in Nat /\ x.size \in Nat /\ x.size >= 1 /\ End(x) \in Nat
      /\ End(x) = x.addr + x.size
  BY PieceFields
<1>2. x.addr \in Int /\ End(x) - 1 \in Int /\ ~(x.addr > End(x) - 1)
      /\ (End(x) - 1) - x.addr + 1 = x.size
  BY <1>1
<1>3. IsFiniteSet(x.addr .. End(x) - 1) /\ Cardinality(x.addr .. End(x) - 1) = x.size
  BY <1>2, FS_Interval
<1>4. x.addr \in x.addr .. End(x) - 1 /\ x.addr .. End(x) - 1 \subseteq Nat
  BY <1>1, <1>2
<1> QED BY <1>3, <1>4 DEF Units

\* Sets that are apart are counted one by one.
LEMMA CountBoth ==
  ASSUME NEW A, NEW B, IsFiniteSet(A), IsFiniteSet(B), A \cap B = {}
  PROVE  IsFiniteSet(A \cup B) /\ Cardinality(A \cup B) = Cardinality(A) + Cardinality(B)
<1>1. Cardinality(A) \in Nat /\ Cardinality(B) \in Nat /\ Cardinality(A \cap B) = 0
  BY FS_CardinalityType, FS_EmptySet
<1>2. /\ IsFiniteSet(A \cup B)
      /\ Cardinality(A \cup B) = Cardinality(A) + Cardinality(B) - Cardinality(A \cap B)
  BY FS_Union
<1> QED BY <1>1, <1>2

\* The sizes of a list add up to what it covers.
LEMMA TotalIsCovered ==
  ASSUME NEW list \in Seq(Pieces), Sorted(list)
  PROVE  IsFiniteSet(Covered(list)) /\ TotalSize(list) = Cardinality(Covered(list))
<1> DEFINE n == Len(list)
           u == [k \in 0 .. n |-> UNION {Units(list[i]) : i \in 1 .. k}]
<1>1. PICK h : /\ h[0] = 0
               /\ \A k \in 0 .. n : k < n => h[k + 1] = h[k] + list[k + 1].size
               /\ TotalSize(list) = h[n]
  BY SumSteps
<1>2. n \in Nat /\ \A i \in 1 .. n : list[i] \in Pieces
  OBVIOUS
<1> DEFINE G == {k \in 0 .. n : IsFiniteSet(u[k]) /\ h[k] = Cardinality(u[k])}
<1>3. 0 \in G
  <2>1. u[0] = {} /\ 0 \in 0 .. n
    BY <1>2
  <2> HIDE DEF u
  <2> QED BY <1>1, <2>1, FS_EmptySet
<1>4. ASSUME NEW k \in 0 .. n, k \in G, k < n PROVE k + 1 \in G
  <2>1. k + 1 \in 0 .. n /\ k + 1 \in 1 .. n /\ list[k + 1] \in Pieces
    BY <1>2, <1>4
  <2>2. u[k + 1] = u[k] \cup Units(list[k + 1])
    <3>1. \A i : i \in 1 .. k + 1 <=> i \in 1 .. k \/ i = k + 1
      BY <2>1
    <3>2. \A e : e \in u[k + 1] <=> \E i \in 1 .. k + 1 : e \in Units(list[i])
      BY <2>1
    <3>3. \A e : e \in u[k] <=> \E i \in 1 .. k : e \in Units(list[i])
      BY <2>1
    <3> HIDE DEF u, n
    <3> QED BY <3>1, <3>2, <3>3
  <2>3. u[k] \cap Units(list[k + 1]) = {}
    <3> SUFFICES ASSUME NEW e \in u[k], e \in Units(list[k + 1]) PROVE FALSE
      OBVIOUS
    <3>1. PICK i \in 1 .. k : e \in Units(list[i])
      BY <2>1
    <3>2. i \in 1 .. n /\ i < k + 1
      BY <1>2, <2>1, <3>1
    <3> HIDE DEF u
    <3>3. Apart(list[i], list[k + 1]) /\ list[i] \in Pieces
      BY <1>2, <2>1, <3>2 DEF Sorted, Apart
    <3> QED BY <2>1, <3>1, <3>3, ApartMeansDisjoint
  <2> HIDE DEF u
  <2>4. IsFiniteSet(u[k]) /\ h[k] = Cardinality(u[k])
    BY <1>4
  <2>5. IsFiniteSet(Units(list[k + 1])) /\ Cardinality(Units(list[k + 1])) = list[k + 1].size
    BY <2>1, UnitsCount
  <2>6. /\ IsFiniteSet(u[k + 1])
        /\ Cardinality(u[k + 1]) = Cardinality(u[k]) + list[k + 1].size
    <3>1. /\ IsFiniteSet(u[k] \cup Units(list[k + 1]))
          /\ Cardinality(u[k] \cup Units(list[k + 1]))
               = Cardinality(u[k]) + Cardinality(Units(list[k + 1]))
      BY <2>3, <2>4, <2>5, CountBoth, Zenon
    <3> QED BY <2>2, <2>5, <3>1, Zenon
  <2>7. h[k + 1] = h[k] + list[k + 1].size
    BY <1>1, <1>4, Zenon
  <2> QED BY <2>1, <2>4, <2>6, <2>7
<1>5. u[n] = Covered(list)
  BY <1>2 DEF Covered
<1> HIDE DEF G, u
<1>6. \A k \in 0 .. n : k \in G
  BY <1>2, <1>3, <1>4, Upwards
<1>7. n \in G
  BY <1>2, <1>6
<1> QED BY <1>1, <1>5, <1>7 DEF G

LEMMA CoveredAppend ==
  ASSUME NEW list \in Seq(Pieces), NEW x \in Pieces
  PROVE  Covered(Append(list, x)) = Covered(list) \cup Units(x)
<1> DEFINE n == Len(list)
           longer == Append(list, x)
<1>1. /\ n \in Nat /\ Len(longer) = n + 1 /\ longer[n + 1] = x
      /\ \A j \in 1 .. n : longer[j] = list[j]
  OBVIOUS
<1> HIDE DEF longer
<1>2. \A j : j \in 1 .. n + 1 <=> j \in 1 .. n \/ j = n + 1
  BY <1>1
<1>3. ASSUME NEW g PROVE g \in Covered(longer) <=> g \in Covered(list) \/ g \in Units(x)
  <2>1. g \in Covered(longer) <=> \E j \in 1 .. n + 1 : g \in Units(longer[j])
    BY <1>1, InCovered
  <2>2. g \in Covered(list) <=> \E j \in 1 .. n : g \in Units(list[j])
    BY InCovered
  <2> HIDE DEF n
  <2> QED BY <1>1, <1>2, <2>1, <2>2
<1> QED BY <1>3 DEF longer

\* A range that grows downwards by the range in front of it.
LEMMA UnitsJoin ==
  ASSUME NEW x \in Pieces, NEW y \in Pieces, End(x) = y.addr
  PROVE  Units(Segment(x.addr, x.size + y.size)) = Units(x) \cup Units(y)
<1>1. /\ x.addr \in Nat /\ x.size \in Nat /\ x.size >= 1 /\ End(x) = x.addr + x.size
      /\ y.addr \in Nat /\ y.size \in Nat /\ y.size >= 1 /\ End(y) = y.addr + y.size
  BY PieceFields
<1> DEFINE a == x.addr
           m == x.size
           k == y.size
<1>2. /\ a \in Nat /\ m \in Nat /\ k \in Nat /\ m >= 1 /\ k >= 1
      /\ End(x) = a + m /\ y.addr = a + m /\ End(y) = (a + m) + k
  BY <1>1
<1> HIDE DEF a, m, k
<1>3. m + k \in Nat /\ m + k >= 1 /\ a + (m + k) = (a + m) + k
  BY <1>2
<1>4. Segment(a, m + k).addr = a /\ End(Segment(a, m + k)) = a + (m + k)
  BY <1>2, <1>3, SegmentIsPiece
<1>5. Units(Segment(a, m + k)) = a .. ((a + m) + k) - 1
  BY <1>3, <1>4 DEF Units
<1>6. Units(x) = a .. (a + m) - 1
  BY <1>2 DEF Units, a
<1>7. Units(y) = a + m .. ((a + m) + k) - 1
  BY <1>2 DEF Units
<1>8. a .. ((a + m) + k) - 1 = (a .. (a + m) - 1) \cup (a + m .. ((a + m) + k) - 1)
  <2> HIDE <1>4, <1>5, <1>6, <1>7
  <2> QED BY <1>2
<1> QED BY <1>5, <1>6, <1>7, <1>8 DEF a, m, k

LEMMA CoveredInsert ==
  ASSUME NEW list \in Seq(Pieces), NEW i \in 1 .. Len(list), NEW x \in Pieces
  PROVE  Covered(InsertAt(list, i, x)) = Covered(list) \cup Units(x)
<1> DEFINE n == Len(list)
           longer == InsertAt(list, i, x)
<1>1. /\ Len(longer) = n + 1
      /\ \A j \in 1 .. n + 1 :
           longer[j] = IF j < i THEN list[j] ELSE IF j = i THEN x ELSE list[j - 1]
  BY InsertAtFacts
<1>2. n \in Nat /\ i \in 1 .. n /\ i \in 1 .. n + 1
  OBVIOUS
<1> HIDE DEF longer, n
<1>3. ASSUME NEW g PROVE g \in Covered(longer) <=> g \in Covered(list) \/ g \in Units(x)
  <2>1. g \in Covered(longer) <=> \E j \in 1 .. n + 1 : g \in Units(longer[j])
    BY <1>1, InCovered
  <2>2. g \in Covered(list) <=> \E j \in 1 .. n : g \in Units(list[j])
    BY InCovered DEF n
  <2>3. ASSUME NEW j \in 1 .. n + 1, g \in Units(longer[j])
        PROVE  g \in Units(x) \/ \E k \in 1 .. n : g \in Units(list[k])
    <3>1. CASE j < i
      <4>1. j \in 1 .. n /\ longer[j] = list[j]
        BY <1>1, <1>2, <3>1
      <4> QED BY <2>3, <4>1
    <3>2. CASE j = i
      <4>1. longer[j] = x
        BY <1>1, <1>2, <3>2
      <4> QED BY <2>3, <4>1
    <3>3. CASE j > i
      <4>1. j - 1 \in 1 .. n /\ longer[j] = list[j - 1]
        BY <1>1, <1>2, <3>3
      <4> QED BY <2>3, <4>1
    <3> QED BY <1>2, <3>1, <3>2, <3>3
  <2>4. ASSUME NEW k \in 1 .. n, g \in Units(list[k])
        PROVE  \E j \in 1 .. n + 1 : g \in Units(longer[j])
    <3>1. CASE k < i
      <4>1. k \in 1 .. n + 1 /\ longer[k] = list[k]
        BY <1>1, <1>2, <3>1
      <4> QED BY <2>4, <4>1
    <3>2. CASE k >= i
      <4>1. k + 1 \in 1 .. n + 1 /\ ~(k + 1 < i) /\ k + 1 # i /\ (k + 1) - 1 = k
        BY <1>2, <3>2
      <4>2. longer[k + 1] = list[k]
        BY <1>1, <4>1
      <4> QED BY <2>4, <4>1, <4>2
    <3> QED BY <1>2, <3>1, <3>2
  <2>5. longer[i] = x
    BY <1>1, <1>2
  <2> QED BY <1>2, <2>1, <2>2, <2>3, <2>4, <2>5
<1> QED BY <1>3 DEF longer

\* Another range in the place of one.
LEMMA CoveredReplace ==
  ASSUME NEW list \in Seq(Pieces), NEW i \in 1 .. Len(list), NEW r \in Pieces, NEW U,
         Units(r) = U \cup Units(list[i])
  PROVE  Covered(ReplaceAt(list, i, r)) = Covered(list) \cup U
<1> DEFINE n == Len(list)
           other == ReplaceAt(list, i, r)
<1>1. Len(other) = n /\ other[i] = r /\ \A j \in 1 .. n : j # i => other[j] = list[j]
  BY DEF ReplaceAt
<1> HIDE DEF other
<1>2. ASSUME NEW g PROVE g \in Covered(other) <=> g \in Covered(list) \/ g \in U
  <2>1. g \in Covered(other) <=> \E j \in 1 .. n : g \in Units(other[j])
    BY <1>1, InCovered
  <2>2. g \in Covered(list) <=> \E j \in 1 .. n : g \in Units(list[j])
    BY InCovered
  <2>3. g \in Units(r) <=> g \in U \/ g \in Units(list[i])
    OBVIOUS
  <2> HIDE DEF n
  <2>4. i \in 1 .. n
    BY DEF n
  <2> QED BY <1>1, <2>1, <2>2, <2>3, <2>4
<1> QED BY <1>2 DEF other

\* A range that is put back is covered again.
LEMMA ReleaseCovers ==
  ASSUME NEW list \in Seq(Pieces), NEW x \in Pieces
  PROVE  Covered(Release(list, x)) = Covered(list) \cup Units(x)
<1> DEFINE I == {i \in 1 .. Len(list) : End(x) = list[i].addr \/ list[i].addr > x.addr}
           i == Min(I)
<1>1. CASE I = {}
  <2>1. Release(list, x) = Append(list, x)
    BY <1>1 DEF Release, SelectInSeq
  <2> QED BY <2>1, CoveredAppend
<1>2. CASE I # {}
  <2>1. i \in 1 .. Len(list) /\ i # 0
    <3>1. I \subseteq Nat /\ I \subseteq 1 .. Len(list)
      OBVIOUS
    <3>2. 0 \notin 1 .. Len(list)
      OBVIOUS
    <3> HIDE DEF I
    <3> QED BY <1>2, <3>1, <3>2, MinIsLeast
  <2>2. Release(list, x) = IF End(x) = list[i].addr
                             THEN ReplaceAt(list, i, Segment(x.addr, x.size + list[i].size))
                             ELSE InsertAt(list, i, x)
    BY <1>2, <2>1 DEF Release, SelectInSeq
  <2> HIDE DEF I, i
  <2>3. list[i] \in Pieces
    BY <2>1
  <2>4. CASE End(x) = list[i].addr
    <3> DEFINE r == Segment(x.addr, x.size + list[i].size)
    <3>1. Units(r) = Units(x) \cup Units(list[i])
      BY <2>3, <2>4, UnitsJoin
    <3>2. r \in Pieces
      <4>1. /\ x.addr \in Nat /\ x.size \in Nat /\ x.size >= 1
            /\ list[i].size \in Nat /\ list[i].size >= 1
        BY <2>3, PieceFields
      <4>2. x.size + list[i].size \in Nat /\ x.size + list[i].size >= 1
        BY <4>1
      <4> QED BY <4>1, <4>2, SegmentIsPiece
    <3> HIDE DEF r
    <3>3. Covered(ReplaceAt(list, i, r)) = Covered(list) \cup Units(x)
      BY <2>1, <3>1, <3>2, CoveredReplace
    <3> QED BY <2>2, <2>4, <3>3 DEF r
  <2>5. CASE End(x) # list[i].addr
    BY <2>1, <2>2, <2>5, CoveredInsert
  <2> QED BY <2>4, <2>5
<1> QED BY <1>1, <1>2

\* So are all the ranges of a page, which are apart from each other and from
\* the list.
LEMMA ReleaseAllKeeps ==
  ASSUME NEW list \in Seq(Pieces), Sorted(list), NEW xs \in Seq(Pieces), Sorted(xs),
         \A i \in 1 .. Len(xs) : OffList(xs[i], list)
  PROVE  /\ ReleaseAll(list, xs) \in Seq(Pieces) /\ Sorted(ReleaseAll(list, xs))
         /\ Covered(ReleaseAll(list, xs)) = Covered(list) \cup Covered(xs)
         /\ \A y \in Pieces :
              OffList(y, list) /\ OffList(y, xs) => OffList(y, ReleaseAll(list, xs))
<1> DEFINE n == Len(xs)
           u == [k \in 0 .. n |-> UNION {Units(xs[i]) : i \in 1 .. k}]
<1>1. PICK h : /\ h[0] = list
               /\ \A k \in 0 .. n : k < n => h[k + 1] = Release(h[k], xs[k + 1])
               /\ ReleaseAll(list, xs) = h[n]
  BY ReleaseSteps
<1>2. n \in Nat /\ \A i \in 1 .. n : xs[i] \in Pieces
  OBVIOUS
<1>3. u[0] = {} /\ u[n] = Covered(xs)
  BY <1>2 DEF Covered
<1>4. ASSUME NEW k \in 0 .. n, k < n PROVE u[k + 1] = u[k] \cup Units(xs[k + 1])
  <2>1. k + 1 \in 0 .. n
    BY <1>2, <1>4
  <2>2. \A i : i \in 1 .. k + 1 <=> i \in 1 .. k \/ i = k + 1
    BY <2>1
  <2>3. \A e : e \in u[k + 1] <=> \E i \in 1 .. k + 1 : e \in Units(xs[i])
    BY <2>1
  <2>4. \A e : e \in u[k] <=> \E i \in 1 .. k : e \in Units(xs[i])
    BY <2>1
  <2> HIDE DEF u, n
  <2> QED BY <2>2, <2>3, <2>4
<1> HIDE DEF u
<1> DEFINE Off(k) == \A y \in Pieces :
                       OffList(y, list) /\ (\A i \in 1 .. k : Apart(y, xs[i])) => OffList(y, h[k])
           Fits(k) == /\ h[k] \in Seq(Pieces) /\ Sorted(h[k])
                      /\ Covered(h[k]) = Covered(list) \cup u[k]
           G == {k \in 0 .. n : Fits(k) /\ Off(k)}
<1>5. 0 \in G
  <2>1. Fits(0) /\ Off(0)
    BY <1>1, <1>3
  <2> HIDE DEF Fits, Off
  <2> QED BY <1>2, <2>1
<1>6. ASSUME NEW k \in 0 .. n, k \in G, k < n PROVE k + 1 \in G
  <2> DEFINE x == xs[k + 1]
  <2>1. k + 1 \in 0 .. n /\ k + 1 \in 1 .. n /\ x \in Pieces
    BY <1>2, <1>6
  <2>2. /\ Fits(k) /\ Off(k)
    BY <1>6
  <2>3. \A i \in 1 .. k : Apart(x, xs[i])
    <3> TAKE i \in 1 .. k
    <3>1. i \in 1 .. n /\ i < k + 1
      BY <1>2, <2>1
    <3> QED BY <2>1, <3>1 DEF Sorted, Apart
  <2>4. OffList(x, h[k])
    <3>1. OffList(x, list)
      BY <2>1
    <3> QED BY <2>1, <2>2, <2>3, <3>1
  <2>5. h[k + 1] = Release(h[k], x)
    BY <1>1, <1>6
  <2> HIDE DEF x, G
  <2>6. /\ Release(h[k], x) \in Seq(Pieces) /\ Sorted(Release(h[k], x))
        /\ \A y \in Pieces : OffList(y, h[k]) /\ Apart(y, x) => OffList(y, Release(h[k], x))
    BY <2>1, <2>2, <2>4, ReleaseKeeps
  <2>7. Covered(Release(h[k], x)) = Covered(h[k]) \cup Units(x)
    BY <2>1, <2>2, ReleaseCovers
  <2>8. Fits(k + 1)
    <3>1. u[k + 1] = u[k] \cup Units(x)
      BY <1>4, <1>6 DEF x
    <3> QED BY <2>2, <2>5, <2>6, <2>7, <3>1
  <2>9. Off(k + 1)
    <3> SUFFICES ASSUME NEW y \in Pieces, OffList(y, list), \A i \in 1 .. k + 1 : Apart(y, xs[i])
                 PROVE  OffList(y, h[k + 1])
      OBVIOUS
    <3>1. (\A i \in 1 .. k : i \in 1 .. k + 1) /\ k + 1 \in 1 .. k + 1
      BY <2>1
    <3>2. OffList(y, h[k]) /\ Apart(y, x)
      BY <2>2, <3>1 DEF x
    <3> QED BY <2>5, <2>6, <3>2
  <2> HIDE DEF Fits, Off
  <2> QED BY <2>1, <2>8, <2>9 DEF G
<1>7. n \in G
  <2> HIDE DEF G, n
  <2>1. \A k \in 0 .. n : k \in G
    BY <1>2, <1>5, <1>6, Upwards
  <2> QED BY <1>2, <2>1
<1>8. Fits(n) /\ Off(n)
  BY <1>7
<1>9. \A y \in Pieces : OffList(y, list) /\ OffList(y, xs) => OffList(y, h[n])
  BY <1>8 DEF OffList
<1> QED BY <1>1, <1>3, <1>8, <1>9

\* The operators of PhysicalMemory are those of Segments.
LEMMA SameOperators ==
  /\ \A list : P!TotalSize(list) = TotalSize(list)
  /\ \A I : P!Min(I) = Min(I)
  /\ \A list, xs : P!FoldLeft(P!Release, list, xs) = ReleaseAll(list, xs)
<1>1. \A list : P!TotalSize(list) = TotalSize(list)
  BY Zenon DEF P!TotalSize, TotalSize, P!FoldLeft, FoldLeft, P!MapThenFoldSet, MapThenFoldSet,
     P!Max, Max
<1>2. \A I : P!Min(I) = Min(I)
  BY DEF P!Min, Min
<1>3. \A list, xs : P!FoldLeft(P!Release, list, xs) = ReleaseAll(list, xs)
  BY Zenon DEF P!FoldLeft, FoldLeft, P!MapThenFoldSet, MapThenFoldSet, P!Max, Max, ReleaseAll,
     P!Release, Release, P!SelectInSeq, SelectInSeq, P!Min, Min, P!End, End, P!Segment, Segment,
     P!ReplaceAt, ReplaceAt, P!InsertAt, InsertAt
<1> QED BY <1>1, <1>2, <1>3

-----------------------------------------------------------------------------
(* A list that is split: what is taken from its head and what is left.     *)

\* The ranges in front of one, and a range that begins where that one does.
LEMMA HeadKeeps ==
  ASSUME NEW list \in Seq(Pieces), Sorted(list), NEW i \in 1 .. Len(list),
         NEW x \in Pieces, x.addr = list[i].addr, End(x) <= End(list[i])
  PROVE  LET taken == Append(SubSeq(list, 1, i - 1), x) IN
         /\ taken \in Seq(Pieces) /\ Sorted(taken) /\ taken # <<>>
         /\ \A j \in 1 .. Len(taken) : End(taken[j]) <= End(x)
         /\ \A g : g \in Covered(taken) <=> g \in Units(x) \/ \E j \in 1 .. i - 1 : g \in Units(list[j])
         /\ \A y \in Pieces : OffList(y, list) => OffList(y, taken)
<1> DEFINE before == SubSeq(list, 1, i - 1)
           taken == Append(before, x)
           n == Len(list)
<1>1. n \in Nat /\ i \in 1 .. n /\ i - 1 \in Nat /\ \A j \in 1 .. n : list[j] \in Pieces
  OBVIOUS
<1>2. before \in Seq(Pieces) /\ Len(before) = i - 1 /\ \A j \in 1 .. i - 1 : before[j] = list[j]
  BY <1>1
<1> HIDE DEF before
<1>3. /\ taken \in Seq(Pieces) /\ Len(taken) = i /\ taken # <<>> /\ taken[i] = x
      /\ \A j \in 1 .. i - 1 : taken[j] = list[j]
  BY <1>1, <1>2
<1> HIDE DEF taken, n
<1>4. /\ x.addr \in Nat /\ End(x) \in Nat /\ x.addr < End(x)
      /\ \A j \in 1 .. n : list[j].addr \in Nat /\ End(list[j]) \in Nat /\ list[j].addr < End(list[j])
  <2>1. \A y \in Pieces : y.addr \in Nat /\ End(y) \in Nat /\ y.addr < End(y)
    <3> TAKE y \in Pieces
    <3>1. y.addr \in Nat /\ y.size \in Nat /\ y.size >= 1 /\ End(y) = y.addr + y.size
      BY PieceFields
    <3> QED BY <3>1
  <2> QED BY <1>1, <2>1
<1>5. \A j \in 1 .. i - 1 : j \in 1 .. n /\ End(list[j]) <= x.addr
  BY <1>1 DEF Sorted, n
<1>6. Sorted(taken)
  <2> SUFFICES ASSUME NEW j \in 1 .. i, NEW k \in 1 .. i, j < k
               PROVE  End(taken[j]) <= taken[k].addr
    BY <1>3 DEF Sorted
  <2>1. j \in 1 .. i - 1 /\ taken[j] = list[j]
    BY <1>1, <1>3
  <2>2. CASE k = i
    BY <1>3, <1>5, <2>1, <2>2
  <2>3. CASE k # i
    <3>1. k \in 1 .. i - 1 /\ taken[k] = list[k]
      BY <1>1, <1>3, <2>3
    <3> QED BY <1>5, <2>1, <3>1 DEF Sorted, n
  <2> QED BY <2>2, <2>3
<1>7. \A j \in 1 .. i : End(taken[j]) <= End(x)
  <2> TAKE j \in 1 .. i
  <2>1. CASE j = i
    BY <1>3, <1>4, <2>1
  <2>2. CASE j # i
    <3>1. j \in 1 .. i - 1 /\ taken[j] = list[j]
      BY <1>1, <1>3, <2>2
    <3> QED BY <1>4, <1>5, <3>1
  <2> QED BY <2>1, <2>2
<1>8. ASSUME NEW g
      PROVE  g \in Covered(taken) <=> g \in Units(x) \/ \E j \in 1 .. i - 1 : g \in Units(list[j])
  <2>1. g \in Covered(taken) <=> \E j \in 1 .. i : g \in Units(taken[j])
    BY <1>3, InCovered
  <2>2. \A j : j \in 1 .. i <=> j \in 1 .. i - 1 \/ j = i
    BY <1>1
  <2> QED BY <1>3, <2>1, <2>2
<1>9. ASSUME NEW y \in Pieces, OffList(y, list) PROVE OffList(y, taken)
  <2> SUFFICES ASSUME NEW j \in 1 .. i PROVE Apart(y, taken[j])
    BY <1>3 DEF OffList
  <2>1. CASE j = i
    <3>1. y.addr \in Nat /\ End(y) \in Nat /\ Apart(y, list[i])
      BY <1>1, <1>9, PieceFields DEF OffList, n
    <3>2. Apart(y, x)
      BY <1>1, <1>4, <3>1 DEF Apart
    <3> QED BY <1>3, <2>1, <3>2
  <2>2. CASE j # i
    <3>1. j \in 1 .. i - 1 /\ taken[j] = list[j]
      BY <1>1, <1>3, <2>2
    <3> QED BY <1>5, <1>9, <3>1 DEF OffList, n
  <2> QED BY <2>1, <2>2
<1> QED BY <1>3, <1>6, <1>7, <1>8, <1>9 DEF taken, before

\* The ranges behind one.
LEMMA RestKeeps ==
  ASSUME NEW list \in Seq(Pieces), Sorted(list), NEW i \in 1 .. Len(list)
  PROVE  LET rest == SubSeq(list, i + 1, Len(list)) IN
         /\ rest \in Seq(Pieces) /\ Sorted(rest)
         /\ \A j \in 1 .. Len(rest) : End(list[i]) <= rest[j].addr
         /\ \A g : g \in Covered(rest) <=> \E j \in i + 1 .. Len(list) : g \in Units(list[j])
         /\ \A y \in Pieces : OffList(y, list) => OffList(y, rest)
<1> DEFINE n == Len(list)
           rest == SubSeq(list, i + 1, n)
<1>1. n \in Nat /\ i \in 1 .. n /\ n - i \in Nat
  OBVIOUS
<1>2. rest \in Seq(Pieces) /\ Len(rest) = n - i /\ \A j \in 1 .. n - i : rest[j] = list[i + j]
  BY <1>1
<1> HIDE DEF rest, n
<1>3. \A j \in 1 .. n - i : i + j \in 1 .. n /\ i + j \in i + 1 .. n /\ i < i + j
  BY <1>1
<1>4. Sorted(rest)
  <2> SUFFICES ASSUME NEW j \in 1 .. n - i, NEW k \in 1 .. n - i, j < k
               PROVE  End(rest[j]) <= rest[k].addr
    BY <1>2 DEF Sorted
  <2>1. i + j < i + k
    BY <1>1
  <2> QED BY <1>2, <1>3, <2>1 DEF Sorted, n
<1>5. \A j \in 1 .. n - i : End(list[i]) <= rest[j].addr
  BY <1>1, <1>2, <1>3 DEF Sorted, n
<1>6. ASSUME NEW g
      PROVE  g \in Covered(rest) <=> \E j \in i + 1 .. n : g \in Units(list[j])
  <2>1. g \in Covered(rest) <=> \E j \in 1 .. n - i : g \in Units(rest[j])
    BY <1>2, InCovered
  <2>2. ASSUME NEW k \in i + 1 .. n PROVE k - i \in 1 .. n - i /\ i + (k - i) = k
    BY <1>1
  <2> QED BY <1>2, <1>3, <2>1, <2>2
<1>7. ASSUME NEW y \in Pieces, OffList(y, list) PROVE OffList(y, rest)
  BY <1>2, <1>3, <1>7 DEF OffList, n
<1> QED BY <1>2, <1>4, <1>5, <1>6, <1>7 DEF rest, n

\* The ranges behind one, and a range that ends where that one does.
LEMMA TailKeeps ==
  ASSUME NEW list \in Seq(Pieces), Sorted(list), NEW i \in 1 .. Len(list),
         NEW x \in Pieces, End(x) = End(list[i]), list[i].addr <= x.addr
  PROVE  LET left == <<x>> \o SubSeq(list, i + 1, Len(list)) IN
         /\ left \in Seq(Pieces) /\ Sorted(left)
         /\ \A j \in 1 .. Len(left) : x.addr <= left[j].addr
         /\ \A g : g \in Covered(left) <=>
                     g \in Units(x) \/ \E j \in i + 1 .. Len(list) : g \in Units(list[j])
         /\ \A y \in Pieces : OffList(y, list) => OffList(y, left)
<1> DEFINE rest == SubSeq(list, i + 1, Len(list))
           left == <<x>> \o rest
           m == Len(rest)
<1>1. /\ rest \in Seq(Pieces) /\ Sorted(rest)
      /\ \A j \in 1 .. m : End(list[i]) <= rest[j].addr
      /\ \A g : g \in Covered(rest) <=> \E j \in i + 1 .. Len(list) : g \in Units(list[j])
      /\ \A y \in Pieces : OffList(y, list) => OffList(y, rest)
  BY RestKeeps
<1> HIDE DEF rest
<1>2. /\ left \in Seq(Pieces) /\ Len(left) = m + 1 /\ left[1] = x
      /\ \A j \in 1 .. m : left[j + 1] = rest[j]
  <2>1. <<x>> \in Seq(Pieces) /\ Len(<<x>>) = 1 /\ <<x>>[1] = x
    OBVIOUS
  <2>2. /\ left \in Seq(Pieces) /\ Len(left) = 1 + m
        /\ \A j \in 1 .. 1 : left[j] = <<x>>[j]
        /\ \A j \in 1 .. m : left[1 + j] = rest[j]
    BY <1>1, <2>1
  <2> HIDE DEF left
  <2>3. m \in Nat
    BY <1>1
  <2> QED BY <2>1, <2>2, <2>3
<1>3. m \in Nat /\ \A j \in 1 .. m : rest[j] \in Pieces
  BY <1>1
<1> HIDE DEF left, m
<1>4. \A j \in 1 .. m + 1 : j = 1 \/ (j - 1 \in 1 .. m /\ left[j] = rest[j - 1])
  <2> TAKE j \in 1 .. m + 1
  <2>1. j = 1 \/ (j - 1 \in 1 .. m /\ (j - 1) + 1 = j)
    BY <1>3
  <2> QED BY <1>2, <2>1
<1>5. /\ x.addr \in Nat /\ End(x) \in Nat /\ x.addr < End(x)
      /\ list[i].addr \in Nat /\ list[i].addr < End(list[i])
      /\ \A j \in 1 .. m : rest[j].addr \in Nat /\ End(rest[j]) \in Nat
  <2>1. \A y \in Pieces : y.addr \in Nat /\ End(y) \in Nat /\ y.addr < End(y)
    <3> TAKE y \in Pieces
    <3>1. y.addr \in Nat /\ y.size \in Nat /\ y.size >= 1 /\ End(y) = y.addr + y.size
      BY PieceFields
    <3> QED BY <3>1
  <2>2. list[i] \in Pieces
    OBVIOUS
  <2> QED BY <1>3, <2>1, <2>2
<1>6. Sorted(left)
  <2> SUFFICES ASSUME NEW j \in 1 .. m + 1, NEW k \in 1 .. m + 1, j < k
               PROVE  End(left[j]) <= left[k].addr
    BY <1>2 DEF Sorted
  <2>1. k - 1 \in 1 .. m /\ left[k] = rest[k - 1]
    BY <1>3, <1>4
  <2>2. CASE j = 1
    BY <1>1, <1>2, <2>1, <2>2 DEF m
  <2>3. CASE j # 1
    <3>1. j - 1 \in 1 .. m /\ left[j] = rest[j - 1] /\ j - 1 < k - 1
      BY <1>3, <1>4, <2>3
    <3> QED BY <1>1, <2>1, <3>1 DEF Sorted, m
  <2> QED BY <2>2, <2>3
<1>7. \A j \in 1 .. m + 1 : x.addr <= left[j].addr
  <2> TAKE j \in 1 .. m + 1
  <2>1. CASE j = 1
    BY <1>2, <1>5, <2>1
  <2>2. CASE j # 1
    <3>1. j - 1 \in 1 .. m /\ left[j] = rest[j - 1]
      BY <1>4, <2>2
    <3> QED BY <1>1, <1>5, <3>1 DEF m
  <2> QED BY <2>1, <2>2
<1>8. ASSUME NEW g PROVE g \in Covered(left) <=> g \in Units(x) \/ g \in Covered(rest)
  <2>1. g \in Covered(left) <=> \E j \in 1 .. m + 1 : g \in Units(left[j])
    BY <1>2, InCovered
  <2>2. g \in Covered(rest) <=> \E j \in 1 .. m : g \in Units(rest[j])
    BY InCovered DEF m
  <2>3. 1 \in 1 .. m + 1 /\ \A j \in 1 .. m : j + 1 \in 1 .. m + 1
    BY <1>3
  <2>4. ASSUME NEW j \in 1 .. m + 1, g \in Units(left[j])
        PROVE  g \in Units(x) \/ \E k \in 1 .. m : g \in Units(rest[k])
    BY <1>2, <1>4, <2>4
  <2> QED BY <1>2, <2>1, <2>2, <2>3, <2>4
<1>9. ASSUME NEW y \in Pieces, OffList(y, list) PROVE OffList(y, left)
  <2> SUFFICES ASSUME NEW j \in 1 .. m + 1 PROVE Apart(y, left[j])
    BY <1>2 DEF OffList
  <2>1. CASE j = 1
    <3>1. y.addr \in Nat /\ End(y) \in Nat /\ Apart(y, list[i])
      BY <1>9, PieceFields DEF OffList
    <3>2. Apart(y, x)
      BY <1>5, <3>1 DEF Apart
    <3> QED BY <1>2, <2>1, <3>2
  <2>2. CASE j # 1
    <3>1. j - 1 \in 1 .. m /\ left[j] = rest[j - 1]
      BY <1>4, <2>2
    <3> QED BY <1>1, <1>9, <3>1 DEF OffList, m
  <2> QED BY <2>1, <2>2
<1> QED BY <1>1, <1>2, <1>6, <1>7, <1>8, <1>9 DEF left, rest

\* Lists that are apart cover different granules.
LEMMA CoversApart ==
  ASSUME NEW xs \in Seq(Pieces), NEW ys \in Seq(Pieces),
         \A i \in 1 .. Len(xs) : OffList(xs[i], ys)
  PROVE  Covered(xs) \cap Covered(ys) = {}
<1> SUFFICES ASSUME NEW g, g \in Covered(xs), g \in Covered(ys) PROVE FALSE
  OBVIOUS
<1>1. PICK i \in 1 .. Len(xs) : g \in Units(xs[i])
  BY InCovered
<1>2. PICK j \in 1 .. Len(ys) : g \in Units(ys[j])
  BY InCovered
<1>3. Apart(xs[i], ys[j]) /\ xs[i] \in Pieces /\ ys[j] \in Pieces
  BY DEF OffList
<1> QED BY <1>1, <1>2, <1>3, ApartMeansDisjoint

LEMMA TotalAppend ==
  ASSUME NEW list \in Seq(Pieces), NEW x \in Pieces, Sorted(Append(list, x))
  PROVE  /\ TotalSize(list) \in Nat
         /\ TotalSize(Append(list, x)) = TotalSize(list) + x.size
<1> DEFINE n == Len(list)
           longer == Append(list, x)
<1>1. /\ n \in Nat /\ longer \in Seq(Pieces) /\ Len(longer) = n + 1 /\ longer[n + 1] = x
      /\ \A j \in 1 .. n : longer[j] = list[j] /\ list[j] \in Pieces
  OBVIOUS
<1>2. Covered(longer) = Covered(list) \cup Units(x)
  BY CoveredAppend
<1>3. Sorted(longer)
  OBVIOUS
<1> HIDE DEF longer
<1>4. Sorted(list)
  <2> SUFFICES ASSUME NEW j \in 1 .. n, NEW k \in 1 .. n, j < k
               PROVE  End(list[j]) <= list[k].addr
    BY DEF Sorted
  <2>1. j \in 1 .. n + 1 /\ k \in 1 .. n + 1
    BY <1>1
  <2> QED BY <1>1, <1>3, <2>1 DEF Sorted
<1>5. Covered(list) \cap Units(x) = {}
  <2> SUFFICES ASSUME NEW g, g \in Covered(list), g \in Units(x) PROVE FALSE
    OBVIOUS
  <2>1. PICK j \in 1 .. n : g \in Units(list[j])
    BY InCovered
  <2>2. j \in 1 .. n + 1 /\ n + 1 \in 1 .. n + 1 /\ j < n + 1
    BY <1>1
  <2>3. Apart(list[j], x)
    BY <1>1, <1>3, <2>2 DEF Sorted, Apart
  <2> QED BY <1>1, <2>1, <2>3, ApartMeansDisjoint
<1>6. IsFiniteSet(Covered(list)) /\ TotalSize(list) = Cardinality(Covered(list))
  BY <1>4, TotalIsCovered
<1>7. TotalSize(longer) = Cardinality(Covered(longer))
  BY <1>1, <1>3, TotalIsCovered
<1>8. IsFiniteSet(Units(x)) /\ Cardinality(Units(x)) = x.size
  BY UnitsCount
<1>9. Cardinality(Covered(list) \cup Units(x)) = Cardinality(Covered(list)) + Cardinality(Units(x))
  BY <1>5, <1>6, <1>8, CountBoth
<1>10. TotalSize(list) \in Nat
  BY <1>6, FS_CardinalityType
<1> QED BY <1>2, <1>6, <1>7, <1>8, <1>9, <1>10 DEF longer

LEMMA CutUp ==
  ASSUME NEW list \in Seq(Pieces), Sorted(list), NEW i \in 1 .. Len(list),
         NEW m \in Nat, 1 <= m, m <= list[i].size
  PROVE  LET taken == Append(SubSeq(list, 1, i - 1), Segment(list[i].addr, m))
             left  == (IF list[i].size = m THEN <<>>
                       ELSE <<Segment(list[i].addr + m, list[i].size - m)>>)
                        \o SubSeq(list, i + 1, Len(list))
         IN /\ taken \in Seq(Pieces) /\ Sorted(taken) /\ taken # <<>>
            /\ left \in Seq(Pieces) /\ Sorted(left)
            /\ \A j \in 1 .. Len(taken) : OffList(taken[j], left)
            /\ Covered(list) = Covered(taken) \cup Covered(left)
            /\ \A y \in Pieces : OffList(y, list) => OffList(y, taken) /\ OffList(y, left)
<1> DEFINE a == list[i].addr
           s == list[i].size
           x == Segment(a, m)
           rest == SubSeq(list, i + 1, Len(list))
           taken == Append(SubSeq(list, 1, i - 1), x)
           left == (IF s = m THEN <<>> ELSE <<Segment(a + m, s - m)>>) \o rest
<1>1. list[i] \in Pieces /\ a \in Nat /\ s \in Nat /\ s >= 1 /\ End(list[i]) = a + s
  <2>1. list[i] \in Pieces
    OBVIOUS
  <2> QED BY <2>1, PieceFields
<1>2. x \in Pieces /\ x.addr = a /\ End(x) = a + m
  BY <1>1, SegmentIsPiece
<1>3. /\ taken \in Seq(Pieces) /\ Sorted(taken) /\ taken # <<>>
      /\ \A j \in 1 .. Len(taken) : End(taken[j]) <= End(x)
      /\ \A g : g \in Covered(taken) <=> g \in Units(x) \/ \E j \in 1 .. i - 1 : g \in Units(list[j])
      /\ \A y \in Pieces : OffList(y, list) => OffList(y, taken)
  <2> HIDE DEF x
  <2>1. x.addr = list[i].addr /\ End(x) <= End(list[i])
    <3> HIDE DEF s
    <3>1. a = list[i].addr
      OBVIOUS
    <3> HIDE DEF a
    <3>2. a + m <= a + s
      BY <1>1 DEF s
    <3> QED BY <1>1, <1>2, <3>1, <3>2
  <2> QED BY <1>2, <2>1, HeadKeeps
<1> HIDE DEF taken
<1>4. /\ left \in Seq(Pieces) /\ Sorted(left)
      /\ \A j \in 1 .. Len(left) : End(x) <= left[j].addr
      /\ \A g : g \in Units(x) \/ g \in Covered(left) <=>
                  g \in Units(list[i]) \/ \E j \in i + 1 .. Len(list) : g \in Units(list[j])
      /\ \A y \in Pieces : OffList(y, list) => OffList(y, left)
  <2>1. CASE s = m
    <3>1. /\ rest \in Seq(Pieces) /\ Sorted(rest)
          /\ \A j \in 1 .. Len(rest) : End(list[i]) <= rest[j].addr
          /\ \A g : g \in Covered(rest) <=> \E j \in i + 1 .. Len(list) : g \in Units(list[j])
          /\ \A y \in Pieces : OffList(y, list) => OffList(y, rest)
      BY RestKeeps
    <3>2. left = rest
      <4>1. left = <<>> \o rest
        BY <2>1
      <4> HIDE DEF rest, left
      <4> QED BY <3>1, <4>1
    <3>3. Units(x) = Units(list[i])
      <4> HIDE DEF x, a, s
      <4>1. End(x) = End(list[i]) /\ x.addr = list[i].addr
        BY <1>1, <1>2, <2>1 DEF a
      <4> QED BY <4>1 DEF Units
    <3> HIDE DEF left, rest, x, a, s
    <3> QED BY <1>1, <1>2, <2>1, <3>1, <3>2, <3>3
  <2>2. CASE s # m
    <3> DEFINE r == Segment(a + m, s - m)
    <3>1. s - m \in Nat /\ s - m >= 1 /\ a + m \in Nat /\ (a + m) + (s - m) = a + s /\ a <= a + m
      <4> HIDE DEF a
      <4> m <= s
        OBVIOUS
      <4> HIDE DEF s
      <4> QED BY <1>1, <2>2
    <3>2. r \in Pieces /\ r.addr = a + m /\ End(r) = a + s
      BY <3>1, SegmentIsPiece
    <3>3. left = <<r>> \o rest
      BY <2>2
    <3>4. a <= r.addr /\ End(r) = End(list[i]) /\ r.addr = End(x)
      <4> HIDE DEF r, a, s, x
      <4> QED BY <1>1, <1>2, <3>1, <3>2
    <3> HIDE DEF r, left, x
    <3>5. /\ <<r>> \o rest \in Seq(Pieces) /\ Sorted(<<r>> \o rest)
          /\ \A j \in 1 .. Len(<<r>> \o rest) : r.addr <= (<<r>> \o rest)[j].addr
          /\ \A g : g \in Covered(<<r>> \o rest) <=>
                      g \in Units(r) \/ \E j \in i + 1 .. Len(list) : g \in Units(list[j])
          /\ \A y \in Pieces : OffList(y, list) => OffList(y, <<r>> \o rest)
      BY <3>2, <3>4, TailKeeps
    <3> HIDE DEF rest, a, s
    <3>6. \A g : g \in Units(list[i]) <=> g \in Units(x) \/ g \in Units(r)
      <4>1. End(x) = a + m /\ x.addr = a /\ r.addr = a + m /\ End(r) = a + s /\ list[i].addr = a
        BY <1>2, <3>2 DEF a
      <4>2. a .. (a + s) - 1 = (a .. (a + m) - 1) \cup (a + m .. (a + s) - 1)
        BY <1>1, <3>1
      <4> QED BY <1>1, <4>1, <4>2 DEF Units
    <3> QED BY <3>3, <3>4, <3>5, <3>6
  <2> QED BY <2>1, <2>2
<1> HIDE DEF left, x
<1>5. ASSUME NEW j \in 1 .. Len(taken) PROVE OffList(taken[j], left)
  <2> SUFFICES ASSUME NEW k \in 1 .. Len(left) PROVE Apart(taken[j], left[k])
    BY DEF OffList
  <2>1. taken[j] \in Pieces /\ left[k] \in Pieces
    BY <1>3, <1>4
  <2>2. End(taken[j]) \in Nat /\ End(x) \in Nat /\ left[k].addr \in Nat
    BY <1>2, <2>1, PieceFields
  <2>3. End(taken[j]) <= End(x) /\ End(x) <= left[k].addr
    BY <1>3, <1>4
  <2> QED BY <2>2, <2>3 DEF Apart
<1>6. ASSUME NEW g PROVE g \in Covered(list) <=> g \in Covered(taken) \/ g \in Covered(left)
  <2>1. \A j : j \in 1 .. Len(list) <=> j \in 1 .. i - 1 \/ j = i \/ j \in i + 1 .. Len(list)
    <3>1. Len(list) \in Nat /\ i \in 1 .. Len(list)
      OBVIOUS
    <3> QED BY <3>1
  <2>2. g \in Covered(list) <=> \E j \in 1 .. Len(list) : g \in Units(list[j])
    BY InCovered
  <2> QED BY <1>3, <1>4, <2>1, <2>2
<1> QED BY <1>3, <1>4, <1>5, <1>6 DEF taken, left, x

LEMMA TotalOfNothing == TotalSize(<<>>) = 0
<1> DEFINE list == <<>>
<1>1. list \in Seq(Pieces) /\ Sorted(list)
  BY DEF Sorted
<1>2. Covered(list) = {}
  BY DEF Covered
<1> HIDE DEF list
<1>3. TotalSize(list) = 0
  BY <1>1, <1>2, TotalIsCovered, FS_EmptySet
<1> QED BY <1>3 DEF list

\* The loop of allocate_physical_memory finds the segment with which the
\* memory is complete, and some of it is taken.
LEMMA FindsLast ==
  ASSUME NEW list \in Seq(Pieces), Sorted(list), NEW n \in Nat, n >= 1, n <= TotalSize(list)
  PROVE  LET i == P!LastSegment(list, n)
             missing == n - TotalSize(SubSeq(list, 1, i - 1))
         IN  i \in 1 .. Len(list) /\ missing \in Nat /\ 1 <= missing /\ missing <= list[i].size
<1> DEFINE I == {k \in DOMAIN list : TotalSize(SubSeq(list, 1, k)) >= n}
           i == Min(I)
           before == SubSeq(list, 1, i - 1)
<1>1. P!LastSegment(list, n) = i
  BY SameOperators DEF P!LastSegment
<1>2. /\ DOMAIN list = 1 .. Len(list) /\ Len(list) \in Nat
      /\ \A k \in 1 .. Len(list) : list[k] \in Pieces
  OBVIOUS
<1>3. I # {}
  <2>1. list # <<>>
    BY TotalOfNothing
  <2>2. Len(list) \in 1 .. Len(list) /\ SubSeq(list, 1, Len(list)) = list
    BY <2>1
  <2> QED BY <1>2, <2>2
<1>4. i \in 1 .. Len(list) /\ TotalSize(SubSeq(list, 1, i)) >= n /\ \A k \in I : i <= k
  <2>1. I \subseteq Nat
    BY <1>2
  <2>2. i \in I /\ \A k \in I : i <= k
    <3> HIDE DEF I
    <3> QED BY <1>3, <2>1, MinIsLeast
  <2> HIDE DEF i
  <2> QED BY <1>2, <2>2
<1>5. \A k \in 1 .. Len(list) : k < i => ~(TotalSize(SubSeq(list, 1, k)) >= n)
  <2> HIDE DEF i
  <2> TAKE k \in 1 .. Len(list)
  <2> HAVE k < i
  <2>1. k \in I => i <= k
    BY <1>4
  <2> QED BY <1>2, <1>4, <2>1
<1> HIDE DEF I, i
<1>6. before \in Seq(Pieces) /\ SubSeq(list, 1, i) = Append(before, list[i]) /\ list[i] \in Pieces
  <2>1. i - 1 \in 0 .. Len(list) /\ list[i] \in Pieces
    BY <1>2, <1>4
  <2>2. before \in Seq(Pieces) /\ Len(before) = i - 1 /\ \A j \in 1 .. i - 1 : before[j] = list[j]
    BY <2>1
  <2>3. /\ SubSeq(list, 1, i) \in Seq(Pieces) /\ Len(SubSeq(list, 1, i)) = i
        /\ \A j \in 1 .. i : SubSeq(list, 1, i)[j] = list[j]
    BY <1>2, <1>4
  <2> HIDE DEF before
  <2>4. /\ Append(before, list[i]) \in Seq(Pieces) /\ Len(Append(before, list[i])) = i
        /\ Append(before, list[i])[i] = list[i]
        /\ \A j \in 1 .. i - 1 : Append(before, list[i])[j] = before[j]
    BY <1>4, <2>1, <2>2
  <2>5. \A j \in 1 .. i : j = i \/ j \in 1 .. i - 1
    BY <1>2, <1>4
  <2>6. \A j \in 1 .. i : SubSeq(list, 1, i)[j] = Append(before, list[i])[j]
    BY <2>2, <2>3, <2>4, <2>5
  <2> DEFINE u == SubSeq(list, 1, i)
             v == Append(before, list[i])
  <2>7. u \in Seq(Pieces) /\ v \in Seq(Pieces) /\ Len(u) = i /\ Len(v) = i
        /\ \A j \in 1 .. i : u[j] = v[j]
    BY <2>3, <2>4, <2>6
  <2> HIDE DEF u, v
  <2>8. u = v
    BY <2>7
  <2> QED BY <2>1, <2>2, <2>8 DEF u, v
<1>7. Sorted(Append(before, list[i]))
  <2>1. End(list[i]) <= End(list[i])
    BY <1>6, PieceFields
  <2>2. list[i].addr = list[i].addr
    OBVIOUS
  <2> QED BY <1>4, <1>6, <2>1, <2>2, HeadKeeps
<1> HIDE DEF before
<1>8. /\ TotalSize(before) \in Nat
      /\ TotalSize(SubSeq(list, 1, i)) = TotalSize(before) + list[i].size
  BY <1>6, <1>7, TotalAppend
<1>9. TotalSize(before) < n
  <2>1. CASE i = 1
    <3>1. before = <<>>
      BY <1>2, <2>1 DEF before
    <3> QED BY <3>1, TotalOfNothing
  <2>2. CASE i # 1
    <3>1. i - 1 \in 1 .. Len(list) /\ i - 1 < i
      BY <1>2, <1>4, <2>2
    <3>2. ~(TotalSize(before) >= n)
      BY <1>5, <3>1 DEF before
    <3> QED BY <1>8, <3>2
  <2> QED BY <2>1, <2>2
<1>10. list[i].size \in Nat
  BY <1>6, PieceFields
<1>11. /\ n - TotalSize(before) \in Nat /\ 1 <= n - TotalSize(before)
       /\ n - TotalSize(before) <= list[i].size
  BY <1>4, <1>8, <1>9, <1>10
<1> QED BY <1>1, <1>4, <1>11 DEF before

\* allocate_physical_memory takes exactly what is asked for and loses nothing.
LEMMA SplitKeeps ==
  ASSUME NEW list \in Seq(Pieces), Sorted(list), NEW n \in Nat, n >= 1, n <= TotalSize(list)
  PROVE  LET s == P!Split(list, P!LastSegment(list, n), n) IN
         /\ s.taken \in Seq(Pieces) /\ Sorted(s.taken) /\ s.taken # <<>>
         /\ s.left \in Seq(Pieces) /\ Sorted(s.left)
         /\ \A j \in 1 .. Len(s.taken) : OffList(s.taken[j], s.left)
         /\ Covered(list) = Covered(s.taken) \cup Covered(s.left)
         /\ \A y \in Pieces : OffList(y, list) => OffList(y, s.taken) /\ OffList(y, s.left)
         /\ TotalSize(s.taken) = n /\ TotalSize(s.left) = TotalSize(list) - n
<1> DEFINE i == P!LastSegment(list, n)
           before == SubSeq(list, 1, i - 1)
           m == n - TotalSize(before)
           x == Segment(list[i].addr, m)
           taken == Append(before, x)
           left == (IF list[i].size = m THEN <<>>
                    ELSE <<Segment(list[i].addr + m, list[i].size - m)>>)
                     \o SubSeq(list, i + 1, Len(list))
           s == P!Split(list, i, n)
<1>1. i \in 1 .. Len(list) /\ m \in Nat /\ 1 <= m /\ m <= list[i].size
  BY FindsLast
<1>2. s = [taken |-> taken, left |-> left]
  BY SameOperators DEF P!Split, P!Segment, Segment
<1> HIDE DEF i, m
<1>3. /\ taken \in Seq(Pieces) /\ Sorted(taken) /\ taken # <<>>
      /\ left \in Seq(Pieces) /\ Sorted(left)
      /\ \A j \in 1 .. Len(taken) : OffList(taken[j], left)
      /\ Covered(list) = Covered(taken) \cup Covered(left)
      /\ \A y \in Pieces : OffList(y, list) => OffList(y, taken) /\ OffList(y, left)
  BY <1>1, CutUp
<1>4. x \in Pieces /\ x.size = m
  <2>1. list[i] \in Pieces
    BY <1>1
  <2>2. list[i].addr \in Nat
    BY <2>1, PieceFields
  <2> QED BY <1>1, <2>2, SegmentIsPiece
<1>5. before \in Seq(Pieces)
  <2>1. i - 1 \in 0 .. Len(list)
    BY <1>1
  <2> QED BY <2>1
<1> HIDE DEF before, x, left, s
<1>6. TotalSize(taken) = n
  <2>1. TotalSize(before) \in Nat /\ TotalSize(taken) = TotalSize(before) + m
    BY <1>3, <1>4, <1>5, TotalAppend
  <2> HIDE DEF taken
  <2> QED BY <2>1 DEF m
<1> HIDE DEF taken
<1>7. TotalSize(left) = TotalSize(list) - n
  <2>1. Covered(taken) \cap Covered(left) = {}
    BY <1>3, CoversApart
  <2>2. /\ IsFiniteSet(Covered(taken)) /\ TotalSize(taken) = Cardinality(Covered(taken))
        /\ IsFiniteSet(Covered(left)) /\ TotalSize(left) = Cardinality(Covered(left))
        /\ TotalSize(list) = Cardinality(Covered(list))
    BY <1>3, TotalIsCovered
  <2>3. Cardinality(Covered(taken) \cup Covered(left))
          = Cardinality(Covered(taken)) + Cardinality(Covered(left))
    BY <2>1, <2>2, CountBoth
  <2>4. Cardinality(Covered(left)) \in Nat
    BY <2>2, FS_CardinalityType
  <2> QED BY <1>3, <1>6, <2>2, <2>3, <2>4
<1>8. s.taken = taken /\ s.left = left
  BY <1>2
<1> QED BY <1>3, <1>6, <1>7, <1>8 DEF s, i

-----------------------------------------------------------------------------
(* The physical memory manager.  Its mutex is held from end to end, so its *)
(* invariant needs no condition on how many threads allocate at once.      *)

OffAll(xs, list) == \A i \in 1 .. Len(xs) : OffList(xs[i], list)

LEMMA OffAllBothWays ==
  ASSUME NEW xs, NEW ys, OffAll(xs, ys)
  PROVE  OffAll(ys, xs)
BY DEF OffAll, OffList, Apart

MemoryFits ==
  /\ memory \in Seq(Pieces) /\ Sorted(memory)
  /\ unused = TotalSize(memory)

SegmentsFit ==
  /\ segments \in [Pages -> Seq(Pieces)] /\ DOMAIN size = Pages
  /\ \A p \in Pages : /\ Sorted(segments[p]) /\ size[p] = TotalSize(segments[p])
                      /\ OffAll(segments[p], memory)
  /\ \A p, q \in Pages : p # q => OffAll(segments[p], segments[q])

\* All of the memory is in the list or behind a page.
MemoryCovered ==
  \A g : g \in 0 .. Memory - 1 <=>
           g \in Covered(memory) \/ \E p \in Pages : g \in Covered(segments[p])

PInv == MemoryFits /\ SegmentsFit /\ MemoryCovered

LEMMA InitPInv == Init => PInv
<1> SUFFICES ASSUME Init PROVE PInv
  OBVIOUS
<1> DEFINE x == Segment(0, Memory)
<1>1. /\ memory = <<x>> /\ unused = Memory
      /\ segments = [p \in Pages |-> <<>>] /\ size = [p \in Pages |-> 0]
  BY DEF Init, P!Init, P!Segment, Segment
<1>2. Memory \in Nat /\ Memory >= 1 /\ 0 \in Nat
  BY PageMemoryAssumption
<1>3. x \in Pieces /\ x.addr = 0 /\ x.size = Memory /\ End(x) = 0 + Memory
  BY <1>2, SegmentIsPiece
<1> HIDE DEF x
<1>4. memory \in Seq(Pieces) /\ Sorted(memory) /\ Len(memory) = 1 /\ memory[1] = x
  BY <1>1, <1>3 DEF Sorted
<1>5. Covered(memory) = Units(x)
  BY <1>4 DEF Covered
<1>6. unused = TotalSize(memory)
  BY <1>1, <1>3, <1>4, <1>5, TotalIsCovered, UnitsCount
<1>7. <<>> \in Seq(Pieces) /\ Sorted(<<>>) /\ TotalSize(<<>>) = 0
  BY TotalOfNothing DEF Sorted
<1>8. SegmentsFit
  BY <1>1, <1>7 DEF SegmentsFit, OffAll
<1>9. MemoryCovered
  <2>1. Covered(<<>>) = {}
    BY DEF Covered
  <2>2. Units(x) = 0 .. Memory - 1
    BY <1>2, <1>3 DEF Units
  <2> QED BY <1>1, <1>5, <2>1, <2>2 DEF MemoryCovered
<1> QED BY <1>4, <1>6, <1>8, <1>9 DEF PInv, MemoryFits

\* What the two calls of the manager do to its invariant and to other pages.
LEMMA Allocates ==
  ASSUME PInv, NEW p \in Pages, NEW n \in Nat, n >= 1, P!Allocate(p, n)
  PROVE  /\ PInv' /\ segments'[p] # <<>> /\ size'[p] = n
         /\ segments[p] = <<>> /\ DOMAIN size' = Pages
         /\ \A q \in Pages \ {p} : segments'[q] = segments[q] /\ size'[q] = size[q]
<1> DEFINE s == P!Split(memory, P!LastSegment(memory, n), n)
           taken == s.taken
           left == s.left
<1>1. memory \in Seq(Pieces) /\ Sorted(memory) /\ unused = TotalSize(memory)
  BY DEF PInv, MemoryFits
<1>2. /\ segments \in [Pages -> Seq(Pieces)] /\ DOMAIN size = Pages
      /\ \A q \in Pages : /\ Sorted(segments[q]) /\ size[q] = TotalSize(segments[q])
                          /\ OffAll(segments[q], memory)
      /\ \A q, r \in Pages : q # r => OffAll(segments[q], segments[r])
  BY DEF PInv, SegmentsFit
<1>3. /\ segments[p] = <<>> /\ n < unused
      /\ memory' = left /\ segments' = [segments EXCEPT ![p] = taken]
      /\ unused' = unused - n /\ size' = [size EXCEPT ![p] = n]
  BY DEF P!Allocate
<1>4. TotalSize(memory) \in Nat
  BY <1>1, TotalIsCovered, FS_CardinalityType
<1>5. n <= TotalSize(memory)
  BY <1>1, <1>3, <1>4
<1>6. /\ taken \in Seq(Pieces) /\ Sorted(taken) /\ taken # <<>>
      /\ left \in Seq(Pieces) /\ Sorted(left)
      /\ \A j \in 1 .. Len(taken) : OffList(taken[j], left)
      /\ Covered(memory) = Covered(taken) \cup Covered(left)
      /\ \A y \in Pieces : OffList(y, memory) => OffList(y, taken) /\ OffList(y, left)
      /\ TotalSize(taken) = n /\ TotalSize(left) = TotalSize(memory) - n
  BY <1>1, <1>5, SplitKeeps
<1> HIDE DEF taken, left
<1>7. /\ segments' \in [Pages -> Seq(Pieces)] /\ DOMAIN size' = Pages
      /\ segments'[p] = taken /\ size'[p] = n
      /\ \A q \in Pages \ {p} : segments'[q] = segments[q] /\ size'[q] = size[q]
  BY <1>2, <1>3, <1>6
<1>8. MemoryFits'
  BY <1>1, <1>3, <1>6 DEF MemoryFits
<1>9. ASSUME NEW q \in Pages \ {p}
      PROVE  OffAll(segments[q], taken) /\ OffAll(segments[q], left)
  <2>1. \A i \in 1 .. Len(segments[q]) :
          segments[q][i] \in Pieces /\ OffList(segments[q][i], memory)
    BY <1>2 DEF OffAll
  <2> QED BY <1>6, <2>1 DEF OffAll
<1>10. SegmentsFit'
  <2>1. ASSUME NEW q \in Pages
        PROVE  /\ Sorted(segments'[q]) /\ size'[q] = TotalSize(segments'[q])
               /\ OffAll(segments'[q], left)
    BY <1>2, <1>6, <1>7, <1>9 DEF OffAll
  <2>2. ASSUME NEW q \in Pages, NEW r \in Pages, q # r
        PROVE  OffAll(segments'[q], segments'[r])
    BY <1>2, <1>7, <1>9, <2>2, OffAllBothWays
  <2> QED BY <1>3, <1>7, <2>1, <2>2 DEF SegmentsFit
<1>11. MemoryCovered'
  <2> SUFFICES ASSUME NEW g
               PROVE  g \in 0 .. Memory - 1 <=>
                        g \in Covered(memory') \/ \E q \in Pages : g \in Covered(segments'[q])
    BY DEF MemoryCovered
  <2>1. g \in 0 .. Memory - 1 <=>
          g \in Covered(memory) \/ \E q \in Pages : g \in Covered(segments[q])
    BY DEF PInv, MemoryCovered
  <2>2. Covered(segments[p]) = {}
    BY <1>3 DEF Covered
  <2> QED BY <1>3, <1>6, <1>7, <2>1, <2>2
<1> QED BY <1>3, <1>6, <1>7, <1>8, <1>10, <1>11 DEF PInv

LEMMA FreesMemory ==
  ASSUME PInv, NEW p \in Pages, P!Free(p)
  PROVE  /\ PInv' /\ segments'[p] = <<>>
         /\ \A q \in Pages \ {p} : segments'[q] = segments[q] /\ size'[q] = size[q]
<1> DEFINE xs == segments[p]
           left == ReleaseAll(memory, xs)
<1>1. memory \in Seq(Pieces) /\ Sorted(memory) /\ unused = TotalSize(memory)
  BY DEF PInv, MemoryFits
<1>2. /\ segments \in [Pages -> Seq(Pieces)] /\ DOMAIN size = Pages
      /\ \A q \in Pages : /\ Sorted(segments[q]) /\ size[q] = TotalSize(segments[q])
                          /\ OffAll(segments[q], memory)
      /\ \A q, r \in Pages : q # r => OffAll(segments[q], segments[r])
  BY DEF PInv, SegmentsFit
<1>3. /\ memory' = left /\ segments' = [segments EXCEPT ![p] = <<>>]
      /\ unused' = unused + size[p] /\ size' = [size EXCEPT ![p] = 0]
  BY SameOperators DEF P!Free
<1>4. xs \in Seq(Pieces) /\ Sorted(xs) /\ OffAll(xs, memory) /\ size[p] = TotalSize(xs)
  BY <1>2
<1> HIDE DEF xs
<1>5. /\ left \in Seq(Pieces) /\ Sorted(left) /\ Covered(left) = Covered(memory) \cup Covered(xs)
      /\ \A y \in Pieces : OffList(y, memory) /\ OffList(y, xs) => OffList(y, left)
  BY <1>1, <1>4, ReleaseAllKeeps DEF OffAll
<1> HIDE DEF left
<1>6. TotalSize(left) = TotalSize(memory) + TotalSize(xs)
  <2>1. Covered(memory) \cap Covered(xs) = {}
    BY <1>1, <1>4, CoversApart DEF OffAll
  <2>2. /\ IsFiniteSet(Covered(xs)) /\ TotalSize(xs) = Cardinality(Covered(xs))
        /\ IsFiniteSet(Covered(memory)) /\ TotalSize(memory) = Cardinality(Covered(memory))
        /\ TotalSize(left) = Cardinality(Covered(left))
    BY <1>1, <1>4, <1>5, TotalIsCovered
  <2>3. Cardinality(Covered(memory) \cup Covered(xs))
          = Cardinality(Covered(memory)) + Cardinality(Covered(xs))
    BY <2>1, <2>2, CountBoth
  <2> QED BY <1>5, <2>2, <2>3
<1>7. <<>> \in Seq(Pieces) /\ Sorted(<<>>) /\ TotalSize(<<>>) = 0
  BY TotalOfNothing DEF Sorted
<1>8. /\ segments' \in [Pages -> Seq(Pieces)] /\ DOMAIN size' = Pages
      /\ segments'[p] = <<>> /\ size'[p] = 0
      /\ \A q \in Pages \ {p} : segments'[q] = segments[q] /\ size'[q] = size[q]
  BY <1>2, <1>3, <1>7
<1>9. MemoryFits'
  BY <1>1, <1>3, <1>4, <1>5, <1>6 DEF MemoryFits
<1>10. ASSUME NEW q \in Pages \ {p} PROVE OffAll(segments[q], left)
  <2>1. \A i \in 1 .. Len(segments[q]) :
          /\ segments[q][i] \in Pieces
          /\ OffList(segments[q][i], memory) /\ OffList(segments[q][i], xs)
    BY <1>2 DEF OffAll, xs
  <2> QED BY <1>5, <2>1 DEF OffAll
<1>11. SegmentsFit'
  <2>1. ASSUME NEW q \in Pages
        PROVE  /\ Sorted(segments'[q]) /\ size'[q] = TotalSize(segments'[q])
               /\ OffAll(segments'[q], left)
    <3>1. CASE q = p
      BY <1>7, <1>8, <3>1 DEF OffAll
    <3>2. CASE q # p
      BY <1>2, <1>8, <1>10, <3>2
    <3> QED BY <3>1, <3>2
  <2>2. ASSUME NEW q \in Pages, NEW r \in Pages, q # r
        PROVE  OffAll(segments'[q], segments'[r])
    <3>1. CASE q = p \/ r = p
      BY <1>8, <2>2, <3>1 DEF OffAll, OffList
    <3>2. CASE q # p /\ r # p
      BY <1>2, <1>8, <2>2, <3>2
    <3> QED BY <3>1, <3>2
  <2> QED BY <1>3, <1>8, <2>1, <2>2 DEF SegmentsFit
<1>12. MemoryCovered'
  <2> SUFFICES ASSUME NEW g
               PROVE  g \in 0 .. Memory - 1 <=>
                        g \in Covered(memory') \/ \E q \in Pages : g \in Covered(segments'[q])
    BY DEF MemoryCovered
  <2>1. g \in 0 .. Memory - 1 <=>
          g \in Covered(memory) \/ \E q \in Pages : g \in Covered(segments[q])
    BY DEF PInv, MemoryCovered
  <2>2. Covered(segments'[p]) = {}
    BY <1>8 DEF Covered
  <2> QED BY <1>3, <1>5, <1>8, <2>1, <2>2 DEF xs
<1> QED BY <1>8, <1>9, <1>11, <1>12 DEF PInv

\* Ranges that are apart share no granule of memory.
LEMMA MemoryIsApart == PInv => MemoryDisjoint
<1> SUFFICES ASSUME PInv PROVE MemoryDisjoint
  OBVIOUS
<1>1. memory \in Seq(Pieces) /\ Sorted(memory) /\ unused = TotalSize(memory)
  BY DEF PInv, MemoryFits
<1>2. /\ segments \in [Pages -> Seq(Pieces)]
      /\ \A q \in Pages : /\ Sorted(segments[q]) /\ size[q] = TotalSize(segments[q])
                          /\ OffAll(segments[q], memory)
      /\ \A q, r \in Pages : q # r => OffAll(segments[q], segments[r])
  BY DEF PInv, SegmentsFit
<1>3. ASSUME NEW list \in Seq(Pieces), Sorted(list),
             NEW i \in DOMAIN list, NEW j \in DOMAIN list, i # j
      PROVE  Units(list[i]) \cap Units(list[j]) = {}
  <2>1. list[i] \in Pieces /\ list[j] \in Pieces /\ i \in 1 .. Len(list) /\ j \in 1 .. Len(list)
    OBVIOUS
  <2>2. i < j \/ j < i
    BY <1>3, <2>1
  <2>3. Apart(list[i], list[j])
    BY <1>3, <2>1, <2>2 DEF Sorted, Apart
  <2> QED BY <2>1, <2>3, ApartMeansDisjoint
<1>4. ASSUME NEW xs \in Seq(Pieces), NEW ys \in Seq(Pieces), OffAll(xs, ys),
             NEW i \in DOMAIN xs, NEW j \in DOMAIN ys
      PROVE  Units(xs[i]) \cap Units(ys[j]) = {}
  <2>1. xs[i] \in Pieces /\ ys[j] \in Pieces /\ i \in 1 .. Len(xs) /\ j \in 1 .. Len(ys)
    OBVIOUS
  <2>2. Apart(xs[i], ys[j])
    BY <1>4, <2>1 DEF OffAll, OffList
  <2> QED BY <2>1, <2>2, ApartMeansDisjoint
<1>5. \A x : P!Units(x) = Units(x)
  BY DEF P!Units, Units, P!End, End
<1>6. \A i, j \in DOMAIN memory : i # j => P!Units(memory[i]) \cap P!Units(memory[j]) = {}
  BY <1>1, <1>3, <1>5
<1>7. ASSUME NEW p \in Pages, NEW i \in DOMAIN segments[p]
      PROVE  /\ \A j \in DOMAIN memory : P!Units(segments[p][i]) \cap P!Units(memory[j]) = {}
             /\ \A q \in Pages : \A j \in DOMAIN segments[q] :
                  p # q \/ i # j => P!Units(segments[p][i]) \cap P!Units(segments[q][j]) = {}
  <2>1. segments[p] \in Seq(Pieces)
    BY <1>2
  <2>2. ASSUME NEW j \in DOMAIN memory
        PROVE  Units(segments[p][i]) \cap Units(memory[j]) = {}
    BY <1>1, <1>2, <1>4, <2>1
  <2>3. ASSUME NEW q \in Pages, NEW j \in DOMAIN segments[q], p # q \/ i # j
        PROVE  Units(segments[p][i]) \cap Units(segments[q][j]) = {}
    <3>1. segments[q] \in Seq(Pieces)
      BY <1>2
    <3>2. CASE p = q
      BY <1>2, <1>3, <2>1, <2>3, <3>2
    <3>3. CASE p # q
      BY <1>2, <1>4, <2>1, <3>1, <3>3
    <3> QED BY <3>2, <3>3
  <2> QED BY <1>5, <2>2, <2>3
<1>8. /\ \A p \in Pages : size[p] = P!TotalSize(segments[p])
      /\ unused = P!TotalSize(memory)
  BY <1>1, <1>2, SameOperators
<1> QED BY <1>6, <1>7, <1>8 DEF MemoryDisjoint, P!Disjoint, P!AccountAgrees

\* What the steps of the threads hand to the physical memory manager: a page
\* that waits for memory has a range of one of the sizes that are asked for.
AsksFit ==
  /\ ThreadsFit /\ OwnPages
  /\ DOMAIN held = Pages /\ DOMAIN cut = Pages
  /\ \A t \in Threads : /\ pc[t] = "cut" => cut[at[t]].range.size \in Sizes
                        /\ pc[t] = "physical" => held[at[t]].size \in Sizes

\* Every step either leaves the manager alone or is one of its calls.
PhysicalStep(t) ==
  \/ pc[t] = "physical" /\ P!Allocate(at[t], SizeOf(t))
  \/ P!Free(at[t])
  \/ UNCHANGED physical

LEMMA StepsAllocate ==
  ASSUME Next
  PROVE  \E t \in Threads : PhysicalStep(t)
<1>1. PICK t \in Threads :
        \/ \E p \in Pages, n \in Sizes : NewVirtual(t, p, n)
        \/ NewVirtualCut(t) \/ NewPhysical(t) \/ NewPhysicalFails(t)
        \/ Publish(t) \/ Count(t)
        \/ \E p \in Pages : Unlink(t, p)
        \/ Uncount(t) \/ FreeVirtual(t) \/ FreePhysical(t)
  BY DEF Next
<1>2. CASE \E p \in Pages, n \in Sizes : NewVirtual(t, p, n)
  BY <1>2 DEF NewVirtual, PhysicalStep
<1>3. CASE NewPhysical(t)
  BY <1>3 DEF NewPhysical, PhysicalStep, Move
<1>4. CASE FreePhysical(t)
  BY <1>4 DEF FreePhysical, PhysicalStep
<1>5. CASE NewVirtualCut(t) \/ NewPhysicalFails(t) \/ Publish(t) \/ Count(t) \/ Uncount(t)
           \/ FreeVirtual(t)
  BY <1>5 DEF NewVirtualCut, NewPhysicalFails, Publish, Count, Uncount, FreeVirtual, PhysicalStep
<1>6. CASE \E p \in Pages : Unlink(t, p)
  BY <1>6 DEF Unlink, PhysicalStep
<1> QED BY <1>1, <1>2, <1>3, <1>4, <1>5, <1>6

LEMMA NextPInv ==
  ASSUME PInv, AsksFit, [Next]_vars
  PROVE  PInv'
<1>1. CASE UNCHANGED physical
  BY <1>1 DEF physical, PInv, MemoryFits, SegmentsFit, MemoryCovered
<1>2. CASE UNCHANGED vars
  BY <1>1, <1>2 DEF vars
<1>3. ASSUME NEW t \in Threads, PhysicalStep(t) PROVE PInv'
  <2>1. at[t] \in Pages
    BY DEF AsksFit, ThreadsFit
  <2>2. CASE pc[t] = "physical" /\ P!Allocate(at[t], SizeOf(t))
    <3>1. SizeOf(t) \in Nat /\ SizeOf(t) >= 1
      <4>1. SizeOf(t) \in Sizes
        BY <2>2 DEF AsksFit, SizeOf
      <4>2. \A k \in Sizes : k \in Nat /\ k >= 1
        BY PageMemoryAssumption
      <4> QED BY <4>1, <4>2
    <3> QED BY <2>1, <2>2, <3>1, Allocates
  <2>3. CASE P!Free(at[t])
    BY <2>1, <2>3, FreesMemory
  <2> QED BY <1>1, <1>3, <2>2, <2>3 DEF PhysicalStep
<1> QED BY <1>2, <1>3, StepsAllocate

\* A thread that goes on past where it asks, and the others.
LEMMA NextAsksFit == AsksFit /\ [Next]_vars => AsksFit'
<1> SUFFICES ASSUME AsksFit, [Next]_vars PROVE AsksFit'
  OBVIOUS
<1>1. /\ ThreadsFit /\ OwnPages /\ DOMAIN held = Pages /\ DOMAIN cut = Pages
      /\ \A t \in Threads : /\ pc[t] = "cut" => cut[at[t]].range.size \in Sizes
                            /\ pc[t] = "physical" => held[at[t]].size \in Sizes
  BY DEF AsksFit
<1>2. CASE UNCHANGED vars
  BY <1>1, <1>2 DEF vars, virtual, AsksFit, ThreadsFit, OwnPages
<1>3. ASSUME NEW t \in Threads, NEW from \in Labels \ {"idle"}, NEW to \in Labels \ {"cut", "physical"},
             Move(t, from, to), at' = at,
             \/ UNCHANGED virtual
             \/ held' = [held EXCEPT ![at[t]] = None] /\ cut' = cut
      PROVE  AsksFit'
  <2>1. /\ ThreadsFit' /\ OwnPages' /\ pc'[t] = to
        /\ \A u \in Threads \ {t} : pc'[u] = pc[u] /\ (pc[u] # "idle" => at[u] # at[t])
    BY <1>1, <1>3, GoesOn
  <2>2. DOMAIN held' = Pages /\ DOMAIN cut' = Pages /\ cut' = cut
        /\ \A p \in Pages : p # at[t] => held'[p] = held[p]
    BY <1>1, <1>3 DEF virtual
  <2>3. ASSUME NEW u \in Threads
        PROVE  /\ pc'[u] = "cut" => cut'[at'[u]].range.size \in Sizes
               /\ pc'[u] = "physical" => held'[at'[u]].size \in Sizes
    <3>1. at[u] \in Pages /\ at'[u] = at[u]
      BY <1>1, <1>3 DEF ThreadsFit
    <3>2. CASE u = t
      BY <1>3, <2>1, <3>2
    <3>3. CASE u # t
      BY <1>1, <2>1, <2>2, <3>1, <3>3
    <3> QED BY <3>2, <3>3
  <2> QED BY <2>1, <2>2, <2>3 DEF AsksFit
<1>4. ASSUME NEW t \in Threads, NEW p \in Pages, NEW to \in Labels, Start(t, p, to),
             DOMAIN held' = Pages, DOMAIN cut' = Pages,
             \A q \in Pages \ {p} : held'[q] = held[q] /\ cut'[q] = cut[q],
             to = "cut" => cut'[p].range.size \in Sizes,
             to = "physical" => held'[p].size \in Sizes
      PROVE  AsksFit'
  <2>1. /\ ThreadsFit' /\ OwnPages' /\ pc'[t] = to /\ at'[t] = p
        /\ \A u \in Threads \ {t} : /\ pc'[u] = pc[u] /\ at'[u] = at[u]
                                    /\ pc[u] # "idle" => at[u] # p
    BY <1>1, <1>4, Starts
  <2>2. ASSUME NEW u \in Threads
        PROVE  /\ pc'[u] = "cut" => cut'[at'[u]].range.size \in Sizes
               /\ pc'[u] = "physical" => held'[at'[u]].size \in Sizes
    <3>1. at[u] \in Pages
      BY <1>1 DEF ThreadsFit
    <3>2. CASE u = t
      BY <1>4, <2>1, <3>2
    <3>3. CASE u # t /\ (pc[u] = "cut" \/ pc[u] = "physical")
      <4>1. at[u] \in Pages \ {p} /\ at'[u] = at[u] /\ pc'[u] = pc[u]
        BY <2>1, <3>1, <3>3
      <4>2. held'[at[u]] = held[at[u]] /\ cut'[at[u]] = cut[at[u]]
        BY <1>4, <4>1
      <4> QED BY <1>1, <4>1, <4>2
    <3>4. CASE u # t /\ pc[u] # "cut" /\ pc[u] # "physical"
      BY <2>1, <3>4
    <3> QED BY <3>2, <3>3, <3>4
  <2> QED BY <1>4, <2>1, <2>2 DEF AsksFit
<1> SUFFICES ASSUME Next PROVE AsksFit'
  BY <1>2
<1>5. PICK t \in Threads :
        \/ \E p \in Pages, n \in Sizes : NewVirtual(t, p, n)
        \/ NewVirtualCut(t) \/ NewPhysical(t) \/ NewPhysicalFails(t)
        \/ Publish(t) \/ Count(t)
        \/ \E p \in Pages : Unlink(t, p)
        \/ Uncount(t) \/ FreeVirtual(t) \/ FreePhysical(t)
  BY DEF Next
<1>6. at[t] \in Pages
  BY <1>1 DEF ThreadsFit
<1>7. CASE \E p \in Pages, n \in Sizes : NewVirtual(t, p, n)
  <2>1. PICK p \in Pages, n \in Sizes : NewVirtual(t, p, n)
    BY <1>7
  <2>2. CASE V!TakeWhole(p, n) /\ Start(t, p, "physical")
    <3>1. /\ free[V!Fit(n)].size = n /\ held' = [held EXCEPT ![p] = free[V!Fit(n)]] /\ cut' = cut
      BY <2>2 DEF V!TakeWhole, V!Hold
    <3>2. held'[p].size \in Sizes
      BY <1>1, <3>1
    <3>3. "physical" \in Labels
      BY DEF Labels
    <3>4. DOMAIN held' = Pages /\ \A q \in Pages \ {p} : held'[q] = held[q]
      BY <1>1, <3>1
    <3> QED BY <1>1, <1>4, <2>2, <3>1, <3>2, <3>3, <3>4
  <2>3. CASE V!ReadPiece(p, n) /\ Start(t, p, "cut")
    <3> DEFINE c == [range |-> V!Piece(V!Fit(n), n), end |-> V!End(free[V!Fit(n)])]
    <3>1. cut' = [cut EXCEPT ![p] = c] /\ held' = held
      BY <2>3 DEF V!ReadPiece
    <3>2. c.range.size = n
      BY DEF V!Piece, V!Segment
    <3> HIDE DEF c
    <3>3. DOMAIN cut' = Pages /\ cut'[p] = c /\ \A q \in Pages \ {p} : cut'[q] = cut[q]
      BY <1>1, <3>1
    <3>4. "cut" \in Labels
      BY DEF Labels
    <3> QED BY <1>1, <1>4, <2>3, <3>1, <3>2, <3>3, <3>4
  <2> QED BY <2>1, <2>2, <2>3 DEF NewVirtual
<1>8. CASE NewVirtualCut(t)
  <2>1. /\ Move(t, "cut", "physical") /\ at' = at /\ pc[t] = "cut"
        /\ held' = [held EXCEPT ![at[t]] = cut[at[t]].range]
        /\ cut' = [cut EXCEPT ![at[t]] = None]
    BY <1>8 DEF NewVirtualCut, V!CutPiece, V!Hold, Move
  <2>2. "cut" \in Labels /\ "physical" \in Labels
    BY DEF Labels
  <2>3. /\ ThreadsFit' /\ OwnPages' /\ pc'[t] = "physical"
        /\ \A u \in Threads \ {t} : pc'[u] = pc[u] /\ (pc[u] # "idle" => at[u] # at[t])
    BY <1>1, <2>1, <2>2, GoesOn
  <2>4. /\ DOMAIN held' = Pages /\ DOMAIN cut' = Pages /\ held'[at[t]] = cut[at[t]].range
        /\ \A p \in Pages : p # at[t] => held'[p] = held[p] /\ cut'[p] = cut[p]
    BY <1>1, <1>6, <2>1
  <2>5. ASSUME NEW u \in Threads
        PROVE  /\ pc'[u] = "cut" => cut'[at'[u]].range.size \in Sizes
               /\ pc'[u] = "physical" => held'[at'[u]].size \in Sizes
    <3>1. at[u] \in Pages /\ at'[u] = at[u]
      BY <1>1, <2>1 DEF ThreadsFit
    <3>2. CASE u = t
      BY <1>1, <2>1, <2>3, <2>4, <3>2
    <3>3. CASE u # t
      BY <1>1, <2>3, <2>4, <3>1, <3>3
    <3> QED BY <3>2, <3>3
  <2> QED BY <2>3, <2>4, <2>5 DEF AsksFit
<1>9. CASE NewPhysical(t)
  BY <1>3, <1>9 DEF NewPhysical, Labels
<1>10. CASE NewPhysicalFails(t)
  BY <1>3, <1>10 DEF NewPhysicalFails, V!Free, V!Hold, Labels
<1>11. CASE Publish(t)
  BY <1>3, <1>11 DEF Publish, Labels
<1>12. CASE Count(t)
  BY <1>3, <1>12 DEF Count, Labels
<1>13. CASE \E p \in Pages : Unlink(t, p)
  <2>1. PICK p \in Pages : Unlink(t, p)
    BY <1>13
  <2>2. Start(t, p, "uncount") /\ held' = held /\ cut' = cut
    BY <2>1 DEF Unlink, virtual
  <2>3. "uncount" \in Labels
    BY DEF Labels
  <2> QED BY <1>1, <1>4, <2>2, <2>3
<1>14. CASE Uncount(t)
  BY <1>3, <1>14 DEF Uncount, Labels
<1>15. CASE FreeVirtual(t)
  BY <1>3, <1>15 DEF FreeVirtual, V!Free, V!Hold, Labels
<1>16. CASE FreePhysical(t)
  BY <1>3, <1>16 DEF FreePhysical, Labels
<1> QED BY <1>5, <1>7, <1>8, <1>9, <1>10, <1>11, <1>12, <1>13, <1>14, <1>15, <1>16

LEMMA InitAsksFit == Init => AsksFit
BY DEF Init, V!Init, AsksFit, ThreadsFit, OwnPages, Labels

\* No granule of memory is behind two pages, every page has all it asked for
\* and the account agrees with the list (allocate_physical_memory,
\* free_physical_memory), for any number of threads and pages and any sizes,
\* and though ranges of addresses may overlap.
THEOREM MemoryIsDisjoint == Spec => []MemoryDisjoint
<1>1. Init => PInv /\ AsksFit
  BY InitPInv, InitAsksFit
<1>2. PInv /\ AsksFit /\ [Next]_vars => PInv' /\ AsksFit'
  BY NextPInv, NextAsksFit
<1>3. PInv => MemoryDisjoint
  BY MemoryIsApart
<1> QED BY <1>1, <1>2, <1>3, PTL DEF Spec

-----------------------------------------------------------------------------
(* Nothing gets lost: every address is in the list or in a page, and what  *)
(* the pages hold adds up.                                                 *)

LEMMA RemoveCovers ==
  ASSUME NEW list \in Seq(Pieces), NEW i \in 1 .. Len(list)
  PROVE  Covered(list) = Covered(RemoveAt(list, i)) \cup Units(list[i])
<1> DEFINE n == Len(list)
           left == RemoveAt(list, i)
<1>1. /\ Len(left) = n - 1
      /\ \A j \in 1 .. n - 1 : left[j] = IF j < i THEN list[j] ELSE list[j + 1]
  BY RemoveAtFacts
<1>2. n \in Nat /\ i \in 1 .. n
  OBVIOUS
<1> HIDE DEF left
<1>3. ASSUME NEW g PROVE g \in Covered(list) <=> g \in Covered(left) \/ g \in Units(list[i])
  <2>1. g \in Covered(left) <=> \E j \in 1 .. n - 1 : g \in Units(left[j])
    BY <1>1, InCovered
  <2>2. g \in Covered(list) <=> \E j \in 1 .. n : g \in Units(list[j])
    BY InCovered
  <2> HIDE DEF n
  <2>3. ASSUME NEW j \in 1 .. n - 1, g \in Units(left[j])
        PROVE  \E k \in 1 .. n : g \in Units(list[k])
    <3>1. CASE j < i
      <4>1. j \in 1 .. n /\ left[j] = list[j]
        BY <1>1, <1>2, <3>1
      <4> QED BY <2>3, <4>1
    <3>2. CASE ~(j < i)
      <4>1. j + 1 \in 1 .. n /\ left[j] = list[j + 1]
        BY <1>1, <1>2, <3>2
      <4> QED BY <2>3, <4>1
    <3> QED BY <3>1, <3>2
  <2>4. ASSUME NEW k \in 1 .. n, g \in Units(list[k]), k # i
        PROVE  \E j \in 1 .. n - 1 : g \in Units(left[j])
    <3>1. CASE k < i
      <4>1. k \in 1 .. n - 1 /\ left[k] = list[k]
        BY <1>1, <1>2, <3>1
      <4> QED BY <2>4, <4>1
    <3>2. CASE ~(k < i)
      <4>1. k - 1 \in 1 .. n - 1 /\ ~(k - 1 < i) /\ (k - 1) + 1 = k
        BY <1>2, <2>4, <3>2
      <4>2. left[k - 1] = list[k]
        BY <1>1, <4>1
      <4> QED BY <2>4, <4>1, <4>2
    <3> QED BY <3>1, <3>2
  <2> QED BY <1>2, <2>1, <2>2, <2>3, <2>4
<1> QED BY <1>3 DEF left

LEMMA CutCovers ==
  ASSUME NEW list \in Seq(Pieces), NEW i \in 1 .. Len(list),
         NEW n \in Nat, n >= 1, n < list[i].size
  PROVE  Covered(list) = Covered(CutAt(list, i, n)) \cup Units(Segment(list[i].addr, n))
<1> DEFINE a == list[i].addr
           m == list[i].size
           x == Segment(a, n)
           r == Segment(a + n, m - n)
           left == CutAt(list, i, n)
<1>1. list[i] \in Pieces /\ a \in Nat /\ m \in Nat /\ list[i].addr = a /\ End(list[i]) = a + m
  <2>1. list[i] \in Pieces
    OBVIOUS
  <2> QED BY <2>1, PieceFields
<1>2. /\ Len(left) = Len(list) /\ left[i] = r
      /\ \A j \in 1 .. Len(list) : j # i => left[j] = list[j]
  BY DEF CutAt
<1>3. n < m
  OBVIOUS
<1> HIDE DEF a, m, left
<1>4. m - n \in Nat /\ m - n >= 1 /\ a + n \in Nat /\ (a + n) + (m - n) = a + m
  BY <1>1, <1>3
<1>5. x.addr = a /\ End(x) = a + n /\ r.addr = a + n /\ End(r) = a + m
  BY <1>1, <1>4, SegmentIsPiece
<1> HIDE DEF x, r
<1>6. \A g : g \in Units(list[i]) <=> g \in Units(x) \/ g \in Units(r)
  <2>1. a .. (a + m) - 1 = (a .. (a + n) - 1) \cup (a + n .. (a + m) - 1)
    BY <1>1, <1>4
  <2> QED BY <1>1, <1>5, <2>1 DEF Units
<1>7. ASSUME NEW g PROVE g \in Covered(list) <=> g \in Covered(left) \/ g \in Units(x)
  <2>1. g \in Covered(left) <=> \E j \in 1 .. Len(list) : g \in Units(left[j])
    BY <1>2, InCovered
  <2>2. g \in Covered(list) <=> \E j \in 1 .. Len(list) : g \in Units(list[j])
    BY InCovered
  <2> QED BY <1>2, <1>6, <2>1, <2>2
<1> QED BY <1>7 DEF left, x, a

AddressesCovered ==
  \A g : g \in 0 .. Addresses - 1 <=>
           \/ g \in Covered(free)
           \/ \E p \in Pages : held[p] # None /\ g \in Units(held[p])

LEMMA InitAddressesCovered == Init => AddressesCovered
<1> SUFFICES ASSUME Init PROVE AddressesCovered
  OBVIOUS
<1> DEFINE x == Segment(0, Addresses)
<1>1. free = <<x>> /\ held = [p \in Pages |-> None]
  BY DEF Init, V!Init, V!Segment, Segment
<1>2. Addresses \in Nat /\ Addresses >= 1 /\ 0 \in Nat
  BY PageMemoryAssumption
<1>3. x.addr = 0 /\ End(x) = 0 + Addresses
  BY <1>2, SegmentIsPiece
<1> HIDE DEF x
<1>4. Units(x) = 0 .. Addresses - 1
  BY <1>2, <1>3 DEF Units
<1>5. Covered(free) = Units(x)
  BY <1>1 DEF Covered
<1> QED BY <1>1, <1>4, <1>5 DEF AddressesCovered

\* Addresses go from the list to a page, or the other way.
LEMMA AddressesMove ==
  ASSUME AddressesCovered, NEW p \in Pages, DOMAIN held = Pages,
         NEW x, held' = [held EXCEPT ![p] = x],
         \/ held[p] = None /\ x # None /\ Covered(free) = Covered(free') \cup Units(x)
         \/ held[p] # None /\ x = None /\ Covered(free') = Covered(free) \cup Units(held[p])
  PROVE  AddressesCovered'
<1> SUFFICES ASSUME NEW g
             PROVE  g \in 0 .. Addresses - 1 <=>
                      \/ g \in Covered(free')
                      \/ \E q \in Pages : held'[q] # None /\ g \in Units(held'[q])
  BY DEF AddressesCovered
<1>1. g \in 0 .. Addresses - 1 <=>
        \/ g \in Covered(free)
        \/ \E q \in Pages : held[q] # None /\ g \in Units(held[q])
  BY DEF AddressesCovered
<1>2. held'[p] = x /\ \A q \in Pages \ {p} : held'[q] = held[q]
  OBVIOUS
<1>3. CASE held[p] = None /\ x # None /\ Covered(free) = Covered(free') \cup Units(x)
  BY <1>1, <1>2, <1>3
<1>4. CASE held[p] # None /\ x = None /\ Covered(free') = Covered(free) \cup Units(held[p])
  BY <1>1, <1>2, <1>4
<1> QED BY <1>3, <1>4

LEMMA NextAddressesCovered ==
  ASSUME OneAtATime, VInv, at \in [Threads -> Pages], AddressesCovered, [Next]_vars
  PROVE  AddressesCovered'
<1>1. free \in Seq(Pieces) /\ held \in [Pages -> Pieces \cup {None}]
  BY DEF VInv, FreeFits, HeldFits
<1>2. CASE held' = held /\ free' = free
  BY <1>2 DEF AddressesCovered
<1>3. ASSUME NEW p \in Pages, NEW n \in Sizes, V!TakeWhole(p, n)
      PROVE  AddressesCovered'
  <2>1. held[p] = None
    BY <1>3, TakesWhole
  <2>2. PICK i \in 1 .. Len(free) : /\ free' = RemoveAt(free, i)
                                    /\ held' = [held EXCEPT ![p] = free[i]]
    BY <1>3, TakesWhole
  <2>3. Covered(free) = Covered(free') \cup Units(free[i])
    BY <1>1, <2>2, RemoveCovers
  <2>4. free[i] # None
    BY <1>1, NoneIsNoPiece
  <2> QED BY <1>1, <2>1, <2>2, <2>3, <2>4, AddressesMove
<1>4. ASSUME NEW t \in Threads, V!CutPiece(at[t])
      PROVE  AddressesCovered'
  <2> DEFINE p == at[t]
  <2>0. p \in Pages
    OBVIOUS
  <2>1. held[p] = None
    BY <1>4, <2>0, CutsPiece
  <2>2. PICK i \in 1 .. Len(free), n \in Nat \ {0} :
          /\ n < free[i].size
          /\ free' = [free EXCEPT ![i] = Segment(free[i].addr + n, free[i].size - n)]
          /\ held' = [held EXCEPT ![p] = Segment(free[i].addr, n)]
    BY <1>4, <2>0, CutsPiece
  <2> HIDE DEF p
  <2> DEFINE x == Segment(free[i].addr, n)
  <2>3. Covered(free) = Covered(free') \cup Units(x)
    <3>1. n >= 1 /\ n \in Nat
      OBVIOUS
    <3>2. free' = CutAt(free, i, n)
      BY <2>2 DEF CutAt
    <3>3. Covered(free) = Covered(CutAt(free, i, n)) \cup Units(Segment(free[i].addr, n))
      BY <1>1, <2>2, <3>1, CutCovers
    <3> QED BY <3>2, <3>3
  <2>4. x # None
    <3>1. free[i] \in Pieces
      BY <1>1
    <3>2. free[i].addr \in Nat /\ n \in Nat /\ n >= 1
      BY <3>1, PieceFields
    <3>3. x \in Pieces
      BY <3>2, SegmentIsPiece
    <3> HIDE DEF x
    <3> QED BY <3>3, NoneIsNoPiece
  <2>5. held' = [held EXCEPT ![p] = x]
    BY <2>2
  <2> HIDE DEF x
  <2> QED BY <1>1, <2>0, <2>1, <2>3, <2>4, <2>5, AddressesMove
<1>5. ASSUME NEW t \in Threads, V!Free(at[t])
      PROVE  AddressesCovered'
  <2> DEFINE p == at[t]
  <2>0. p \in Pages
    OBVIOUS
  <2>1. /\ held[p] # None
        /\ free' = Release(free, held[p]) /\ held' = [held EXCEPT ![p] = None]
    BY <1>5, <2>0, Frees
  <2> HIDE DEF p
  <2>2. held[p] \in Pieces
    BY <1>1, <2>0, <2>1
  <2>3. Covered(free') = Covered(free) \cup Units(held[p])
    BY <1>1, <2>1, <2>2, ReleaseCovers
  <2> QED BY <1>1, <2>0, <2>1, <2>3, AddressesMove
<1>6. CASE UNCHANGED virtual
  BY <1>2, <1>6 DEF virtual
<1>7. ASSUME NEW p \in Pages, NEW n \in Sizes, V!ReadPiece(p, n)
      PROVE  AddressesCovered'
  <2>1. held' = held /\ free' = free
    BY <1>7, ReadsPiece
  <2> QED BY <1>2, <2>1
<1>8. CASE UNCHANGED vars
  BY <1>6, <1>8 DEF vars
<1>9. CASE Next
  <2>1. PICK t \in Threads : ManagerStep(t)
    BY <1>9, StepsCall
  <2> QED BY <1>3, <1>4, <1>5, <1>6, <1>7, <2>1 DEF ManagerStep
<1> QED BY <1>8, <1>9

\* The sum of the sizes of the ranges of a set of pages.
SizesOf(ranges, S) == MapThenSumSet(LAMBDA p : ranges[p].size, S)

\* What a set of pages covers together.
Together(F, S) == UNION {F[p] : p \in S}

SumStep(ranges, f, s) ==
  IF s = {} THEN 0 ELSE ranges[CHOOSE x \in s : TRUE].size + f[s \ {CHOOSE x \in s : TRUE}]

\* The sizes of things that are apart add up to what they cover together.
LEMMA SumIsCovered ==
  ASSUME NEW S, IsFiniteSet(S), NEW ranges, NEW F,
         \A p \in S : IsFiniteSet(F[p]) /\ ranges[p].size = Cardinality(F[p]),
         \A p, q \in S : p # q => F[p] \cap F[q] = {}
  PROVE  /\ IsFiniteSet(Together(F, S))
         /\ SizesOf(ranges, S) = Cardinality(Together(F, S))
<1> DEFINE u == [s \in SUBSET S |-> UNION {F[p] : p \in s}]
           c == [s \in SUBSET S |-> Cardinality(u[s])]
           f == CHOOSE f : f = [s \in SUBSET S |-> SumStep(ranges, f, s)]
           n == Cardinality(S)
           G == {k \in 0 .. n : \A s \in SUBSET S : Cardinality(s) = k => IsFiniteSet(u[s])}
<1>1. n \in Nat /\ \A s \in SUBSET S : IsFiniteSet(s) /\ Cardinality(s) \in 0 .. n
  <2>1. n \in Nat
    BY FS_CardinalityType
  <2> HIDE DEF n
  <2>2. ASSUME NEW s \in SUBSET S PROVE IsFiniteSet(s) /\ Cardinality(s) \in 0 .. n
    <3>1. IsFiniteSet(s) /\ Cardinality(s) <= n
      BY FS_Subset DEF n
    <3>2. Cardinality(s) \in Nat
      BY <3>1, FS_CardinalityType
    <3> QED BY <2>1, <3>1, <3>2
  <2> QED BY <2>1, <2>2
<1> DEFINE one(s) == CHOOSE x \in s : TRUE
<1>2. ASSUME NEW s \in SUBSET S, s # {}
      PROVE  /\ one(s) \in s /\ one(s) \in S /\ s \ {one(s)} \in SUBSET S
             /\ Cardinality(s \ {one(s)}) = Cardinality(s) - 1
             /\ u[s] = u[s \ {one(s)}] \cup F[one(s)]
             /\ u[s \ {one(s)}] \cap F[one(s)] = {}
  <2>1. one(s) \in s
    BY <1>2
  <2> HIDE DEF one
  <2>2. one(s) \in S /\ s \ {one(s)} \in SUBSET S
    BY <2>1
  <2>3. Cardinality(s \ {one(s)}) = Cardinality(s) - 1
    BY <1>1, <2>1, FS_RemoveElement
  <2>4. \A e : e \in u[s] <=> \E p \in s : e \in F[p]
    OBVIOUS
  <2>5. \A e : e \in u[s \ {one(s)}] <=> \E p \in s \ {one(s)} : e \in F[p]
    BY <2>2
  <2> HIDE DEF u
  <2>6. u[s] = u[s \ {one(s)}] \cup F[one(s)]
    BY <2>1, <2>4, <2>5
  <2>7. u[s \ {one(s)}] \cap F[one(s)] = {}
    BY <2>2, <2>5
  <2> QED BY <2>1, <2>2, <2>3, <2>6, <2>7
<1>3. u[{}] = {} /\ {} \in SUBSET S /\ S \in SUBSET S
  OBVIOUS
<1>4. u[S] = Together(F, S)
  BY <1>3 DEF Together
<1>5. \A s \in SUBSET S : c[s] = Cardinality(u[s])
  OBVIOUS
<1> HIDE DEF u, c, one
\* What is covered is finite ...
<1>6. \A k \in 0 .. n : k \in G
  <2>1. 0 \in G
    <3>1. \A s \in SUBSET S : Cardinality(s) = 0 => s = {}
      BY <1>1, FS_EmptySet
    <3> QED BY <1>1, <1>3, <3>1, FS_EmptySet
  <2>2. ASSUME NEW k \in 0 .. n, k \in G, k < n PROVE k + 1 \in G
    <3>1. k + 1 \in 0 .. n
      BY <1>1, <2>2
    <3> SUFFICES ASSUME NEW s \in SUBSET S, Cardinality(s) = k + 1 PROVE IsFiniteSet(u[s])
      BY <3>1
    <3>2. s # {}
      <4>1. k + 1 # 0
        BY <1>1, <2>2
      <4> QED BY <4>1, FS_EmptySet
    <3>3. /\ one(s) \in S /\ s \ {one(s)} \in SUBSET S
          /\ Cardinality(s \ {one(s)}) = Cardinality(s) - 1
          /\ u[s] = u[s \ {one(s)}] \cup F[one(s)]
      BY <1>2, <3>2
    <3>4. Cardinality(s \ {one(s)}) = k
      BY <2>2, <3>3
    <3>5. IsFiniteSet(u[s \ {one(s)}]) /\ IsFiniteSet(F[one(s)])
      BY <2>2, <3>3, <3>4
    <3>6. IsFiniteSet(u[s \ {one(s)}] \cup F[one(s)])
      BY <3>5, FS_Union
    <3> QED BY <3>3, <3>6
  <2> HIDE DEF G, n
  <2> QED BY <1>1, <2>1, <2>2, Upwards
<1>7. \A s \in SUBSET S : IsFiniteSet(u[s])
  BY <1>1, <1>6
<1> HIDE DEF G
\* ... and its cardinality satisfies the equation of the sum,
<1>8. ASSUME NEW s \in SUBSET S PROVE c[s] = SumStep(ranges, c, s)
  <2>1. CASE s = {}
    BY <1>3, <1>5, <2>1, FS_EmptySet DEF SumStep
  <2>2. CASE s # {}
    <3>1. /\ one(s) \in S /\ s \ {one(s)} \in SUBSET S
          /\ u[s] = u[s \ {one(s)}] \cup F[one(s)] /\ u[s \ {one(s)}] \cap F[one(s)] = {}
      BY <1>2, <2>2
    <3>2. IsFiniteSet(u[s \ {one(s)}]) /\ IsFiniteSet(F[one(s)])
      BY <1>7, <3>1
    <3>3. Cardinality(u[s \ {one(s)}] \cup F[one(s)])
            = Cardinality(u[s \ {one(s)}]) + Cardinality(F[one(s)])
      BY <3>1, <3>2, CountBoth
    <3>4. Cardinality(u[s \ {one(s)}]) \in Nat /\ Cardinality(F[one(s)]) \in Nat
      BY <3>2, FS_CardinalityType
    <3>5. c[s] = Cardinality(F[one(s)]) + c[s \ {one(s)}]
      <4>1. c[s] = Cardinality(u[s]) /\ c[s \ {one(s)}] = Cardinality(u[s \ {one(s)}])
        BY <1>5, <3>1
      <4>2. Cardinality(u[s \ {one(s)}]) + Cardinality(F[one(s)])
              = Cardinality(F[one(s)]) + Cardinality(u[s \ {one(s)}])
        BY <3>4
      <4> QED BY <3>1, <3>3, <4>1, <4>2
    <3>6. c[s] = ranges[one(s)].size + c[s \ {one(s)}]
      BY <3>1, <3>5
    <3> QED BY <2>2, <3>6 DEF SumStep, one
  <2> QED BY <2>1, <2>2
<1>9. c = [s \in SUBSET S |-> SumStep(ranges, c, s)]
  <2>1. c = [s \in SUBSET S |-> c[s]]
    BY DEF c
  <2> QED BY <1>8, <2>1
<1>10. f = [s \in SUBSET S |-> SumStep(ranges, f, s)]
  BY <1>9
<1>11. SizesOf(ranges, S) = f[S]
  BY DEF SizesOf, MapThenSumSet, MapThenFoldSet, SumStep
<1> HIDE DEF f
\* which only one function does.
<1>12. \A s \in SUBSET S : f[s] = SumStep(ranges, f, s)
  BY <1>10, Zenon
<1> DEFINE H == {k \in 0 .. n : \A s \in SUBSET S : Cardinality(s) = k => f[s] = c[s]}
<1>13. \A k \in 0 .. n : k \in H
  <2>1. 0 \in H
    <3>1. \A s \in SUBSET S : Cardinality(s) = 0 => s = {}
      BY <1>1, FS_EmptySet
    <3>2. f[{}] = 0 /\ c[{}] = 0
      BY <1>3, <1>8, <1>12 DEF SumStep
    <3>3. \A s \in SUBSET S : Cardinality(s) = 0 => f[s] = c[s]
      BY <3>1, <3>2
    <3>4. 0 \in 0 .. n
      BY <1>1
    <3> QED BY <3>3, <3>4
  <2>2. ASSUME NEW k \in 0 .. n, k \in H, k < n PROVE k + 1 \in H
    <3>1. k + 1 \in 0 .. n
      BY <1>1, <2>2
    <3> SUFFICES ASSUME NEW s \in SUBSET S, Cardinality(s) = k + 1 PROVE f[s] = c[s]
      BY <3>1
    <3>2. s # {}
      <4>1. k + 1 # 0
        BY <1>1, <2>2
      <4> QED BY <4>1, FS_EmptySet
    <3>3. s \ {one(s)} \in SUBSET S /\ Cardinality(s \ {one(s)}) = Cardinality(s) - 1
      BY <1>2, <3>2
    <3>4. Cardinality(s \ {one(s)}) = k
      BY <2>2, <3>3
    <3>5. f[s \ {one(s)}] = c[s \ {one(s)}]
      BY <2>2, <3>3, <3>4
    <3>6. /\ f[s] = ranges[one(s)].size + f[s \ {one(s)}]
          /\ c[s] = ranges[one(s)].size + c[s \ {one(s)}]
      BY <1>8, <1>12, <3>2 DEF SumStep, one
    <3> QED BY <3>5, <3>6
  <2> HIDE DEF H, n
  <2> QED BY <1>1, <2>1, <2>2, Upwards
<1>14. f[S] = c[S]
  BY <1>1, <1>3, <1>13
<1> QED BY <1>3, <1>4, <1>5, <1>7, <1>11, <1>14

-----------------------------------------------------------------------------
(* Where pages with addresses and pages with memory are, and which of them *)
(* the resident size counts.                                               *)

Has(p, labels) == \E t \in Threads : pc[t] \in labels /\ at[t] = p

\* Where a thread has a page with addresses and memory that is on no list.
Backed == {"publish", "uncount", "addresses"}

\* Pages that ygc->rss counts: they are counted a step after they are listed,
\* and still are a step after they are taken off the list.
Counted == {p \in Pages : (p \in pages /\ ~Has(p, {"count"})) \/ Has(p, {"uncount"})}

PlacesFit ==
  /\ \A p \in Pages :
       /\ held[p] # None => p \in pages \/ Has(p, Unlisted)
       /\ segments[p] # <<>> => p \in pages \/ Has(p, Backed) \/ Has(p, {"memory"})
       /\ p \in pages \/ Has(p, Backed) => size[p] = held[p].size
       /\ Has(p, {"count"}) => p \in pages
       /\ Has(p, {"memory"}) => p \notin pages

RssFits ==
  /\ IsFiniteSet(pages) /\ IsFiniteSet(Counted)
  /\ rss = Cardinality(UNION {Units(held[p]) : p \in Counted})

LInv == PlacesFit /\ RssFits

\* A step of thread t at page p, which nobody else is at.
StepAt(t, p, from, to) ==
  /\ pc[t] = from /\ pc'[t] = to /\ at'[t] = p /\ (from # "idle" => at[t] = p)
  /\ \A u \in Threads \ {t} : pc'[u] = pc[u] /\ (pc[u] # "idle" => at'[u] = at[u] /\ at[u] # p)

\* What the step leaves alone: every other page.
OthersStay(p) ==
  /\ held' \in [Pages -> Pieces \cup {None}]
  /\ \A q \in Pages \ {p} : /\ held'[q] = held[q] /\ segments'[q] = segments[q]
                            /\ size'[q] = size[q] /\ (q \in pages' <=> q \in pages)

LEMMA PlacesMove ==
  ASSUME NEW t \in Threads, NEW p \in Pages, NEW from, NEW to, StepAt(t, p, from, to),
         NEW labels, "idle" \notin labels
  PROVE  /\ Has(p, labels) <=> from \in labels
         /\ Has(p, labels)' <=> to \in labels
         /\ \A q \in Pages \ {p} : Has(q, labels)' <=> Has(q, labels)
<1>1. /\ pc[t] = from /\ pc'[t] = to /\ at'[t] = p /\ (from # "idle" => at[t] = p)
      /\ \A u \in Threads \ {t} : pc'[u] = pc[u] /\ (pc[u] # "idle" => at'[u] = at[u] /\ at[u] # p)
  BY DEF StepAt
<1>2. Has(p, labels) <=> from \in labels
  BY <1>1 DEF Has
<1>3. Has(p, labels)' <=> to \in labels
  BY <1>1 DEF Has
<1>4. ASSUME NEW q \in Pages \ {p} PROVE Has(q, labels)' <=> Has(q, labels)
  <2>1. ASSUME NEW u \in Threads, pc'[u] \in labels, at'[u] = q PROVE Has(q, labels)
    BY <1>1, <2>1 DEF Has
  <2>2. ASSUME NEW u \in Threads, pc[u] \in labels, at[u] = q PROVE Has(q, labels)'
    <3>1. u # t
      BY <1>1, <2>2
    <3>2. pc'[u] \in labels /\ at'[u] = q
      BY <1>1, <2>2, <3>1
    <3> QED BY <3>2 DEF Has
  <2> QED BY <2>1, <2>2 DEF Has
<1> QED BY <1>2, <1>3, <1>4

\* A step keeps all places in order if it keeps that of its own page.
LEMMA PlaceKeeps ==
  ASSUME PlacesFit, NEW t \in Threads, NEW p \in Pages, NEW from, NEW to,
         StepAt(t, p, from, to), OthersStay(p),
         held'[p] # None => p \in pages' \/ to \in Unlisted,
         segments'[p] # <<>> => p \in pages' \/ to \in Backed \/ to = "memory",
         p \in pages' \/ to \in Backed => size'[p] = held'[p].size,
         to = "count" => p \in pages',
         to = "memory" => p \notin pages'
  PROVE  PlacesFit'
<1>1. "idle" \notin Unlisted /\ "idle" \notin Backed /\ "idle" \notin {"count"} /\ "idle" \notin {"memory"}
  BY DEF Unlisted, Backed
<1>2. /\ Has(p, Unlisted)' <=> to \in Unlisted
      /\ Has(p, Backed)' <=> to \in Backed
      /\ Has(p, {"count"})' <=> to = "count"
      /\ Has(p, {"memory"})' <=> to = "memory"
  <2>1. /\ Has(p, Unlisted)' <=> to \in Unlisted
        /\ Has(p, Backed)' <=> to \in Backed
    BY <1>1, PlacesMove
  <2>2. Has(p, {"count"})' <=> to \in {"count"}
    BY <1>1, PlacesMove
  <2>3. Has(p, {"memory"})' <=> to \in {"memory"}
    BY <1>1, PlacesMove
  <2> QED BY <2>1, <2>2, <2>3
<1>3. ASSUME NEW q \in Pages \ {p}
      PROVE  /\ Has(q, Unlisted)' <=> Has(q, Unlisted)
             /\ Has(q, Backed)' <=> Has(q, Backed)
             /\ Has(q, {"count"})' <=> Has(q, {"count"})
             /\ Has(q, {"memory"})' <=> Has(q, {"memory"})
  BY <1>1, PlacesMove
<1>4. ASSUME NEW q \in Pages
      PROVE  /\ held'[q] # None => q \in pages' \/ Has(q, Unlisted)'
             /\ segments'[q] # <<>> => q \in pages' \/ Has(q, Backed)' \/ Has(q, {"memory"})'
             /\ q \in pages' \/ Has(q, Backed)' => size'[q] = held'[q].size
             /\ Has(q, {"count"})' => q \in pages'
             /\ Has(q, {"memory"})' => q \notin pages'
  <2>1. CASE q = p
    BY <1>2, <2>1
  <2>2. CASE q # p
    <3>1. /\ held[q] # None => q \in pages \/ Has(q, Unlisted)
          /\ segments[q] # <<>> => q \in pages \/ Has(q, Backed) \/ Has(q, {"memory"})
          /\ q \in pages \/ Has(q, Backed) => size[q] = held[q].size
          /\ Has(q, {"count"}) => q \in pages
          /\ Has(q, {"memory"}) => q \notin pages
      BY DEF PlacesFit
    <3>2. /\ held'[q] = held[q] /\ segments'[q] = segments[q]
          /\ size'[q] = size[q] /\ (q \in pages' <=> q \in pages)
      BY <2>2 DEF OthersStay
    <3> QED BY <1>3, <2>2, <3>1, <3>2
  <2> QED BY <2>1, <2>2
<1> QED BY <1>4 DEF PlacesFit

\* Whether the resident size counts a page, before the step and after it.
LEMMA CountMoves ==
  ASSUME NEW t \in Threads, NEW p \in Pages, NEW from, NEW to,
         StepAt(t, p, from, to), OthersStay(p)
  PROVE  /\ p \in Counted <=> (p \in pages /\ from # "count") \/ from = "uncount"
         /\ Counted' = IF (p \in pages' /\ to # "count") \/ to = "uncount"
                         THEN Counted \cup {p} ELSE Counted \ {p}
<1>1. /\ Has(p, {"count"}) <=> from = "count"
      /\ Has(p, {"uncount"}) <=> from = "uncount"
      /\ Has(p, {"count"})' <=> to = "count"
      /\ Has(p, {"uncount"})' <=> to = "uncount"
  <2>1. /\ Has(p, {"count"}) <=> from \in {"count"}
        /\ Has(p, {"uncount"}) <=> from \in {"uncount"}
        /\ Has(p, {"count"})' <=> to \in {"count"}
        /\ Has(p, {"uncount"})' <=> to \in {"uncount"}
    BY PlacesMove
  <2> QED BY <2>1
<1>2. ASSUME NEW q \in Pages \ {p}
      PROVE  /\ Has(q, {"count"})' <=> Has(q, {"count"})
             /\ Has(q, {"uncount"})' <=> Has(q, {"uncount"})
  <2>1. "idle" \notin {"count"} /\ "idle" \notin {"uncount"}
    OBVIOUS
  <2>2. Has(q, {"count"})' <=> Has(q, {"count"})
    BY <2>1, PlacesMove
  <2>3. Has(q, {"uncount"})' <=> Has(q, {"uncount"})
    BY <2>1, PlacesMove
  <2> QED BY <2>2, <2>3
<1>3. \A q \in Pages : q \in Counted <=> (q \in pages /\ ~Has(q, {"count"})) \/ Has(q, {"uncount"})
  BY DEF Counted
<1>4. \A q \in Pages : q \in Counted' <=> (q \in pages' /\ ~Has(q, {"count"})') \/ Has(q, {"uncount"})'
  BY DEF Counted
<1>5. Counted \subseteq Pages /\ Counted' \subseteq Pages
  BY DEF Counted
<1>6. ASSUME NEW q \in Pages \ {p} PROVE q \in Counted' <=> q \in Counted
  BY <1>2, <1>3, <1>4 DEF OthersStay
<1>7. p \in Counted' <=> (p \in pages' /\ to # "count") \/ to = "uncount"
  BY <1>1, <1>4
<1>8. p \in Counted <=> (p \in pages /\ from # "count") \/ from = "uncount"
  BY <1>1, <1>3
<1>9. Counted' = IF (p \in pages' /\ to # "count") \/ to = "uncount"
                   THEN Counted \cup {p} ELSE Counted \ {p}
  BY <1>5, <1>6, <1>7
<1> QED BY <1>8, <1>9

\* The sizes of the ranges of pages add up to the addresses they cover.
LEMMA PagesAddUp ==
  ASSUME VInv, NEW S \in SUBSET Pages, IsFiniteSet(S), \A p \in S : held[p] # None
  PROVE  /\ IsFiniteSet(UNION {Units(held[p]) : p \in S})
         /\ SizesOf(held, S) = Cardinality(UNION {Units(held[p]) : p \in S})
<1> DEFINE F == [p \in S |-> Units(held[p])]
<1>1. ASSUME NEW p \in S PROVE IsFiniteSet(F[p]) /\ held[p].size = Cardinality(F[p])
  <2>1. held[p] \in Pieces
    BY DEF VInv, HeldFits
  <2> QED BY <2>1, UnitsCount
<1>2. ASSUME NEW p \in S, NEW q \in S, p # q PROVE F[p] \cap F[q] = {}
  BY <1>2, UnitsApart
<1>3. Together(F, S) = UNION {Units(held[p]) : p \in S}
  BY DEF Together
<1> HIDE DEF F
<1>4. /\ IsFiniteSet(Together(F, S))
      /\ SizesOf(held, S) = Cardinality(Together(F, S))
  BY <1>1, <1>2, SumIsCovered
<1> QED BY <1>3, <1>4

\* What rss counts has a range.
LEMMA CountedHold ==
  ASSUME RangesFit, NEW p \in Counted
  PROVE  p \in Pages /\ held[p] # None
<1>1. p \in Pages /\ (p \in pages \/ Has(p, {"uncount"}))
  BY DEF Counted
<1>2. ASSUME Has(p, {"uncount"}) PROVE held[p] # None
  BY <1>2 DEF Has, RangesFit, Unlisted
<1> QED BY <1>1, <1>2 DEF RangesFit

\* A page that is counted adds its size, one that no longer is takes it away.
LEMMA RssKeeps ==
  ASSUME VInv, RangesFit, RssFits, NEW t \in Threads, NEW p \in Pages, NEW from, NEW to,
         StepAt(t, p, from, to), OthersStay(p), IsFiniteSet(pages'),
         NEW before \in BOOLEAN, before <=> (p \in pages /\ from # "count") \/ from = "uncount",
         NEW after \in BOOLEAN, after <=> (p \in pages' /\ to # "count") \/ to = "uncount",
         before \/ after => held'[p] = held[p] /\ held[p] # None,
         before <=> after => rss' = rss,
         ~before /\ after => rss' = rss + held[p].size,
         before /\ ~after => rss' = rss - held[p].size
  PROVE  RssFits'
<1> DEFINE u(C) == UNION {Units(held[q]) : q \in C}
           n == UNION {Units(held'[q]) : q \in Counted'}
<1>1. /\ p \in Counted <=> before
      /\ Counted' = IF after THEN Counted \cup {p} ELSE Counted \ {p}
  BY CountMoves
<1>2. /\ IsFiniteSet(pages) /\ IsFiniteSet(Counted) /\ rss = Cardinality(u(Counted))
      /\ \A q \in Counted : q \in Pages /\ held[q] # None
  BY CountedHold DEF RssFits
<1>3. IsFiniteSet(Counted')
  BY <1>1, <1>2, FS_AddElement, FS_RemoveElement
<1>4. \A q \in Counted' : q \in Pages /\ held'[q] = held[q] /\ held[q] # None
  BY <1>1, <1>2 DEF OthersStay
<1>5. n = u(Counted')
  BY <1>4
<1>6. ASSUME NEW C \in SUBSET Pages, IsFiniteSet(C), \A q \in C : held[q] # None,
             held[p] # None, p \notin C
      PROVE  /\ Cardinality(u(C \cup {p})) = Cardinality(u(C)) + held[p].size
             /\ Cardinality(u(C)) \in Nat /\ held[p].size \in Nat
  <2>1. u(C \cup {p}) = u(C) \cup Units(held[p])
    OBVIOUS
  <2>2. IsFiniteSet(u(C))
    BY <1>6, PagesAddUp
  <2>3. held[p] \in Pieces
    BY <1>6 DEF VInv, HeldFits
  <2>4. IsFiniteSet(Units(held[p])) /\ Cardinality(Units(held[p])) = held[p].size
    BY <2>3, UnitsCount
  <2>5. u(C) \cap Units(held[p]) = {}
    <3>1. \A q \in C : Units(held[q]) \cap Units(held[p]) = {}
      BY <1>6, UnitsApart
    <3> QED BY <3>1
  <2>6. Cardinality(u(C)) \in Nat /\ held[p].size \in Nat
    BY <2>2, <2>3, FS_CardinalityType, PieceFields
  <2> HIDE DEF u
  <2>7. Cardinality(u(C) \cup Units(held[p])) = Cardinality(u(C)) + Cardinality(Units(held[p]))
    BY <2>2, <2>4, <2>5, CountBoth
  <2> QED BY <2>1, <2>4, <2>6, <2>7
<1> HIDE DEF u, n
<1>7. rss' = Cardinality(u(Counted'))
  <2>1. CASE before <=> after
    <3>1. Counted' = Counted /\ rss' = rss
      BY <1>1, <2>1
    <3> QED BY <1>2, <3>1
  <2>2. CASE ~before /\ after
    <3>1. Counted' = Counted \cup {p} /\ p \notin Counted /\ rss' = rss + held[p].size
      BY <1>1, <2>2
    <3>2. Cardinality(u(Counted \cup {p})) = Cardinality(u(Counted)) + held[p].size
      BY <1>2, <1>6, <2>2, <3>1
    <3> QED BY <1>2, <3>1, <3>2
  <2>3. CASE before /\ ~after
    <3> DEFINE C == Counted \ {p}
    <3>1. Counted' = C /\ C \cup {p} = Counted /\ rss' = rss - held[p].size
      BY <1>1, <2>3
    <3>2. C \in SUBSET Pages /\ IsFiniteSet(C) /\ (\A q \in C : held[q] # None) /\ p \notin C
      BY <1>2, FS_RemoveElement
    <3> HIDE DEF C
    <3>3. /\ Cardinality(u(C \cup {p})) = Cardinality(u(C)) + held[p].size
          /\ Cardinality(u(C)) \in Nat /\ held[p].size \in Nat
      BY <1>6, <2>3, <3>2
    <3>4. rss = Cardinality(u(C)) + held[p].size
      BY <1>2, <3>1, <3>3
    <3>5. rss' = Cardinality(u(C))
      BY <3>1, <3>3, <3>4
    <3> QED BY <3>1, <3>5
  <2> QED BY <2>1, <2>2, <2>3
<1>8. rss' = Cardinality(n)
  BY <1>5, <1>7
<1> QED BY <1>3, <1>8 DEF RssFits, n

LEMMA GoesOnAt ==
  ASSUME ThreadsFit, OwnPages, NEW t \in Threads, NEW from \in Labels, NEW to \in Labels,
         from # "idle", Move(t, from, to), at' = at
  PROVE  StepAt(t, at[t], from, to) /\ at[t] \in Pages /\ pc[t] = from
<1>1. /\ pc'[t] = to
      /\ \A u \in Threads \ {t} : pc'[u] = pc[u] /\ (pc[u] # "idle" => at[u] # at[t])
  BY GoesOn
<1>2. pc[t] = from /\ at[t] \in Pages
  BY DEF Move, ThreadsFit
<1> QED BY <1>1, <1>2 DEF StepAt

LEMMA StartsAt ==
  ASSUME ThreadsFit, OwnPages, NEW t \in Threads, NEW p \in Pages, NEW to \in Labels,
         Start(t, p, to)
  PROVE  StepAt(t, p, "idle", to) /\ ~Has(p, Labels \ {"idle"})
<1>1. /\ pc'[t] = to /\ at'[t] = p
      /\ \A u \in Threads \ {t} : /\ pc'[u] = pc[u] /\ at'[u] = at[u]
                                  /\ pc[u] # "idle" => at[u] # p
  BY Starts
<1>2. pc[t] = "idle"
  BY DEF Start, Move
<1> QED BY <1>1, <1>2 DEF StepAt, Has

\* What holds of a page by where the one thread is that is at it.
LEMMA PlaceTells ==
  ASSUME PlacesFit, RangesFit, NEW t \in Threads, NEW p \in Pages, NEW from, NEW to,
         StepAt(t, p, from, to)
  PROVE  /\ held[p] # None => p \in pages \/ from \in Unlisted
         /\ segments[p] # <<>> => p \in pages \/ from \in Backed \/ from = "memory"
         /\ p \in pages \/ from \in Backed => size[p] = held[p].size
         /\ from = "count" => p \in pages
         /\ from = "memory" => p \notin pages
         /\ p \in pages => held[p] # None
         /\ from \in Unlisted => held[p] # None /\ p \notin pages
<1>1. "idle" \notin Unlisted /\ "idle" \notin Backed /\ "idle" \notin {"count"} /\ "idle" \notin {"memory"}
  BY DEF Unlisted, Backed
<1>2. /\ Has(p, Unlisted) <=> from \in Unlisted
      /\ Has(p, Backed) <=> from \in Backed
  BY <1>1, PlacesMove
<1>3. Has(p, {"count"}) <=> from \in {"count"}
  BY <1>1, PlacesMove
<1>4. Has(p, {"memory"}) <=> from \in {"memory"}
  BY <1>1, PlacesMove
<1>5. from \in Unlisted => held[p] # None /\ p \notin pages
  BY <1>1 DEF StepAt, RangesFit
<1> QED BY <1>2, <1>3, <1>4, <1>5 DEF PlacesFit, RangesFit

\* Every step of a page keeps its place and the resident size in order.
LEMMA NextLInv ==
  ASSUME OneAtATime, IInv, PInv, LInv, Next
  PROVE  LInv'
<1>1. /\ VInv /\ ThreadsFit /\ OwnPages /\ RangesFit /\ PlacesFit /\ RssFits
      /\ pages \subseteq Pages /\ DOMAIN held = Pages
      /\ segments \in [Pages -> Seq(Pieces)] /\ IsFiniteSet(pages)
  BY DEF IInv, LInv, RssFits, MapsFit, VInv, HeldFits, PInv, SegmentsFit
<1>2. held' \in [Pages -> Pieces \cup {None}]
  <2>1. IInv'
    BY NextIInv
  <2> QED BY <2>1 DEF IInv, VInv, HeldFits
\* The steps of a page that is on no list and not counted.
<1>3. ASSUME NEW t \in Threads, NEW p \in Pages, NEW from, NEW to, StepAt(t, p, from, to),
             p \notin pages, pages' = pages, rss' = rss,
             \A q \in Pages \ {p} : /\ held'[q] = held[q] /\ segments'[q] = segments[q]
                                     /\ size'[q] = size[q],
             from # "uncount", to # "uncount", to # "count",
             held'[p] # None => to \in Unlisted,
             segments'[p] # <<>> => to \in Backed \/ to = "memory",
             to \in Backed => size'[p] = held'[p].size
      PROVE  LInv'
  <2>1. OthersStay(p)
    BY <1>2, <1>3 DEF OthersStay
  <2>2. PlacesFit'
    BY <1>1, <1>3, <2>1, PlaceKeeps
  <2>3. RssFits'
    <3> DEFINE no == FALSE
    <3>1. /\ no \in BOOLEAN /\ (no <=> (p \in pages /\ from # "count") \/ from = "uncount")
          /\ (no <=> (p \in pages' /\ to # "count") \/ to = "uncount") /\ ~no
      BY <1>3
    <3>2. IsFiniteSet(pages')
      BY <1>1, <1>3
    <3> HIDE DEF no
    <3> QED BY <1>1, <1>3, <2>1, <3>1, <3>2, RssKeeps
  <2> QED BY <2>2, <2>3 DEF LInv
\* The steps that list a page, take it off or count it.
<1>4. ASSUME NEW t \in Threads, NEW p \in Pages, NEW from, NEW to, StepAt(t, p, from, to),
             UNCHANGED virtual, UNCHANGED physical,
             \A q \in Pages \ {p} : q \in pages' <=> q \in pages,
             IsFiniteSet(pages'), held[p] # None,
             size[p] = held[p].size,
             p \in pages' \/ to \in Backed,
             to = "count" => p \in pages', to # "memory",
             NEW before \in BOOLEAN, before <=> (p \in pages /\ from # "count") \/ from = "uncount",
             NEW after \in BOOLEAN, after <=> (p \in pages' /\ to # "count") \/ to = "uncount",
             before <=> after => rss' = rss,
             ~before /\ after => rss' = rss + held[p].size,
             before /\ ~after => rss' = rss - held[p].size
      PROVE  LInv'
  <2>1. OthersStay(p) /\ held' = held /\ segments' = segments /\ size' = size
    BY <1>2, <1>4 DEF OthersStay, virtual, physical
  <2>2. to \in Backed => to \in Unlisted
    BY DEF Backed, Unlisted
  <2>3. PlacesFit'
    BY <1>1, <1>4, <2>1, <2>2, PlaceKeeps
  <2>4. RssFits'
    BY <1>1, <1>4, <2>1, RssKeeps
  <2> QED BY <2>3, <2>4 DEF LInv
<1>5. PICK t \in Threads :
        \/ \E p \in Pages, n \in Sizes : NewVirtual(t, p, n)
        \/ NewVirtualCut(t) \/ NewPhysical(t) \/ NewPhysicalFails(t)
        \/ Publish(t) \/ Count(t)
        \/ \E p \in Pages : Unlink(t, p)
        \/ Uncount(t) \/ FreeVirtual(t) \/ FreePhysical(t)
  BY DEF Next
<1>6. at[t] \in Pages
  BY <1>1 DEF ThreadsFit
<1>7. CASE \E p \in Pages, n \in Sizes : NewVirtual(t, p, n)
  <2>1. PICK p \in Pages, n \in Sizes : NewVirtual(t, p, n)
    BY <1>7
  <2>2. segments' = segments /\ size' = size /\ pages' = pages /\ rss' = rss
    BY <2>1 DEF NewVirtual, physical, maps
  <2>3. /\ held[p] = None /\ \A q \in Pages \ {p} : held'[q] = held[q]
        /\ \E to \in {"physical", "cut"} : Start(t, p, to) /\ (to = "cut" => held'[p] = None)
    <3>1. CASE V!TakeWhole(p, n) /\ Start(t, p, "physical")
      BY <1>1, <3>1, TakesWhole
    <3>2. CASE V!ReadPiece(p, n) /\ Start(t, p, "cut")
      BY <1>1, <3>2, ReadsPiece
    <3> QED BY <2>1, <3>1, <3>2 DEF NewVirtual
  <2>4. PICK to \in {"physical", "cut"} : Start(t, p, to) /\ (to = "cut" => held'[p] = None)
    BY <2>3
  <2>5. StepAt(t, p, "idle", to)
    BY <1>1, <2>4, StartsAt DEF Labels
  <2>6. p \notin pages /\ segments[p] = <<>>
    BY <1>1, <2>3, <2>5, PlaceTells DEF Backed, Unlisted
  <2> QED BY <1>3, <2>2, <2>3, <2>4, <2>5, <2>6 DEF Unlisted, Backed
<1>8. CASE NewVirtualCut(t)
  <2>1. Move(t, "cut", "physical") /\ at' = at /\ V!CutPiece(at[t])
        /\ segments' = segments /\ size' = size /\ pages' = pages /\ rss' = rss
    BY <1>8 DEF NewVirtualCut, physical, maps
  <2>2. StepAt(t, at[t], "cut", "physical")
    BY <1>1, <2>1, GoesOnAt DEF Labels
  <2>3. held[at[t]] = None /\ \A q \in Pages \ {at[t]} : held'[q] = held[q]
    BY <1>1, <1>6, <2>1, CutsPiece
  <2>4. at[t] \notin pages /\ segments[at[t]] = <<>>
    BY <1>1, <1>6, <2>2, <2>3, PlaceTells DEF Backed, Unlisted
  <2> QED BY <1>3, <1>6, <2>1, <2>2, <2>3, <2>4 DEF Unlisted, Backed
<1>9. CASE NewPhysical(t)
  <2>1. /\ Move(t, "physical", "publish") /\ at' = at /\ P!Allocate(at[t], SizeOf(t))
        /\ held' = held /\ pages' = pages /\ rss' = rss
    BY <1>9 DEF NewPhysical, virtual, maps
  <2>2. StepAt(t, at[t], "physical", "publish")
    BY <1>1, <2>1, GoesOnAt DEF Labels
  <2>3. held[at[t]] # None /\ at[t] \notin pages
    BY <1>1, <1>6, <2>2, PlaceTells DEF Unlisted
  <2>4. SizeOf(t) = held[at[t]].size /\ SizeOf(t) \in Nat /\ SizeOf(t) >= 1
    <3>1. held[at[t]] \in Pieces
      BY <1>1, <1>6, <2>3 DEF VInv, HeldFits
    <3> QED BY <3>1, PieceFields DEF SizeOf
  <2>5. /\ size'[at[t]] = held[at[t]].size
        /\ \A q \in Pages \ {at[t]} : segments'[q] = segments[q] /\ size'[q] = size[q]
    <3>1. /\ size'[at[t]] = SizeOf(t)
          /\ \A q \in Pages \ {at[t]} : segments'[q] = segments[q] /\ size'[q] = size[q]
      BY <1>6, <2>1, <2>4, Allocates
    <3> QED BY <2>4, <3>1
  <2> QED BY <1>3, <1>6, <2>1, <2>2, <2>3, <2>5 DEF Unlisted, Backed
<1>10. CASE NewPhysicalFails(t)
  <2>1. /\ Move(t, "physical", "idle") /\ at' = at /\ V!Free(at[t])
        /\ segments' = segments /\ size' = size /\ pages' = pages /\ rss' = rss
    BY <1>10 DEF NewPhysicalFails, physical, maps
  <2>2. StepAt(t, at[t], "physical", "idle")
    BY <1>1, <2>1, GoesOnAt DEF Labels
  <2>3. at[t] \notin pages /\ segments[at[t]] = <<>>
    BY <1>1, <1>6, <2>2, PlaceTells DEF Unlisted, Backed
  <2>4. held'[at[t]] = None /\ \A q \in Pages \ {at[t]} : held'[q] = held[q]
    BY <1>1, <1>6, <2>1, Frees
  <2> QED BY <1>3, <1>6, <2>1, <2>2, <2>3, <2>4 DEF Unlisted, Backed
<1>11. CASE Publish(t)
  <2>1. /\ Move(t, "publish", "count") /\ at' = at /\ UNCHANGED virtual /\ UNCHANGED physical
        /\ pages' = pages \cup {at[t]} /\ rss' = rss
    BY <1>11 DEF Publish
  <2>2. StepAt(t, at[t], "publish", "count")
    BY <1>1, <2>1, GoesOnAt DEF Labels
  <2>3. held[at[t]] # None /\ at[t] \notin pages /\ size[at[t]] = held[at[t]].size
    BY <1>1, <1>6, <2>2, PlaceTells DEF Unlisted, Backed
  <2>4. IsFiniteSet(pages')
    BY <1>1, <2>1, FS_AddElement
  <2> DEFINE no == FALSE
  <2>5. /\ no \in BOOLEAN /\ ~no
        /\ (no <=> (at[t] \in pages /\ "publish" # "count") \/ "publish" = "uncount")
        /\ (no <=> (at[t] \in pages' /\ "count" # "count") \/ "count" = "uncount")
    BY <2>3
  <2> HIDE DEF no
  <2> QED BY <1>4, <1>6, <2>1, <2>2, <2>3, <2>4, <2>5
<1>12. CASE Count(t)
  <2>1. /\ Move(t, "count", "idle") /\ at' = at /\ UNCHANGED virtual /\ UNCHANGED physical
        /\ pages' = pages /\ rss' = rss + held[at[t]].size
    BY <1>12 DEF Count, maps, SizeOf
  <2>2. StepAt(t, at[t], "count", "idle")
    BY <1>1, <2>1, GoesOnAt DEF Labels
  <2>3. held[at[t]] # None /\ at[t] \in pages /\ size[at[t]] = held[at[t]].size
    BY <1>1, <1>6, <2>2, PlaceTells
  <2> DEFINE no == FALSE
             yes == TRUE
  <2>5. /\ no \in BOOLEAN /\ ~no /\ yes \in BOOLEAN /\ yes
        /\ (no <=> (at[t] \in pages /\ "count" # "count") \/ "count" = "uncount")
        /\ (yes <=> (at[t] \in pages' /\ "idle" # "count") \/ "idle" = "uncount")
    BY <2>1, <2>3
  <2> HIDE DEF no, yes
  <2> QED BY <1>1, <1>4, <1>6, <2>1, <2>2, <2>3, <2>5
<1>13. CASE \E p \in Pages : Unlink(t, p)
  <2>1. PICK p \in Pages : Unlink(t, p)
    BY <1>13
  <2>2. /\ Start(t, p, "uncount") /\ UNCHANGED virtual /\ UNCHANGED physical
        /\ p \in pages /\ pages' = pages \ {p} /\ rss' = rss
    BY <2>1 DEF Unlink
  <2>3. StepAt(t, p, "idle", "uncount")
    BY <1>1, <2>2, StartsAt DEF Labels
  <2>4. held[p] # None /\ size[p] = held[p].size
    BY <1>1, <2>2, <2>3, PlaceTells
  <2>5. IsFiniteSet(pages')
    BY <1>1, <2>2, FS_RemoveElement
  <2> DEFINE yes == TRUE
  <2>6. /\ yes \in BOOLEAN /\ yes
        /\ (yes <=> (p \in pages /\ "idle" # "count") \/ "idle" = "uncount")
        /\ (yes <=> (p \in pages' /\ "uncount" # "count") \/ "uncount" = "uncount")
    BY <2>2
  <2>7. "uncount" \in Backed
    BY DEF Backed
  <2> HIDE DEF yes
  <2> QED BY <1>4, <2>2, <2>3, <2>4, <2>5, <2>6, <2>7
<1>14. CASE Uncount(t)
  <2>1. /\ Move(t, "uncount", "addresses") /\ at' = at /\ UNCHANGED virtual /\ UNCHANGED physical
        /\ pages' = pages /\ rss' = rss - held[at[t]].size
    BY <1>14 DEF Uncount, maps, SizeOf
  <2> DEFINE from == "uncount"
             to == "addresses"
             no == FALSE
             yes == TRUE
  <2>2. StepAt(t, at[t], from, to)
    BY <1>1, <2>1, GoesOnAt DEF Labels
  <2>3. held[at[t]] # None /\ at[t] \notin pages /\ size[at[t]] = held[at[t]].size
    BY <1>1, <1>6, <2>2, PlaceTells DEF Unlisted, Backed
  <2>4. /\ no \in BOOLEAN /\ ~no /\ yes \in BOOLEAN /\ yes
        /\ (yes <=> (at[t] \in pages /\ from # "count") \/ from = "uncount")
        /\ (no <=> (at[t] \in pages' /\ to # "count") \/ to = "uncount")
    BY <2>1, <2>3
  <2>5. to \in Backed /\ to # "count" /\ to # "memory"
    BY DEF Backed
  <2>6. IsFiniteSet(pages') /\ \A q \in Pages \ {at[t]} : q \in pages' <=> q \in pages
    BY <1>1, <2>1
  <2> HIDE DEF no, yes, from, to
  <2> QED BY <1>4, <1>6, <2>1, <2>2, <2>3, <2>4, <2>5, <2>6
<1>15. CASE FreeVirtual(t)
  <2>1. /\ Move(t, "addresses", "memory") /\ at' = at /\ V!Free(at[t])
        /\ segments' = segments /\ size' = size /\ pages' = pages /\ rss' = rss
    BY <1>15 DEF FreeVirtual, physical, maps
  <2>2. StepAt(t, at[t], "addresses", "memory")
    BY <1>1, <2>1, GoesOnAt DEF Labels
  <2>3. at[t] \notin pages
    BY <1>1, <1>6, <2>2, PlaceTells DEF Unlisted
  <2>4. held'[at[t]] = None /\ \A q \in Pages \ {at[t]} : held'[q] = held[q]
    BY <1>1, <1>6, <2>1, Frees
  <2> QED BY <1>3, <1>6, <2>1, <2>2, <2>3, <2>4 DEF Unlisted, Backed
<1>16. CASE FreePhysical(t)
  <2>1. /\ Move(t, "memory", "idle") /\ at' = at /\ P!Free(at[t])
        /\ held' = held /\ pages' = pages /\ rss' = rss
    BY <1>16 DEF FreePhysical, virtual, maps
  <2>2. StepAt(t, at[t], "memory", "idle")
    BY <1>1, <2>1, GoesOnAt DEF Labels
  <2>3. at[t] \notin pages /\ held[at[t]] = None
    BY <1>1, <1>6, <2>2, PlaceTells DEF Unlisted
  <2>4. /\ segments'[at[t]] = <<>>
        /\ \A q \in Pages \ {at[t]} : segments'[q] = segments[q] /\ size'[q] = size[q]
    BY <1>6, <2>1, FreesMemory
  <2> QED BY <1>3, <1>6, <2>1, <2>2, <2>3, <2>4 DEF Unlisted, Backed
<1> QED BY <1>5, <1>7, <1>8, <1>9, <1>10, <1>11, <1>12, <1>13, <1>14, <1>15, <1>16

LEMMA InitLInv == Init => LInv
<1> SUFFICES ASSUME Init PROVE LInv
  OBVIOUS
<1>1. /\ pages = {} /\ rss = 0 /\ pc = [t \in Threads |-> "idle"]
      /\ held = [p \in Pages |-> None] /\ segments = [p \in Pages |-> <<>>]
  BY DEF Init, V!Init, P!Init
<1>2. \A p, labels : "idle" \notin labels => ~Has(p, labels)
  BY <1>1 DEF Has
<1>3. Counted = {}
  BY <1>1, <1>2 DEF Counted
<1>4. PlacesFit
  BY <1>1, <1>2 DEF PlacesFit, Backed
<1>5. RssFits
  <2>1. UNION {Units(held[p]) : p \in Counted} = {}
    BY <1>3
  <2> QED BY <1>1, <1>3, <2>1, FS_EmptySet DEF RssFits
<1> QED BY <1>4, <1>5 DEF LInv

\* When all threads are idle, the two lists and the pages are all there is.
LEMMA AllIsThere == IInv /\ PInv /\ AddressesCovered /\ LInv => NothingLeaks
<1> SUFFICES ASSUME IInv, PInv, AddressesCovered, LInv, Quiet
             PROVE  LET inPages == SizesOf(held, pages) IN
                    /\ TotalSize(free) + inPages = Addresses
                    /\ unused + inPages = Memory
                    /\ rss = inPages
  BY DEF NothingLeaks, SizesOf
<1> DEFINE A == UNION {Units(held[p]) : p \in pages}
           F == [p \in pages |-> Covered(segments[p])]
           B == Together(F, pages)
<1>1. /\ VInv /\ RangesFit /\ PlacesFit /\ RssFits /\ pages \in SUBSET Pages /\ IsFiniteSet(pages)
      /\ free \in Seq(Pieces) /\ Sorted(free) /\ memory \in Seq(Pieces) /\ Sorted(memory)
      /\ unused = TotalSize(memory)
      /\ \A p \in pages : held[p] # None
  BY DEF IInv, LInv, RssFits, MapsFit, VInv, FreeFits, PInv, MemoryFits, RangesFit
<1>2. /\ segments \in [Pages -> Seq(Pieces)]
      /\ \A q \in Pages : /\ Sorted(segments[q]) /\ size[q] = TotalSize(segments[q])
                          /\ OffAll(segments[q], memory)
      /\ \A q, r \in Pages : q # r => OffAll(segments[q], segments[r])
  BY DEF PInv, SegmentsFit
<1>3. \A p, labels : "idle" \notin labels => ~Has(p, labels)
  BY DEF Has, Quiet
<1>4. \A p \in Pages : /\ held[p] # None <=> p \in pages
                       /\ segments[p] # <<>> => p \in pages
                       /\ p \in pages => size[p] = held[p].size
                       /\ p \in Counted <=> p \in pages
  <2>1. "idle" \notin Unlisted /\ "idle" \notin Backed
    BY DEF Unlisted, Backed
  <2> QED BY <1>1, <1>3, <2>1 DEF PlacesFit, Counted
<1>5. Counted = pages
  BY <1>1, <1>4 DEF Counted
<1>6. IsFiniteSet(A) /\ SizesOf(held, pages) = Cardinality(A) /\ Cardinality(A) \in Nat
  BY <1>1, PagesAddUp, FS_CardinalityType
<1>7. rss = Cardinality(A)
  BY <1>1, <1>5 DEF RssFits
<1>8. IsFiniteSet(Covered(free)) /\ TotalSize(free) = Cardinality(Covered(free))
  BY <1>1, TotalIsCovered
<1>9. Covered(free) \cup A = 0 .. Addresses - 1
  BY <1>1, <1>4 DEF AddressesCovered
<1>10. Covered(free) \cap A = {}
  <2> SUFFICES ASSUME NEW g, g \in Covered(free), NEW p \in pages, g \in Units(held[p]) PROVE FALSE
    OBVIOUS
  <2>1. PICK i \in 1 .. Len(free) : g \in Units(free[i])
    BY InCovered
  <2>2. held[p] \in Pieces /\ OffList(held[p], free)
    BY <1>1 DEF VInv, HeldFits
  <2>3. Apart(held[p], free[i]) /\ free[i] \in Pieces
    BY <1>1, <2>2 DEF OffList
  <2> QED BY <2>1, <2>2, <2>3, ApartMeansDisjoint
<1> HIDE DEF A
<1>11. TotalSize(free) + Cardinality(A) = Addresses
  <2>1. Cardinality(Covered(free) \cup A) = Cardinality(Covered(free)) + Cardinality(A)
    BY <1>6, <1>8, <1>10, CountBoth
  <2>2. Addresses \in Nat /\ Addresses >= 1
    BY PageMemoryAssumption
  <2>3. Cardinality(0 .. Addresses - 1) = Addresses
    BY <2>2, FS_Interval
  <2> QED BY <1>8, <1>9, <2>1, <2>3
<1>12. ASSUME NEW p \in pages
       PROVE  /\ IsFiniteSet(F[p]) /\ held[p].size = Cardinality(F[p])
              /\ F[p] \cap Covered(memory) = {}
  <2>1. segments[p] \in Seq(Pieces) /\ Sorted(segments[p]) /\ held[p].size = TotalSize(segments[p])
        /\ OffAll(segments[p], memory)
    BY <1>1, <1>2, <1>4
  <2>2. Covered(segments[p]) \cap Covered(memory) = {}
    BY <1>1, <2>1, CoversApart DEF OffAll
  <2> QED BY <2>1, <2>2, TotalIsCovered
<1>13. ASSUME NEW p \in pages, NEW q \in pages, p # q PROVE F[p] \cap F[q] = {}
  <2>1. segments[p] \in Seq(Pieces) /\ segments[q] \in Seq(Pieces) /\ OffAll(segments[p], segments[q])
    BY <1>1, <1>2, <1>13
  <2>2. Covered(segments[p]) \cap Covered(segments[q]) = {}
    BY <2>1, CoversApart DEF OffAll
  <2> QED BY <2>2
<1>14. \A g : g \in B <=> \E p \in pages : g \in Covered(segments[p])
  BY DEF Together
<1>15. Covered(memory) \cap B = {}
  BY <1>12, <1>14
<1>16. Covered(memory) \cup B = 0 .. Memory - 1
  <2>1. Covered(<<>>) = {}
    BY DEF Covered
  <2>2. ASSUME NEW g PROVE g \in 0 .. Memory - 1 <=> g \in Covered(memory) \/ g \in B
    <3>1. g \in 0 .. Memory - 1 <=>
            g \in Covered(memory) \/ \E p \in Pages : g \in Covered(segments[p])
      BY DEF PInv, MemoryCovered
    <3> QED BY <1>1, <1>4, <1>14, <2>1, <3>1
  <2> QED BY <2>2
<1> HIDE DEF F
<1>17. IsFiniteSet(B) /\ SizesOf(held, pages) = Cardinality(B)
  BY <1>1, <1>12, <1>13, SumIsCovered
<1> HIDE DEF B
<1>18. unused + Cardinality(B) = Memory
  <2>1. IsFiniteSet(Covered(memory)) /\ unused = Cardinality(Covered(memory))
    BY <1>1, TotalIsCovered
  <2>2. Cardinality(Covered(memory) \cup B) = Cardinality(Covered(memory)) + Cardinality(B)
    BY <1>15, <1>17, <2>1, CountBoth
  <2>3. Memory \in Nat /\ Memory >= 1
    BY PageMemoryAssumption
  <2>4. Cardinality(0 .. Memory - 1) = Memory
    BY <2>3, FS_Interval
  <2> QED BY <1>16, <2>1, <2>2, <2>4
<1> QED BY <1>6, <1>7, <1>11, <1>17, <1>18

\* A page that could not be made, or was freed, gave everything back: when no
\* thread is at work the two lists, the pages and the resident size add up
\* (ygc_page_new's failure path, ygc_page_free), for any number of threads and
\* pages and any sizes, while one thread at a time is in the manager of the
\* addresses and no page is large.
THEOREM NothingGetsLost == OneAtATime => (Spec => []NothingLeaks)
<1> SUFFICES ASSUME OneAtATime PROVE Spec => []NothingLeaks
  OBVIOUS
<1> DEFINE I == IInv /\ PInv /\ AsksFit /\ AddressesCovered /\ LInv
<1>1. Init => I
  BY InitIInv, InitPInv, InitAsksFit, InitAddressesCovered, InitLInv
<1>2. I /\ [Next]_vars => I'
  <2> SUFFICES ASSUME I, [Next]_vars PROVE I'
    OBVIOUS
  <2>1. IInv' /\ PInv' /\ AsksFit'
    BY NextIInv, NextPInv, NextAsksFit
  <2>2. AddressesCovered'
    BY NextAddressesCovered DEF IInv, ThreadsFit
  <2>3. LInv'
    <3>1. CASE UNCHANGED vars
      BY <3>1 DEF vars, virtual, physical, maps, LInv, PlacesFit, RssFits, Counted, Has
    <3>2. CASE Next
      BY <3>2, NextLInv
    <3> QED BY <3>1, <3>2
  <2> QED BY <2>1, <2>2, <2>3
<1>3. I => NothingLeaks
  BY AllIsThere
<1> HIDE DEF I
<1> QED BY <1>1, <1>2, <1>3, PTL DEF Spec
=============================================================================
