---------------------------- MODULE ParSortProofs ----------------------------
(***************************************************************************)
(* The inductive invariant of ParSort, for files of any size, any words    *)
(* and any threshold, in three layers.  Shape: which processes there are,  *)
(* a tree of segments in which nothing overlaps, and where each one is.    *)
(* Ends: what is true of a process that has finished, and of its           *)
(* descendants.  Data: what the array holds, until a process strays.       *)
(***************************************************************************)
EXTENDS ParSort, FiniteSetTheorems, WellFoundedInduction, TLAPS

-----------------------------------------------------------------------------
(* Numbers and sets *)

\* A function with a finite domain takes a largest value,
LEMMA ArgMax ==
    ASSUME NEW S, IsFiniteSet(S), S # {}, NEW f \in [S -> Int]
    PROVE  \E m \in S : \A x \in S : f[m] >= f[x]
  <1> DEFINE Above(x) == {z \in S : f[z] > f[x]}
             R == StrictSubsetOrdering(S)
             T == {A \in SUBSET S : \E x \in S : A = Above(x)}
  <1>1. IsWellFoundedOn(R, FiniteSubsetsOf(S))
    BY FS_StrictSubsetOrderingWellFounded
  <1>2. FiniteSubsetsOf(S) = SUBSET S
    BY FS_FiniteSubsetsOfFinite
  <1>3. \A x \in S : Above(x) \in T
    OBVIOUS
  <1>4. T \subseteq FiniteSubsetsOf(S) /\ T # {}
    BY <1>2, <1>3
  <1>5. PICK A \in T : \A B \in T : ~(<<B, A>> \in R)
    <2> HIDE DEF T, R
    <2> QED BY <1>1, <1>4, WFMin
  <1>6. PICK m \in S : A = Above(m)
    BY <1>5
  <1>7. ASSUME NEW x \in S, f[x] > f[m] PROVE FALSE
    <2>1. x \in Above(m) /\ x \notin Above(x)
      BY <1>7
    <2>2. \A z \in S : f[z] > f[x] => f[z] > f[m]
      BY <1>7
    <2>3. Above(x) \subseteq Above(m)
      BY <2>2
    <2>4. <<Above(x), Above(m)>> \in R
      BY <2>1, <2>3 DEF StrictSubsetOrdering
    <2> QED BY <2>4, <1>3, <1>5, <1>6
  <1>8. \A x \in S : ~(f[x] > f[m])
    BY <1>7
  <1> QED BY <1>8

\* and a least one.
LEMMA ArgMin ==
    ASSUME NEW S, IsFiniteSet(S), S # {}, NEW f \in [S -> Int]
    PROVE  \E m \in S : \A x \in S : f[m] <= f[x]
  <1> DEFINE g == [x \in S |-> 0 - f[x]]
  <1>1. g \in [S -> Int] /\ \A x \in S : g[x] = 0 - f[x]
    OBVIOUS
  <1> HIDE DEF g
  <1>2. PICK m \in S : \A x \in S : g[m] >= g[x]
    BY <1>1, ArgMax
  <1>3. \A x \in S : f[m] <= f[x]
    BY <1>1, <1>2
  <1> QED BY <1>3

\* The largest number of a set is what Max says.
LEMMA MaxIsLargest ==
    ASSUME NEW S \in SUBSET Int, IsFiniteSet(S), S # {}
    PROVE  Max(S) \in S /\ \A x \in S : x <= Max(S)
  <1> DEFINE f == [x \in S |-> x]
  <1>1. f \in [S -> Int] /\ \A x \in S : f[x] = x
    OBVIOUS
  <1> HIDE DEF f
  <1>2. PICK m \in S : \A x \in S : f[m] >= f[x]
    BY <1>1, ArgMax
  <1>3. \E x \in S : \A y \in S : x >= y
    BY <1>1, <1>2
  <1>4. Max(S) \in S /\ \A y \in S : Max(S) >= y
    BY <1>3 DEF Max
  <1> QED BY <1>4

\* MaxElements bounds the elements of every file.
LEMMA MaxElementsIsNat ==
    /\ MaxElements \in Nat
    /\ \A b \in FileSizes : b \div WordSize \in 0..MaxElements
  <1> DEFINE C == {b \div WordSize : b \in FileSizes}
             largest == Max(FileSizes)
  <1>1. largest \in Nat /\ \A b \in FileSizes : b <= largest
    <2>1. FileSizes \in SUBSET Int
      BY SortAssumption
    <2>2. largest \in FileSizes /\ \A b \in FileSizes : b <= largest
      BY <2>1, SortAssumption, MaxIsLargest
    <2> QED BY <2>2, SortAssumption
  <1>2. C \in SUBSET Nat /\ C \in SUBSET Int /\ C # {}
    <2>1. \A b \in FileSizes : b \div WordSize \in Nat
      BY SortAssumption DEF WordSize
    <2>2. C # {}
      BY SortAssumption
    <2>3. C \in SUBSET Nat
      BY <2>1
    <2> HIDE DEF C
    <2> QED BY <2>2, <2>3
  <1>3. \A c \in C : c <= largest
    <2>1. \A b \in FileSizes : b \div WordSize <= largest
      BY <1>1, SortAssumption DEF WordSize
    <2> QED BY <2>1
  <1>4. IsFiniteSet(C)
    BY <1>1, <1>2, <1>3, FS_BoundedSetOfNaturals
  <1>5. Max(C) \in C /\ \A c \in C : c <= Max(C)
    <2> HIDE DEF C
    <2> QED BY <1>2, <1>4, MaxIsLargest
  <1> QED BY <1>2, <1>5 DEF MaxElements

-----------------------------------------------------------------------------
(* The tree of processes *)

Started(p)   == pc[p] # "none"
Within(q, p) == Inside(q, p) /\ q # p
Apart(p, q)  == p[2] < q[1] \/ q[2] < p[1]
Split(p)     == loc[p].mid \in Indices(p)
Childless    == {"start", "enter", "loop", "forkLeft"}

Nested ==
    \A p, q \in Segments : Started(p) /\ Started(q) =>
        Inside(p, q) \/ Inside(q, p) \/ Apart(p, q)
Rooted == \A p \in Segments : Started(p) => Inside(p, Root)
Descent ==
    \A p, q \in Segments : Started(p) /\ Started(q) /\ Within(q, p) =>
        /\ Split(p)
        /\ pc[p] \notin Childless
        /\ \/ Inside(q, LeftOf(p)) /\ Started(LeftOf(p))
           \/ /\ Inside(q, RightOf(p)) /\ Started(RightOf(p))
              /\ pc[p] \notin {"forkRight", "waitLeftOnly"}

Tree == Nested /\ Rooted /\ Descent

\* A segment is a pair of indices of the largest file, in order.
LEMMA SegmentFacts ==
    /\ \A p \in Segments : /\ p[1] \in Nat /\ p[2] \in Nat /\ p[1] <= p[2]
                           /\ p[2] <= MaxElements /\ p = <<p[1], p[2]>>
    /\ \A i, j \in Nat : i <= j /\ j <= MaxElements => <<i, j>> \in Segments
  BY MaxElementsIsNat DEF Segments

\* Segments that contain each other are the same.
LEMMA InsideBoth ==
    ASSUME NEW p \in Segments, NEW q \in Segments, Inside(p, q), Inside(q, p)
    PROVE  p = q
  BY SegmentFacts DEF Inside

\* The parts of a segment that has been split are segments of their own.
LEMMA Children ==
    ASSUME NEW p \in Segments, Split(p)
    PROVE  /\ LeftOf(p) \in Segments /\ RightOf(p) \in Segments
           /\ loc[p].mid \in Nat
           /\ LeftOf(p)[1] = p[1] /\ LeftOf(p)[2] = loc[p].mid
           /\ RightOf(p)[1] = loc[p].mid + 1 /\ RightOf(p)[2] = p[2]
           /\ Within(LeftOf(p), p) /\ Within(RightOf(p), p)
           /\ loc[p].mid < p[2] /\ p[1] <= loc[p].mid
  <1>1. p[1] \in Nat /\ p[2] \in Nat /\ p[2] <= MaxElements
    BY SegmentFacts
  <1>2. loc[p].mid \in Nat /\ p[1] <= loc[p].mid /\ loc[p].mid + 1 <= p[2]
    BY <1>1 DEF Split, Indices
  <1>3. /\ LeftOf(p)[1] = p[1] /\ LeftOf(p)[2] = loc[p].mid
        /\ RightOf(p)[1] = loc[p].mid + 1 /\ RightOf(p)[2] = p[2]
    BY DEF LeftOf, RightOf
  <1>4. LeftOf(p) \in Segments /\ RightOf(p) \in Segments
    BY <1>1, <1>2, MaxElementsIsNat, SegmentFacts DEF LeftOf, RightOf
  <1>5. Within(LeftOf(p), p) /\ Within(RightOf(p), p)
    BY <1>1, <1>2, <1>3 DEF Within, Inside
  <1> QED BY <1>1, <1>2, <1>3, <1>4, <1>5

\* A step of p that starts no process: what it has no descendants for it may do,
\* and once it has some, mid stays.
MovesOn(p) ==
    /\ num_elements' = num_elements
    /\ \A q \in Segments \ {p} : pc'[q] = pc[q] /\ loc'[q] = loc[q]
    /\ Started(p) /\ pc'[p] # "none"
    /\ \/ pc[p] \in Childless
       \/ /\ loc'[p].mid = loc[p].mid
          /\ pc'[p] \notin Childless
          /\ pc'[p] \in {"forkRight", "waitLeftOnly"} =>
                pc[p] \in {"forkRight", "waitLeftOnly"}

\* A step that starts no process keeps the tree,
LEMMA MovesOnKeepsTree ==
    ASSUME Tree, NEW p \in Segments, MovesOn(p)
    PROVE  Tree'
  <1> USE DEF MovesOn
  <1>1. \A q \in Segments : Started(q)' <=> Started(q)
    BY DEF Started
  <1>2. Nested'
    BY <1>1 DEF Tree, Nested, Inside, Apart
  <1>3. Rooted'
    BY <1>1 DEF Tree, Rooted, Inside, Root
  <1>4. Descent'
    <2> SUFFICES ASSUME NEW r \in Segments, NEW q \in Segments,
                        Started(r)', Started(q)', Within(q, r)
                 PROVE  /\ Split(r)'
                        /\ pc'[r] \notin Childless
                        /\ \/ Inside(q, LeftOf(r)') /\ Started(LeftOf(r))'
                           \/ /\ Inside(q, RightOf(r)') /\ Started(RightOf(r))'
                              /\ pc'[r] \notin {"forkRight", "waitLeftOnly"}
      BY DEF Descent, Within, Inside
    <2>1. /\ Split(r)
          /\ pc[r] \notin Childless
          /\ \/ Inside(q, LeftOf(r)) /\ Started(LeftOf(r))
             \/ /\ Inside(q, RightOf(r)) /\ Started(RightOf(r))
                /\ pc[r] \notin {"forkRight", "waitLeftOnly"}
      BY <1>1 DEF Tree, Descent
    <2>2. /\ loc'[r].mid = loc[r].mid /\ pc'[r] \notin Childless
          /\ pc'[r] \in {"forkRight", "waitLeftOnly"} =>
                pc[r] \in {"forkRight", "waitLeftOnly"}
      BY <2>1
    <2>3. Split(r)' /\ LeftOf(r)' = LeftOf(r) /\ RightOf(r)' = RightOf(r)
      BY <2>1, <2>2 DEF Split, Indices, LeftOf, RightOf
    <2>4. LeftOf(r) \in Segments /\ RightOf(r) \in Segments
      BY <2>1, Children
    <2>5. Started(LeftOf(r))' <=> Started(LeftOf(r))
      BY <2>3, <2>4, <1>1 DEF Started
    <2>6. Started(RightOf(r))' <=> Started(RightOf(r))
      BY <2>3, <2>4, <1>1 DEF Started
    <2> QED BY <2>1, <2>2, <2>3, <2>5, <2>6
  <1> QED BY <1>2, <1>3, <1>4 DEF Tree

\* What is started when a process forks: nothing within the new segment, and
\* whatever it is part of contains the parent.
Unborn(p, c) ==
    /\ c \in Segments /\ Within(c, p)
    /\ \A q \in Segments : Inside(q, c) => ~Started(q)
    /\ \A q \in Segments : Started(q) =>
          \/ q = p \/ Within(p, q) \/ Apart(q, c)

\* Nothing has been started in the left part before the process forks for it,
LEMMA LeftIsUnborn ==
    ASSUME Tree, NEW p \in Segments, pc[p] = "forkLeft", Split(p)
    PROVE  Unborn(p, LeftOf(p))
  <1>1. Started(p) /\ pc[p] \in Childless
    BY DEF Started, Childless
  <1>2. LeftOf(p) \in Segments /\ Within(LeftOf(p), p)
    BY Children
  <1>3. ASSUME NEW q \in Segments, Within(q, p) PROVE ~Started(q)
    BY <1>1, <1>3 DEF Tree, Descent
  <1>4. ASSUME NEW q \in Segments, Inside(q, LeftOf(p)) PROVE ~Started(q)
    <2>1. Within(q, p)
      BY <1>2, <1>4, SegmentFacts, InsideBoth DEF Within, Inside
    <2> QED BY <2>1, <1>3
  <1>5. ASSUME NEW q \in Segments, Started(q)
        PROVE  q = p \/ Within(p, q) \/ Apart(q, LeftOf(p))
    <2>1. Inside(p, q) \/ Inside(q, p) \/ Apart(p, q)
      BY <1>1, <1>5 DEF Tree, Nested
    <2>2. CASE Apart(p, q)
      BY <2>2, <1>2, SegmentFacts DEF Apart, Within, Inside
    <2>3. CASE Inside(q, p)
      BY <2>3, <1>3, <1>5 DEF Within
    <2> QED BY <2>1, <2>2, <2>3 DEF Within
  <1> QED BY <1>2, <1>4, <1>5 DEF Unborn

\* nor in the right part: what is below the process is in the left one.
LEMMA RightIsUnborn ==
    ASSUME Tree, NEW p \in Segments, pc[p] = "forkRight", Split(p)
    PROVE  Unborn(p, RightOf(p))
  <1>1. Started(p)
    BY DEF Started
  <1>2. /\ LeftOf(p) \in Segments /\ Within(LeftOf(p), p)
        /\ RightOf(p) \in Segments /\ Within(RightOf(p), p)
        /\ LeftOf(p)[2] < RightOf(p)[1]
    BY Children
  <1>3. ASSUME NEW q \in Segments, Within(q, p), Started(q)
        PROVE  Inside(q, LeftOf(p))
    BY <1>1, <1>3 DEF Tree, Descent
  <1>4. ASSUME NEW q \in Segments, Inside(q, RightOf(p)) PROVE ~Started(q)
    <2>1. Within(q, p)
      BY <1>2, <1>4, SegmentFacts, InsideBoth DEF Within, Inside
    <2>2. ~Inside(q, LeftOf(p))
      BY <1>2, <1>4, SegmentFacts DEF Inside
    <2> QED BY <2>1, <2>2, <1>3
  <1>5. ASSUME NEW q \in Segments, Started(q)
        PROVE  q = p \/ Within(p, q) \/ Apart(q, RightOf(p))
    <2>1. Inside(p, q) \/ Inside(q, p) \/ Apart(p, q)
      BY <1>1, <1>5 DEF Tree, Nested
    <2>2. CASE Apart(p, q)
      BY <2>2, <1>2, SegmentFacts DEF Apart, Within, Inside
    <2>3. CASE Within(q, p)
      BY <2>3, <1>2, <1>3, <1>5, SegmentFacts DEF Apart, Within, Inside
    <2> QED BY <2>1, <2>2, <2>3 DEF Within
  <1> QED BY <1>2, <1>4, <1>5 DEF Unborn

\* A fork by p of c, that is LeftOf(p) or RightOf(p).
Forks(p, c) ==
    /\ num_elements' = num_elements /\ loc' = loc
    /\ \A q \in Segments \ {p, c} : pc'[q] = pc[q]
    /\ Started(p) /\ Started(p)' /\ Started(c)'
    /\ pc'[p] \notin Childless
    /\ Split(p)
    /\ \/ c = LeftOf(p) /\ pc[p] = "forkLeft"
       \/ c = RightOf(p) /\ pc'[p] \notin {"forkRight", "waitLeftOnly"}

\* and so does a fork of an unborn segment.
LEMMA ForksKeepsTree ==
    ASSUME Tree, NEW p \in Segments, NEW c \in Segments, Forks(p, c), Unborn(p, c),
           num_elements \in Nat
    PROVE  Tree'
  <1>1. \A q \in Segments : Started(q)' <=> Started(q) \/ q = c
    BY DEF Forks, Started
  <1>2. Inside(c, p) /\ c # p /\ c \in Segments
    BY DEF Unborn, Within
  <1>3. Nested'
    <2>1. ASSUME NEW q \in Segments, Started(q)
          PROVE  Inside(c, q) \/ Apart(q, c) \/ q = p
      BY <2>1, <1>2, SegmentFacts DEF Unborn, Within, Inside
    <2> QED BY <2>1, <1>1, <1>2, SegmentFacts DEF Tree, Nested, Apart, Inside
  <1>4. Rooted'
    <2>1. Inside(p, Root)
      BY DEF Tree, Rooted, Forks
    <2>2. Root' = Root
      BY DEF Forks, Root
    <2>3. Root[1] = 0 /\ Root[2] = num_elements
      BY DEF Root
    <2>4. Inside(c, Root)
      BY <2>1, <2>3, <1>2, SegmentFacts DEF Inside
    <2> QED BY <1>1, <2>2, <2>4 DEF Tree, Rooted, Inside
  <1>5. Descent'
    <2> SUFFICES ASSUME NEW r \in Segments, NEW q \in Segments,
                        Started(r)', Started(q)', Within(q, r)
                 PROVE  /\ Split(r)'
                        /\ pc'[r] \notin Childless
                        /\ \/ Inside(q, LeftOf(r)') /\ Started(LeftOf(r))'
                           \/ /\ Inside(q, RightOf(r)') /\ Started(RightOf(r))'
                              /\ pc'[r] \notin {"forkRight", "waitLeftOnly"}
      BY DEF Descent, Within, Inside
    <2>1. \A s \in Segments : /\ Split(s)' <=> Split(s) 
                              /\ LeftOf(s)' = LeftOf(s) /\ RightOf(s)' = RightOf(s)
      BY DEF Split, Indices, LeftOf, RightOf, Forks
    <2>2. \A s \in Segments : Started(s) => Started(s)'
      BY <1>1
    <2>3. r # c
      <3>1. ASSUME r = c PROVE FALSE
        <4>1. ~Started(q) /\ q # c
          BY <3>1 DEF Unborn, Within
        <4> QED BY <4>1, <1>1
      <3> QED BY <3>1
    <2>4. Started(r)
      BY <2>3, <1>1
    <2>5. CASE q = c
      <3>1. ~Apart(r, c)
        BY <2>5, SegmentFacts DEF Apart, Within, Inside
      <3>2. CASE r = p
        <4>1. Inside(c, c)
          BY SegmentFacts DEF Inside
        <4> QED BY <4>1, <3>2, <2>1, <2>5 DEF Forks, Started
      <3>3. CASE Within(p, r)
        <4>1. /\ Split(r) /\ pc[r] \notin Childless
              /\ \/ Inside(p, LeftOf(r)) /\ Started(LeftOf(r))
                 \/ /\ Inside(p, RightOf(r)) /\ Started(RightOf(r))
                    /\ pc[r] \notin {"forkRight", "waitLeftOnly"}
          BY <2>4, <3>3 DEF Tree, Descent, Forks
        <4>2. pc'[r] = pc[r]
          BY <2>3, <3>3 DEF Within, Forks
        <4>3. LeftOf(r) \in Segments /\ RightOf(r) \in Segments
          BY <4>1, Children
        <4>4. /\ Inside(p, LeftOf(r)) => Inside(c, LeftOf(r))
              /\ Inside(p, RightOf(r)) => Inside(c, RightOf(r))
          BY <1>2, <4>3, SegmentFacts DEF Inside
        <4>5. /\ Started(LeftOf(r)) => Started(LeftOf(r))'
              /\ Started(RightOf(r)) => Started(RightOf(r))'
          BY <4>3, <2>1, <2>2 DEF Started
        <4> QED BY <4>1, <4>2, <4>4, <4>5, <2>1, <2>5
      <3> QED BY <3>1, <3>2, <3>3, <2>4 DEF Unborn
    <2>6. CASE q # c
      <3>1. Started(q)
        BY <2>6, <1>1
      <3>2. /\ Split(r) /\ pc[r] \notin Childless
            /\ \/ Inside(q, LeftOf(r)) /\ Started(LeftOf(r))
               \/ /\ Inside(q, RightOf(r)) /\ Started(RightOf(r))
                  /\ pc[r] \notin {"forkRight", "waitLeftOnly"}
        BY <2>4, <3>1 DEF Tree, Descent
      <3>3. LeftOf(r) \in Segments /\ RightOf(r) \in Segments
        BY <3>2, Children
      <3>4. /\ Started(LeftOf(r)) => Started(LeftOf(r))'
            /\ Started(RightOf(r)) => Started(RightOf(r))'
        BY <3>3, <2>1, <2>2 DEF Started
      <3>5. CASE r # p
        <4>1. pc'[r] = pc[r]
          BY <3>5, <2>3 DEF Forks
        <4> QED BY <4>1, <3>2, <3>4, <2>1
      <3>6. CASE r = p
        <4>1. pc[p] # "forkLeft"
          BY <3>2, <3>6 DEF Childless
        <4>2. pc'[p] \notin Childless /\ pc'[p] \notin {"forkRight", "waitLeftOnly"}
          BY <4>1 DEF Forks
        <4> QED BY <4>2, <3>2, <3>4, <3>6, <2>1
      <3> QED BY <3>5, <3>6
    <2> QED BY <2>5, <2>6
  <1> QED BY <1>3, <1>4, <1>5 DEF Tree

-----------------------------------------------------------------------------
(* What qsort makes of a segment *)

Below(a, p, v) == {j \in Indices(p) : a[j] < v}
UpTo(a, p, v)  == {j \in Indices(p) : a[j] <= v}
Equal(a, p, v) == {j \in Indices(p) : a[j] = v}

\* What Qsorted takes for the k-th word of the segment.
Nth(a, p, k) ==
    CHOOSE v \in {a[j] : j \in Indices(p)} :
        Cardinality(Below(a, p, v)) <= k /\ k < Cardinality(UpTo(a, p, v))

Words(a, p) == \A j \in Indices(p) : a[j] \in Int

\* The words of Qsorted are the ones that Nth picks.
LEMMA QsortedIsNth ==
    ASSUME NEW a, NEW p
    PROVE  Qsorted(a, p) = [i \in DOMAIN a |->
               IF i \in Indices(p) THEN Nth(a, p, i - p[1]) ELSE a[i]]
  BY DEF Qsorted, Nth, Below, UpTo

\* A segment has Len indices.
LEMMA IndicesCount ==
    ASSUME NEW p \in Segments
    PROVE  /\ Indices(p) \subseteq Int /\ IsFiniteSet(Indices(p))
           /\ Cardinality(Indices(p)) = Len(p) /\ Len(p) \in Nat
  <1>1. p[1] \in Nat /\ p[2] \in Nat /\ p[1] <= p[2]
    BY DEF Segments
  <1>2. p[1] \in Int /\ p[2] - 1 \in Int
    BY <1>1
  <1>3. IsFiniteSet(p[1]..(p[2] - 1))
    BY <1>2, FS_Interval
  <1>4. Cardinality(p[1]..(p[2] - 1)) = IF p[1] > p[2] - 1 THEN 0 ELSE (p[2] - 1) - p[1] + 1
    BY <1>2, FS_Interval
  <1>5. Cardinality(p[1]..(p[2] - 1)) = Len(p) /\ Len(p) \in Nat
    BY <1>1, <1>4 DEF Len
  <1> QED BY <1>1, <1>3, <1>5 DEF Indices

\* Its words below a bound are counted by a number.
LEMMA Counts ==
    ASSUME NEW p \in Segments, NEW a, NEW v
    PROVE  /\ IsFiniteSet(Below(a, p, v)) /\ Cardinality(Below(a, p, v)) \in Nat
           /\ IsFiniteSet(UpTo(a, p, v)) /\ Cardinality(UpTo(a, p, v)) \in Nat
           /\ Cardinality(UpTo(a, p, v)) <= Len(p)
  <1>1. Below(a, p, v) \subseteq Indices(p) /\ UpTo(a, p, v) \subseteq Indices(p)
    BY DEF Below, UpTo
  <1>2. IsFiniteSet(Below(a, p, v)) /\ IsFiniteSet(UpTo(a, p, v))
        /\ Cardinality(UpTo(a, p, v)) <= Len(p)
    BY <1>1, IndicesCount, FS_Subset
  <1> QED BY <1>2, FS_CardinalityType

\* There is a k-th word: the largest one with at most k smaller ones.
LEMMA NthExists ==
    ASSUME NEW p \in Segments, NEW a, Words(a, p), NEW k \in 0..(Len(p) - 1)
    PROVE  /\ Nth(a, p, k) \in {a[j] : j \in Indices(p)}
           /\ Cardinality(Below(a, p, Nth(a, p, k))) <= k
           /\ k < Cardinality(UpTo(a, p, Nth(a, p, k)))
  <1> DEFINE f == [j \in Indices(p) |-> a[j]]
             J == {j \in Indices(p) : Cardinality(Below(a, p, a[j])) <= k}
  <1>1. f \in [Indices(p) -> Int] /\ \A j \in Indices(p) : f[j] = a[j]
    BY DEF Words
  <1> HIDE DEF f
  <1>2. Indices(p) # {}
    BY IndicesCount, FS_EmptySet
  <1>3. J # {}
    <2>1. PICK m \in Indices(p) : \A x \in Indices(p) : f[m] <= f[x]
      BY <1>1, <1>2, IndicesCount, ArgMin
    <2>2. Below(a, p, a[m]) = {}
      BY <2>1, <1>1 DEF Below
    <2>3. Cardinality(Below(a, p, a[m])) = 0
      BY <2>2, FS_EmptySet
    <2> QED BY <2>3
  <1>4. PICK m \in J : \A x \in J : a[m] >= a[x]
    <2> DEFINE g == [j \in J |-> a[j]]
    <2>1. g \in [J -> Int] /\ \A j \in J : g[j] = a[j]
      BY <1>1
    <2>2. IsFiniteSet(J)
      BY IndicesCount, FS_Subset
    <2> HIDE DEF g, J
    <2>3. PICK m \in J : \A x \in J : g[m] >= g[x]
      BY <2>1, <2>2, <1>3, ArgMax
    <2> QED BY <2>1, <2>3
  <1>5. k < Cardinality(UpTo(a, p, a[m]))
    <2> SUFFICES ASSUME ~(k < Cardinality(UpTo(a, p, a[m]))) PROVE FALSE
      OBVIOUS
    <2>0. Cardinality(UpTo(a, p, a[m])) <= k
      BY Counts
    <2> DEFINE K == {j \in Indices(p) : j \notin UpTo(a, p, a[m])}
               g == [j \in K |-> a[j]]
    <2>1. K # {}
      <3>1. ASSUME K = {} PROVE FALSE
        <4>1. UpTo(a, p, a[m]) = Indices(p)
          BY <3>1 DEF UpTo
        <4> QED BY <4>1, <2>0, IndicesCount
      <3> QED BY <3>1
    <2>2. g \in [K -> Int] /\ \A j \in K : g[j] = a[j]
      BY <1>1
    <2>3. IsFiniteSet(K)
      BY IndicesCount, FS_Subset
    <2> HIDE DEF g
    <2>4. PICK n \in K : \A x \in K : a[n] <= a[x]
      <3> HIDE DEF K
      <3>1. PICK n \in K : \A x \in K : g[n] <= g[x]
        BY <2>1, <2>2, <2>3, ArgMin
      <3> QED BY <2>2, <3>1
    <2>5. \A j \in Indices(p) : a[j] \in Int
      BY DEF Words
    <2>6. n \in Indices(p) /\ m \in Indices(p) /\ a[n] > a[m]
      BY <2>4, <2>5 DEF UpTo
    <2>7. Below(a, p, a[n]) = UpTo(a, p, a[m])
      BY <2>4, <2>5, <2>6 DEF Below, UpTo
    <2>8. n \in J
      BY <2>6, <2>7, <2>0
    <2>9. a[m] >= a[n]
      BY <2>8, <1>4
    <2> QED BY <2>5, <2>6, <2>9
  <1>6. /\ a[m] \in {a[j] : j \in Indices(p)}
        /\ Cardinality(Below(a, p, a[m])) <= k
    BY <1>4
  <1> QED BY <1>5, <1>6 DEF Nth

\* A smaller word comes before: the words up to it are below the larger one.
LEMMA CountsInOrder ==
    ASSUME NEW p \in Segments, NEW a, Words(a, p), NEW v \in Int, NEW w \in Int, v < w
    PROVE  Cardinality(UpTo(a, p, v)) <= Cardinality(Below(a, p, w))
  <1>1. UpTo(a, p, v) \subseteq Below(a, p, w)
    BY DEF UpTo, Below, Words
  <1> QED BY <1>1, Counts, FS_Subset

\* The k-th word is a number.
LEMMA NthInt ==
    ASSUME NEW p \in Segments, NEW a, Words(a, p), NEW k \in 0..(Len(p) - 1)
    PROVE  Nth(a, p, k) \in Int
  <1>1. Nth(a, p, k) \in {a[j] : j \in Indices(p)}
    BY NthExists
  <1> QED BY <1>1 DEF Words

\* qsort sorts.
LEMMA QsortedIsSorted ==
    ASSUME NEW p \in Segments, NEW a, Words(a, p), Indices(p) \subseteq DOMAIN a
    PROVE  IsSorted(Qsorted(a, p), p)
  <1> SUFFICES ASSUME NEW i \in Indices(p), i + 1 \in Indices(p)
               PROVE  Qsorted(a, p)[i] <= Qsorted(a, p)[i + 1]
    BY DEF IsSorted
  <1> DEFINE k == i - p[1]
             v == Nth(a, p, k)
             w == Nth(a, p, k + 1)
  <1>1. k \in 0..(Len(p) - 1) /\ k + 1 \in 0..(Len(p) - 1)
        /\ (i + 1) - p[1] = k + 1
    BY DEF Indices, Len, Segments
  <1>2. Qsorted(a, p)[i] = v /\ Qsorted(a, p)[i + 1] = w
    BY <1>1, QsortedIsNth
  <1>3. v \in Int /\ w \in Int
    BY <1>1, NthInt
  <1>4. Cardinality(Below(a, p, v)) <= k /\ k + 1 < Cardinality(UpTo(a, p, w))
    BY <1>1, NthExists
  <1>5. ~(w < v)
    <2> SUFFICES ASSUME w < v PROVE FALSE
      OBVIOUS
    <2> HIDE DEF v, w, k
    <2>1. Cardinality(UpTo(a, p, w)) <= Cardinality(Below(a, p, v))
      BY <1>3, CountsInOrder
    <2> QED BY <2>1, <1>1, <1>4, Counts
  <1> QED BY <1>2, <1>3, <1>5

\* qsort reorders: there are as many of a word as there were.
LEMMA QsortedCount ==
    ASSUME NEW p \in Segments, NEW a, Words(a, p), Indices(p) \subseteq DOMAIN a,
           NEW v \in Int
    PROVE  Count(Qsorted(a, p), p, v) = Count(a, p, v)
  <1> DEFINE b == Cardinality(Below(a, p, v))
             u == Cardinality(UpTo(a, p, v))
             s == p[1]
             Q == {i \in Indices(p) : Qsorted(a, p)[i] = v}
  <1>1. u = b + Cardinality(Equal(a, p, v))
    <2>1. UpTo(a, p, v) \ Below(a, p, v) = Equal(a, p, v)
      BY DEF UpTo, Below, Equal, Words
    <2>2. UpTo(a, p, v) \cap Below(a, p, v) = Below(a, p, v)
      BY DEF UpTo, Below, Words
    <2>3. Cardinality(UpTo(a, p, v) \ Below(a, p, v)) = u - b
      <3>1. IsFiniteSet(UpTo(a, p, v))
        BY Counts
      <3>2. Cardinality(UpTo(a, p, v) \ Below(a, p, v))
              = u - Cardinality(UpTo(a, p, v) \cap Below(a, p, v))
        BY <3>1, FS_Difference
      <3> QED BY <3>2, <2>2
    <2>4. Cardinality(Equal(a, p, v)) = u - b
      BY <2>1, <2>3
    <2>5. u \in Int /\ b \in Int
      BY Counts
    <2> HIDE DEF u, b
    <2> QED BY <2>4, <2>5
  <1>2. b \in Nat /\ u \in Nat /\ b <= u /\ u <= Len(p)
    <2>1. Equal(a, p, v) \subseteq UpTo(a, p, v)
      BY DEF Equal, UpTo, Words
    <2>2. Cardinality(Equal(a, p, v)) \in Nat
      BY <2>1, Counts, FS_Subset, FS_CardinalityType
    <2> QED BY <2>2, <1>1, Counts
  <1> HIDE DEF b, u
  <1>3. ASSUME NEW i \in Indices(p)
        PROVE  Qsorted(a, p)[i] = v <=> i \in (s + b)..(s + u - 1)
    <2> DEFINE k == i - s
               w == Nth(a, p, k)
    <2>1. k \in 0..(Len(p) - 1) /\ s \in Nat /\ i = s + k
      BY DEF Indices, Len, Segments
    <2>2. Qsorted(a, p)[i] = w
      BY QsortedIsNth
    <2>3. w \in Int /\ Cardinality(Below(a, p, w)) <= k /\ k < Cardinality(UpTo(a, p, w))
      BY <2>1, NthInt, NthExists
    <2>4. /\ Cardinality(Below(a, p, w)) \in Nat /\ Cardinality(UpTo(a, p, w)) \in Nat
      BY Counts
    <2> HIDE DEF w, k
    <2>5. CASE w = v
      BY <2>1, <2>2, <2>3, <2>5, <1>2 DEF b, u
    <2>6. CASE w < v
      <3>1. Cardinality(UpTo(a, p, w)) <= b
        BY <2>3, <2>6, CountsInOrder DEF b
      <3> QED BY <3>1, <2>1, <2>2, <2>3, <2>4, <2>6, <1>2
    <2>7. CASE v < w
      <3>1. u <= Cardinality(Below(a, p, w))
        BY <2>3, <2>7, CountsInOrder DEF u
      <3> QED BY <3>1, <2>1, <2>2, <2>3, <2>4, <2>7, <1>2
    <2> QED BY <2>3, <2>5, <2>6, <2>7
  <1>4. Q = (s + b)..(s + u - 1)
    <2>1. (s + b)..(s + u - 1) \subseteq Indices(p)
      BY <1>2 DEF Indices, Len, Segments
    <2> HIDE DEF s
    <2> QED BY <2>1, <1>3
  <1>5. Cardinality(Q) = u - b
    <2>1. s + b \in Int /\ s + u - 1 \in Int
      BY <1>2 DEF Segments
    <2>2. Cardinality((s + b)..(s + u - 1))
             = IF s + b > s + u - 1 THEN 0 ELSE (s + u - 1) - (s + b) + 1
      BY <2>1, FS_Interval
    <2>3. s \in Nat
      BY DEF Segments
    <2> HIDE DEF Q, s
    <2> QED BY <2>2, <2>3, <1>2, <1>4
  <1>6. Count(a, p, v) = Cardinality(Equal(a, p, v))
    BY DEF Count, Equal
  <1>7. Cardinality(Equal(a, p, v)) \in Int
    <2>1. Equal(a, p, v) \subseteq Indices(p)
      BY DEF Equal
    <2> QED BY <2>1, IndicesCount, FS_Subset, FS_CardinalityType
  <1> QED BY <1>1, <1>2, <1>5, <1>6, <1>7 DEF Count

\* Every word that qsort leaves in the segment was there.
LEMMA QsortedFrom ==
    ASSUME NEW p \in Segments, NEW a, Words(a, p), Indices(p) \subseteq DOMAIN a
    PROVE  /\ DOMAIN Qsorted(a, p) = DOMAIN a
           /\ \A i \in DOMAIN a \ Indices(p) : Qsorted(a, p)[i] = a[i]
           /\ \A i \in Indices(p) : \E j \in Indices(p) : Qsorted(a, p)[i] = a[j]
  <1>1. ASSUME NEW i \in Indices(p)
        PROVE  \E j \in Indices(p) : Qsorted(a, p)[i] = a[j]
    <2>1. i - p[1] \in 0..(Len(p) - 1)
      BY DEF Indices, Len, Segments
    <2>2. Nth(a, p, i - p[1]) \in {a[j] : j \in Indices(p)}
      BY <2>1, NthExists
    <2>3. Qsorted(a, p)[i] = Nth(a, p, i - p[1])
      BY QsortedIsNth
    <2> QED BY <2>2, <2>3
  <1> QED BY <1>1, QsortedIsNth

\* b holds the words of a, those of the segment p in another order.
Rearranged(a, b, p) ==
    /\ DOMAIN b = DOMAIN a
    /\ \A i \in DOMAIN a \ Indices(p) : b[i] = a[i]
    /\ \A i \in Indices(p) : \E j \in Indices(p) : b[i] = a[j]
    /\ \A v \in Values \cup Junk : Count(b, p, v) = Count(a, p, v)

\* qsort rearranges its segment,
LEMMA QsortRearranges ==
    ASSUME NEW p \in Segments, NEW a, Words(a, p), Indices(p) \subseteq DOMAIN a
    PROVE  Rearranged(a, Qsorted(a, p), p)
  <1>1. Values \cup Junk \subseteq Int
    BY SortAssumption
  <1> QED BY <1>1, QsortedFrom, QsortedCount DEF Rearranged

\* and so does a swap of two of its words.
LEMMA SwapRearranges ==
    ASSUME NEW p \in Segments, NEW a, Indices(p) \subseteq DOMAIN a,
           NEW i \in Indices(p), NEW j \in Indices(p), a = [k \in DOMAIN a |-> a[k]]
    PROVE  Rearranged(a, Swapped(a, i, j), p)
  <1> DEFINE b == Swapped(a, i, j)
  <1>1. /\ DOMAIN b = DOMAIN a /\ b[i] = a[j] /\ b[j] = a[i]
        /\ \A k \in DOMAIN a : k # i /\ k # j => b[k] = a[k]
    BY DEF Swapped
  <1> HIDE DEF b
  <1>2. \A k \in Indices(p) : \E m \in Indices(p) : b[k] = a[m]
    BY <1>1
  <1>3. ASSUME NEW v PROVE Count(b, p, v) = Count(a, p, v)
    <2> DEFINE S == {k \in Indices(p) : a[k] = v}
               T == {k \in Indices(p) : b[k] = v}
               f == [k \in S |-> IF k = i THEN j ELSE IF k = j THEN i ELSE k]
    <2>1. \A k \in S : f[k] \in T
      BY <1>1
    <2>2. f \in [S -> T]
      BY <2>1
    <2>3. \A k, m \in S : f[k] = f[m] => k = m
      OBVIOUS
    <2>4. \A t \in T : \E k \in S : f[k] = t
      <3> SUFFICES ASSUME NEW t \in T PROVE \E k \in S : f[k] = t
        OBVIOUS
      <3>1. CASE t = i
        <4>1. j \in S /\ f[j] = t
          BY <3>1, <1>1
        <4> QED BY <4>1
      <3>2. CASE t = j
        <4>1. i \in S /\ f[i] = t
          BY <3>2, <1>1
        <4> QED BY <4>1
      <3>3. CASE t # i /\ t # j
        <4>1. t \in S /\ f[t] = t
          BY <3>3, <1>1
        <4> QED BY <4>1
      <3> QED BY <3>1, <3>2, <3>3
    <2> HIDE DEF f
    <2>5. f \in Bijection(S, T)
      BY <2>2, <2>3, <2>4 DEF Bijection, Injection, IsInjective, Surjection
    <2>6. ExistsBijection(S, T)
      BY <2>5 DEF ExistsBijection
    <2>7. IsFiniteSet(S)
      BY IndicesCount, FS_Subset
    <2>8. Cardinality(T) = Cardinality(S)
      BY <2>6, <2>7, FS_Bijection
    <2> QED BY <2>8 DEF Count
  <1> QED BY <1>1, <1>2, <1>3 DEF Rearranged, b

\* Words that change places within a part do so within the whole.
LEMMA RearrangedInside ==
    ASSUME NEW p \in Segments, NEW r \in Segments, Inside(p, r), NEW a, NEW b,
           Rearranged(a, b, p), Indices(r) \subseteq DOMAIN a,
           NEW v \in Values \cup Junk
    PROVE  Count(b, r, v) = Count(a, r, v)
  <1> DEFINE E(c) == {i \in Indices(p) : c[i] = v}
             R(c) == {i \in Indices(r) : c[i] = v}
             Rest(c) == {i \in Indices(r) \ Indices(p) : c[i] = v}
  <1>1. Indices(p) \subseteq Indices(r)
    BY DEF Indices, Inside, Segments
  <1>2. ASSUME NEW c
        PROVE  /\ IsFiniteSet(E(c)) /\ IsFiniteSet(Rest(c))
               /\ Cardinality(R(c)) = Cardinality(E(c)) + Cardinality(Rest(c))
    <2>1. R(c) = E(c) \cup Rest(c) /\ E(c) \cap Rest(c) = {}
      BY <1>1
    <2>2. E(c) \subseteq Indices(r) /\ Rest(c) \subseteq Indices(r)
      BY <1>1
    <2>3. IsFiniteSet(E(c)) /\ IsFiniteSet(Rest(c))
      <3> HIDE DEF E, Rest
      <3> QED BY <2>2, IndicesCount, FS_Subset
    <2>4. Cardinality(E(c)) \in Nat /\ Cardinality(Rest(c)) \in Nat
      <3> HIDE DEF E, Rest
      <3> QED BY <2>3, FS_CardinalityType
    <2>5. Cardinality(E(c) \cup Rest(c))
             = Cardinality(E(c)) + Cardinality(Rest(c)) - Cardinality({})
      <3> HIDE DEF E, Rest
      <3> QED BY <2>1, <2>3, FS_Union
    <2> HIDE DEF E, Rest, R
    <2>6. Cardinality({}) = 0
      BY FS_EmptySet
    <2> QED BY <2>1, <2>3, <2>4, <2>5, <2>6
  <1>3. Rest(b) = Rest(a)
    BY <1>1 DEF Rearranged
  <1>4. Cardinality(E(b)) = Cardinality(E(a))
    BY DEF Rearranged, Count
  <1>5. Cardinality(R(b)) = Cardinality(R(a))
    <2> HIDE DEF E, R, Rest
    <2> QED BY <1>2, <1>3, <1>4
  <1> QED BY <1>5 DEF Count

-----------------------------------------------------------------------------
(* Where each process is *)

Recursive(p) == Len(p) >= 2 /\ Len(p) > par_threshold
HasResult(p) == pc[p] \in {"exited0", "exited1", "unmap"}

Places ==
    /\ \A p \in Segments : pc[p] \in {"start", "unmap"} => p = Root
    /\ \A p \in Segments : pc[p] = "start" /\ Len(p) >= 2 => Split(p)
    /\ \A p \in Segments : pc[p] = "loop" => Len(p) >= 2
    /\ \A p \in Segments : pc[p] = "forkLeft" \/ Forked(p) => Split(p)
    /\ \A p \in Segments : HasResult(p) /\ Recursive(p) => Split(p)
    /\ \A p \in Segments : loc[p].left <= MaxElements
    /\ \A p \in Segments : loc[p].right = Outside => pc[p] \in {"loop", "killed"}

Shape == TypeOK /\ Tree /\ Places

\* The root is the whole array, and no longer than MaxElements.
LEMMA RootFacts ==
    ASSUME TypeOK
    PROVE  /\ num_elements \in Nat /\ num_elements <= MaxElements
           /\ Root \in Segments /\ Root[1] = 0 /\ Root[2] = num_elements
           /\ par_threshold \in Nat
  <1>1. num_elements \in Nat /\ num_elements <= MaxElements
    BY MaxElementsIsNat DEF TypeOK
  <1>2. Root \in Segments
    BY <1>1, MaxElementsIsNat DEF Root, Segments
  <1> QED BY <1>1, <1>2, SortAssumption DEF Root, TypeOK

\* The locals of a process are numbers.
LEMMA LocFacts ==
    ASSUME TypeOK, NEW p \in Segments
    PROVE  /\ loc[p].left \in Nat /\ loc[p].right \in Nat /\ loc[p].mid \in Nat
           /\ loc[p].pivot \in Values \cup Junk /\ loc[p].pivot \in Int
           /\ pc[p] \in Running \cup Ended \cup {"none"}
  <1>1. loc[p] \in Locals /\ pc[p] \in Running \cup Ended \cup {"none"}
    BY DEF TypeOK
  <1> QED BY <1>1, SortAssumption DEF Locals

\* The segment of a process is a part of the array.
LEMMA StartedIsInArray ==
    ASSUME TypeOK, Tree, NEW p \in Segments, Started(p)
    PROVE  /\ Indices(p) \subseteq InArray /\ InArray = DOMAIN arr
           /\ Indices(p) \subseteq DOMAIN arr /\ Inside(p, Root)
           /\ p[2] <= num_elements
           /\ Words(arr, p)
  <1>1. Inside(p, Root)
    BY DEF Tree, Rooted
  <1>2. p[1] \in Nat /\ p[2] \in Nat /\ p[2] <= num_elements
    BY <1>1, SegmentFacts, RootFacts DEF Inside
  <1>3. Indices(p) \subseteq InArray
    BY <1>2, RootFacts DEF Indices, InArray
  <1>4. InArray = DOMAIN arr /\ \A i \in InArray : arr[i] \in Int
    BY SortAssumption DEF TypeOK
  <1> QED BY <1>1, <1>2, <1>3, <1>4 DEF Words

\* The pivot's index is one of the segment, and so is the last one.
LEMMA MiddleInside ==
    ASSUME NEW p \in Segments, Len(p) >= 2
    PROVE  p[1] + Len(p) \div 2 \in Indices(p) /\ p[2] - 1 \in Indices(p)
  BY SegmentFacts DEF Len, Indices

\* In partition left_index is in the segment and right_index before its end.
LEMMA LoopFacts ==
    ASSUME TypeOK, Places, NEW p \in Segments, pc[p] = "loop"
    PROVE  /\ loc[p].left \in Nat /\ loc[p].right \in Nat
           /\ loc[p].left <= MaxElements
           /\ loc[p].right # Outside =>
                 loc[p].left \in Indices(p) /\ loc[p].right <= p[2] - 2
           /\ loc[p].left > loc[p].right => loc[p].right # Outside
           /\ p[2] - 1 \in Indices(p)
  <1>1. Len(p) >= 2 /\ loc[p].left <= MaxElements
    BY DEF Places
  <1>2. Outside \in Nat /\ Outside > MaxElements
    BY MaxElementsIsNat DEF Outside
  <1>3. loc[p].right # Outside => loc[p].left \in Indices(p) /\ loc[p].right <= p[2] - 2
    BY DEF TypeOK, Indices
  <1> QED BY <1>1, <1>2, <1>3, LocFacts, MiddleInside, MaxElementsIsNat

-----------------------------------------------------------------------------
(* What a step does to the array and the locals *)

\* A process writes only while it partitions or sorts, and within its segment,
\* unless it has strayed.
Writes(p) ==
    /\ arr' # arr => pc[p] \in {"enter", "loop"} /\ Started(p)
    /\ Rearranged(arr, arr', p) \/ arr' = arr \/ loc[p].right = Outside

\* Each of the four writes rearranges the segment of the process: the swap that
\* moves the pivot away,
LEMMA MiddleSwapped ==
    ASSUME Shape, NEW p \in Segments, Partition(p)
    PROVE  Rearranged(arr, arr', p)
  <1>1. Indices(p) \subseteq DOMAIN arr
    BY StartedIsInArray DEF Shape, Partition, Started
  <1>2. p[1] + Len(p) \div 2 \in Indices(p) /\ p[2] - 1 \in Indices(p)
    BY MiddleInside DEF Partition
  <1>3. arr = [k \in DOMAIN arr |-> arr[k]]
    BY DEF Shape, TypeOK
  <1> QED BY <1>1, <1>2, <1>3, SwapRearranges DEF Partition

\* the swap of two words on the wrong side,
LEMMA PairSwapped ==
    ASSUME Shape, NEW p \in Segments, SwapPair(p)
    PROVE  Rearranged(arr, arr', p) /\ loc[p].right \in Indices(p)
           /\ loc[p].left \in Indices(p)
  <1>1. Indices(p) \subseteq DOMAIN arr
    BY StartedIsInArray DEF Shape, SwapPair, InLoop, Started
  <1>2. loc[p].right # Outside
    BY RootFacts, MaxElementsIsNat DEF SwapPair, InArray, Outside, Shape
  <1>3. loc[p].left \in Indices(p) /\ loc[p].right \in Indices(p)
    BY <1>2, LoopFacts, SegmentFacts DEF Shape, SwapPair, InLoop, Indices
  <1>4. arr = [k \in DOMAIN arr |-> arr[k]]
    BY DEF Shape, TypeOK
  <1> QED BY <1>1, <1>3, <1>4, SwapRearranges DEF SwapPair

\* the swap that moves the pivot back,
LEMMA PivotSwapped ==
    ASSUME Shape, NEW p \in Segments, Place(p)
    PROVE  Rearranged(arr, arr', p) /\ loc[p].left \in Indices(p)
           /\ p[2] - 1 \in Indices(p)
  <1>1. Indices(p) \subseteq DOMAIN arr
    BY StartedIsInArray DEF Shape, Place, Started
  <1>2. loc[p].left \in Indices(p) /\ p[2] - 1 \in Indices(p)
    BY LoopFacts DEF Shape, Place
  <1>3. arr = [k \in DOMAIN arr |-> arr[k]]
    BY DEF Shape, TypeOK
  <1> QED BY <1>1, <1>2, <1>3, SwapRearranges DEF Place

\* and the call of qsort, which sorts it too.
LEMMA SegmentSorted ==
    ASSUME Shape, NEW p \in Segments, Qsort(p)
    PROVE  Rearranged(arr, arr', p) /\ IsSorted(arr', p)
  <1>1. Indices(p) \subseteq DOMAIN arr /\ Words(arr, p)
    BY StartedIsInArray DEF Shape, Qsort, Started
  <1> QED BY <1>1, QsortRearranges, QsortedIsSorted DEF Qsort

\* An array that is rearranged holds words of the same set.
LEMMA RearrangedType ==
    ASSUME TypeOK, NEW p \in Segments, Rearranged(arr, arr', p),
           Indices(p) \subseteq InArray, NEW S, arr \in [InArray -> S],
           arr' = [i \in DOMAIN arr' |-> arr'[i]]
    PROVE  arr' \in [InArray -> S]
  <1>1. DOMAIN arr' = InArray
    BY DEF Rearranged
  <1>2. ASSUME NEW i \in InArray PROVE arr'[i] \in S
    BY <1>2 DEF Rearranged
  <1> QED BY <1>1, <1>2

\* The array holds words after every step.
LEMMA ArrayType ==
    ASSUME Shape, NEW p \in Segments, Step(p)
    PROVE  arr' \in [InArray -> Values \cup Junk]
  <1> USE DEF Shape
  <1>1. arr \in [InArray -> Values \cup Junk]
    BY DEF TypeOK
  <1>2. CASE Partition(p)
    <2>1. Indices(p) \subseteq InArray
      BY <1>2, StartedIsInArray DEF Partition, Started
    <2> QED BY <1>1, <1>2, <2>1, MiddleSwapped, RearrangedType DEF Partition, Swapped
  <1>3. CASE SwapPair(p)
    <2>1. Indices(p) \subseteq InArray
      BY <1>3, StartedIsInArray DEF SwapPair, InLoop, Started
    <2> QED BY <1>1, <1>3, <2>1, PairSwapped, RearrangedType DEF SwapPair, Swapped
  <1>4. CASE Place(p)
    <2>1. Indices(p) \subseteq InArray
      BY <1>4, StartedIsInArray DEF Place, Started
    <2> QED BY <1>1, <1>4, <2>1, PivotSwapped, RearrangedType DEF Place, Swapped
  <1>5. CASE Qsort(p)
    <2>1. Indices(p) \subseteq InArray
      BY <1>5, StartedIsInArray DEF Qsort, Started
    <2>2. arr' = [i \in DOMAIN arr' |-> arr'[i]]
      BY <1>5, QsortedIsNth DEF Qsort
    <2> QED BY <1>1, <2>1, <2>2, <1>5, SegmentSorted, RearrangedType
  <1>6. CASE Spill(p)
    BY <1>1, <1>6 DEF Spill
  <1>7. CASE arr' = arr
    BY <1>1, <1>7
  <1> QED
    BY <1>2, <1>3, <1>4, <1>5, <1>6, <1>7 DEF Step, PartitionStep, ForkStep, WaitStep,
       Short, ScanLeft, ScanRight, Segfault, ForkLeft, ForkLeftFails, ForkRight,
       ForkRightFails, WaitLeftOnly, WaitLeft, WaitRight,
       WaitLeftFails, WaitRightFails, WaitRightOnly

\* No segment's process ends twice, and only what is unborn is started.
LEMMA LoopType ==
    ASSUME Shape, NEW p \in Segments, Step(p)
    PROVE  /\ loc' \in [Segments -> Locals]
           /\ pc'[p] = "loop" /\ loc'[p].right # Outside =>
                 loc'[p].left \in p[1]..(p[2] - 1) /\ loc'[p].right <= p[2] - 2
  <1> USE DEF Shape
  <1>1. /\ loc \in [Segments -> Locals] /\ loc[p] \in Locals
        /\ loc[p] = [left |-> loc[p].left, right |-> loc[p].right,
                     mid |-> loc[p].mid, pivot |-> loc[p].pivot]
    BY DEF TypeOK, Locals
  <1>2. pc \in [Segments -> Running \cup Ended \cup {"none"}]
    BY DEF TypeOK
  <1>3. /\ p[1] \in Nat /\ p[2] \in Nat
        /\ p[2] <= MaxElements /\ MaxElements \in Nat /\ Outside \in Nat
    BY SegmentFacts, MaxElementsIsNat DEF Outside
  <1>4. CASE Partition(p)
    <2>1. Len(p) >= 2 /\ p[1] + Len(p) \div 2 \in Indices(p)
      BY <1>4, MiddleInside DEF Partition
    <2>2. arr[p[1] + Len(p) \div 2] \in Values \cup Junk
      BY <1>4, <2>1, StartedIsInArray DEF Partition, Started, TypeOK
    <2> DEFINE l == [left |-> p[1], right |-> p[1] + Len(p) - 2, mid |-> 0,
                     pivot |-> arr[p[1] + Len(p) \div 2]]
    <2>3. l \in Locals
      BY <2>1, <2>2, <1>3 DEF Locals, Len
    <2>4. loc' = [loc EXCEPT ![p] = l]
      BY <1>4 DEF Partition
    <2>5. l.left \in p[1]..(p[2] - 1) /\ l.right <= p[2] - 2
      BY <2>1, <1>3 DEF Len
    <2> HIDE DEF l
    <2>6. loc'[p] = l
      BY <2>4, <1>1
    <2> QED BY <1>1, <2>3, <2>4, <2>5, <2>6
  <1>5. CASE ScanLeft(p)
    <2> DEFINE l == [loc[p] EXCEPT !.left = @ + 1]
    <2>1. loc' = [loc EXCEPT ![p] = l]
      BY <1>5 DEF ScanLeft
    <2>2. l \in Locals /\ l.left = loc[p].left + 1 /\ l.right = loc[p].right
      BY <1>1, LocFacts DEF Locals
    <2>3. pc[p] = "loop" /\ loc[p].left <= loc[p].right
      BY <1>5 DEF ScanLeft, InLoop
    <2> HIDE DEF l
    <2>4. loc'[p] = l
      BY <2>1, <1>1
    <2>5. l.right # Outside => l.left \in p[1]..(p[2] - 1) /\ l.right <= p[2] - 2
      BY <2>2, <2>3, LoopFacts, <1>3 DEF Indices
    <2> QED BY <1>1, <2>1, <2>2, <2>4, <2>5
  <1>6. CASE ScanRight(p)
    <2> DEFINE l == [loc[p] EXCEPT !.right = IF @ = 0 THEN Outside ELSE @ - 1]
    <2>1. loc' = [loc EXCEPT ![p] = l]
      BY <1>6 DEF ScanRight
    <2>2. l \in Locals /\ l.left = loc[p].left
          /\ l.right = IF loc[p].right = 0 THEN Outside ELSE loc[p].right - 1
      BY <1>1, <1>3, LocFacts DEF Locals
    <2>3. pc[p] = "loop" /\ loc[p].right \in InArray
      BY <1>6 DEF ScanRight, InLoop
    <2>4. loc[p].right # Outside
      BY <2>3, RootFacts, MaxElementsIsNat DEF InArray, Outside
    <2> HIDE DEF l
    <2>5. loc'[p] = l
      BY <2>1, <1>1
    <2>6. l.right # Outside => l.left \in p[1]..(p[2] - 1) /\ l.right <= p[2] - 2
      BY <2>2, <2>3, <2>4, LoopFacts, <1>3 DEF Indices
    <2> QED BY <1>1, <2>1, <2>2, <2>5, <2>6
  <1>7. CASE Place(p)
    <2> DEFINE l == [loc[p] EXCEPT !.mid = loc[p].left]
    <2>1. loc' = [loc EXCEPT ![p] = l]
      BY <1>7 DEF Place
    <2>2. l \in Locals
      BY <1>1, LocFacts DEF Locals
    <2>3. pc'[p] = "forkLeft"
      BY <1>7, <1>2 DEF Place, Goto
    <2> HIDE DEF l
    <2> QED BY <1>1, <2>1, <2>2, <2>3
  <1>8. CASE loc' = loc /\ (pc'[p] = pc[p] \/ pc'[p] # "loop")
    BY <1>8, <1>1 DEF TypeOK
  <1> QED
    <2>1. CASE SwapPair(p) \/ Spill(p)
      BY <1>8, <2>1 DEF SwapPair, Spill
    <2>2. CASE Short(p) \/ Qsort(p) \/ Segfault(p)
      BY <1>2, <1>8, <2>2 DEF Short, Qsort, Segfault, Goto, Returned
    <2>3. CASE ForkStep(p)
      BY <1>2, <1>8, <2>3 DEF ForkStep, ForkLeft, ForkLeftFails, ForkRight,
         ForkRightFails, Goto, Returned
    <2>4. CASE WaitStep(p)
      BY <1>2, <1>8, <2>4 DEF WaitStep, WaitLeftOnly, WaitLeft, WaitRight,
       WaitLeftFails, WaitRightFails, WaitRightOnly, Goto, Returned
    <2> QED BY <1>4, <1>5, <1>6, <1>7, <2>1, <2>2, <2>3, <2>4 DEF Step, PartitionStep

\* The steps that start no process,
Quiet(p) ==
    \/ p = Root /\ Main
    \/ Short(p) \/ Qsort(p) \/ PartitionStep(p) \/ ForkLeftFails(p) \/ ForkRightFails(p)
    \/ WaitStep(p) \/ Kill(p)

\* and the two that start one, are all that there are.
LEMMA StepIsQuietOrForks ==
    ASSUME Shape, Next
    PROVE  \E p \in Segments : Quiet(p) \/ ForkLeft(p) \/ ForkRight(p)
  <1>1. CASE Main
    BY <1>1, RootFacts DEF Quiet, Shape
  <1>2. CASE \E p \in Segments : Step(p) \/ Kill(p)
    BY <1>2 DEF Step, ForkStep, Quiet
  <1> QED BY <1>1, <1>2 DEF Next

\* A quiet step changes the state of one process, which was running.
LEMMA QuietMovesOn ==
    ASSUME Shape, NEW p \in Segments, Quiet(p)
    PROVE  /\ MovesOn(p) /\ file' = file
           /\ pc[p] \in Running /\ pc'[p] \in Running \cup Ended
           /\ \A q \in Segments \ {p} : pc'[q] = pc[q] /\ loc'[q] = loc[q]
           /\ pc' \in [Segments -> Running \cup Ended \cup {"none"}]
  <1> USE DEF Shape
  <1>1. pc \in [Segments -> Running \cup Ended \cup {"none"}]
        /\ loc \in [Segments -> Locals]
    BY DEF TypeOK
  <1> DEFINE Effect ==
               /\ MovesOn(p) /\ file' = file
               /\ pc[p] \in Running /\ pc'[p] \in Running \cup Ended
               /\ \A q \in Segments \ {p} : pc'[q] = pc[q] /\ loc'[q] = loc[q]
               /\ pc' \in [Segments -> Running \cup Ended \cup {"none"}]
  <1>2. CASE p = Root /\ Main
    BY <1>1, <1>2 DEF Main, MapFile, MapFails, Unmap, Goto, file, MovesOn, Running,
       Ended, Started, Childless
  <1>3. CASE Short(p) \/ Qsort(p)
    BY <1>1, <1>3 DEF Short, Qsort, Goto, file, MovesOn, Running, Returned,
       Ended, Started, Childless
  <1>4. CASE PartitionStep(p)
    BY <1>1, <1>4 DEF PartitionStep, Partition, ScanLeft, ScanRight, SwapPair, Spill,
       Segfault, Place, InLoop, Goto, file, MovesOn, Running, Ended, Started, Childless
  <1>5. CASE ForkLeftFails(p) \/ ForkRightFails(p)
    BY <1>1, <1>5 DEF ForkLeftFails, ForkRightFails, Goto, file, MovesOn, Running,
       Returned, Ended, Started, Childless
  <1>6. CASE WaitStep(p)
    BY <1>1, <1>6 DEF WaitStep, WaitLeftOnly, WaitLeft, WaitRight,
       WaitLeftFails, WaitRightFails, WaitRightOnly, Goto, file, MovesOn,
       Running, Returned, Ended, Started, Childless
  <1>7. CASE Kill(p)
    BY <1>1, <1>7 DEF Kill, Goto, file, MovesOn, Running, Ended, Started, Childless
  <1> QED BY <1>2, <1>3, <1>4, <1>5, <1>6, <1>7 DEF Quiet

\* A fork starts the unborn left part,
LEMMA LeftForks ==
    ASSUME Shape, NEW p \in Segments, ForkLeft(p)
    PROVE  /\ Forks(p, LeftOf(p)) /\ Unborn(p, LeftOf(p)) /\ LeftOf(p) \in Segments
           /\ pc[LeftOf(p)] = "none" /\ p # LeftOf(p)
           /\ pc'[p] = "forkRight" /\ pc'[LeftOf(p)] = "enter"
           /\ pc' \in [Segments -> Running \cup Ended \cup {"none"}]
  <1> USE DEF Shape
  <1>1. pc \in [Segments -> Running \cup Ended \cup {"none"}]
    BY DEF TypeOK
  <1>2. pc[p] = "forkLeft" /\ Split(p)
    BY DEF ForkLeft, Places
  <1>3. Unborn(p, LeftOf(p)) /\ LeftOf(p) \in Segments /\ LeftOf(p) # p
    BY <1>2, LeftIsUnborn, Children DEF Within
  <1>4. pc[LeftOf(p)] = "none"
    BY <1>3, SegmentFacts DEF Unborn, Started, Inside
  <1>5. /\ pc' = [pc EXCEPT ![p] = "forkRight", ![LeftOf(p)] = "enter"]
        /\ loc' = loc /\ num_elements' = num_elements
    BY DEF ForkLeft, file
  <1> HIDE DEF Shape
  <1>6. \A c \in Segments \ {p} : pc' = [pc EXCEPT ![p] = "forkRight", ![c] = "enter"] =>
           /\ pc'[p] = "forkRight" /\ pc'[c] = "enter"
           /\ pc' \in [Segments -> Running \cup Ended \cup {"none"}]
           /\ \A q \in Segments \ {p, c} : pc'[q] = pc[q]
    BY <1>1 DEF Running
  <1>7. /\ pc'[p] = "forkRight" /\ pc'[LeftOf(p)] = "enter"
        /\ pc' \in [Segments -> Running \cup Ended \cup {"none"}]
        /\ \A q \in Segments \ {p, LeftOf(p)} : pc'[q] = pc[q]
    BY <1>3, <1>5, <1>6
  <1>8. Started(p) /\ Started(p)' /\ Started(LeftOf(p))'
    <2>1. (pc[LeftOf(p)])' = pc'[LeftOf(p)]
      BY <1>5 DEF LeftOf
    <2> QED BY <1>2, <1>7, <2>1 DEF Started
  <1> QED BY <1>2, <1>3, <1>4, <1>5, <1>7, <1>8 DEF Forks, Childless

\* or the unborn right part.
LEMMA RightForks ==
    ASSUME Shape, NEW p \in Segments, ForkRight(p)
    PROVE  /\ Forks(p, RightOf(p)) /\ Unborn(p, RightOf(p)) /\ RightOf(p) \in Segments
           /\ pc[RightOf(p)] = "none" /\ p # RightOf(p)
           /\ pc'[p] = "waitLeft" /\ pc'[RightOf(p)] = "enter"
           /\ pc' \in [Segments -> Running \cup Ended \cup {"none"}]
  <1> USE DEF Shape
  <1>1. pc \in [Segments -> Running \cup Ended \cup {"none"}]
    BY DEF TypeOK
  <1>2. pc[p] = "forkRight" /\ Split(p)
    BY DEF ForkRight, Places, Forked
  <1>3. Unborn(p, RightOf(p)) /\ RightOf(p) \in Segments /\ RightOf(p) # p
    BY <1>2, RightIsUnborn, Children DEF Within
  <1>4. pc[RightOf(p)] = "none"
    BY <1>3, SegmentFacts DEF Unborn, Started, Inside
  <1>5. /\ pc' = [pc EXCEPT ![p] = "waitLeft", ![RightOf(p)] = "enter"]
        /\ loc' = loc /\ num_elements' = num_elements
    BY DEF ForkRight, file
  <1> HIDE DEF Shape
  <1>6. \A c \in Segments \ {p} : pc' = [pc EXCEPT ![p] = "waitLeft", ![c] = "enter"] =>
           /\ pc'[p] = "waitLeft" /\ pc'[c] = "enter"
           /\ pc' \in [Segments -> Running \cup Ended \cup {"none"}]
           /\ \A q \in Segments \ {p, c} : pc'[q] = pc[q]
    BY <1>1 DEF Running
  <1>7. /\ pc'[p] = "waitLeft" /\ pc'[RightOf(p)] = "enter"
        /\ pc' \in [Segments -> Running \cup Ended \cup {"none"}]
        /\ \A q \in Segments \ {p, RightOf(p)} : pc'[q] = pc[q]
    BY <1>3, <1>5, <1>6
  <1>8. Started(p) /\ Started(p)' /\ Started(RightOf(p))'
    <2>1. (pc[RightOf(p)])' = pc'[RightOf(p)]
      BY <1>5 DEF RightOf
    <2> QED BY <1>2, <1>7, <2>1 DEF Started
  <1> QED BY <1>2, <1>3, <1>4, <1>5, <1>7, <1>8 DEF Forks, Childless

\* Types are kept by a quiet step
LEMMA QuietKeepsTypes ==
    ASSUME Shape, NEW p \in Segments, Quiet(p)
    PROVE  TypeOK'
  <1> USE DEF Shape
  <1>1. /\ MovesOn(p) /\ file' = file
        /\ pc[p] \in Running /\ pc'[p] \in Running \cup Ended
        /\ \A q \in Segments \ {p} : pc'[q] = pc[q] /\ loc'[q] = loc[q]
        /\ pc' \in [Segments -> Running \cup Ended \cup {"none"}]
    BY QuietMovesOn
  <1>2. /\ num_elements' = num_elements /\ par_threshold' = par_threshold
        /\ input' = input /\ InArray' = InArray
    BY <1>1 DEF file, InArray
  <1>3. arr' \in [InArray -> Values \cup Junk]
    <2>1. CASE Step(p)
      BY <2>1, ArrayType
    <2>2. CASE arr' = arr
      BY <2>2 DEF TypeOK
    <2> QED BY <2>1, <2>2 DEF Quiet, Step, ForkStep, Main, MapFile, MapFails, Unmap, Kill
  <1>4. /\ loc' \in [Segments -> Locals]
        /\ pc'[p] = "loop" /\ loc'[p].right # Outside =>
              loc'[p].left \in p[1]..(p[2] - 1) /\ loc'[p].right <= p[2] - 2
    <2>1. CASE Step(p)
      BY <2>1, LoopType
    <2>2. CASE loc' = loc /\ pc'[p] # "loop"
      BY <2>2 DEF TypeOK
    <2>3. CASE Kill(p)
      BY <2>2, <2>3 DEF Kill, Goto, TypeOK
    <2>4. CASE p = Root /\ Main
      BY <2>2, <2>4 DEF Main, MapFile, MapFails, Unmap, Goto, TypeOK
    <2> QED BY <2>1, <2>3, <2>4 DEF Quiet, Step, ForkStep
  <1>5. reaped' \subseteq {q \in Segments : pc'[q] \in Ended}
    <2>1. \A q \in Segments : pc[q] \in Ended => pc'[q] \in Ended
      BY <1>1 DEF Running, Ended
    <2>2. CASE reaped' = reaped
      BY <2>1, <2>2 DEF TypeOK
    <2>3. ASSUME NEW c \in Segments, Wait(c)
          PROVE  reaped' \subseteq {q \in Segments : pc'[q] \in Ended}
      BY <2>1, <2>3 DEF Wait, TypeOK
    <2>4. CASE WaitLeftOnly(p)
      <3>1. LeftOf(p) \in Segments
        BY <2>4, Children DEF WaitLeftOnly, Forked, Places
      <3> QED BY <2>3, <2>4, <3>1 DEF WaitLeftOnly
    <2>5. CASE WaitLeft(p)
      <3>1. LeftOf(p) \in Segments
        BY <2>5, Children DEF WaitLeft, Forked, Places
      <3> QED BY <2>3, <2>5, <3>1 DEF WaitLeft
    <2>6. CASE WaitRight(p) \/ WaitRightFails(p) \/ WaitRightOnly(p)
      <3>1. RightOf(p) \in Segments
        BY <2>6, Children DEF WaitRight, WaitRightFails, WaitRightOnly, Forked, Places
      <3> QED BY <2>3, <2>6, <3>1 DEF WaitRight, WaitRightFails, WaitRightOnly
    <2>7. CASE WaitLeftFails(p)
      <3>1. LeftOf(p) \in Segments
        BY <2>7, Children DEF WaitLeftFails, Forked, Places
      <3> QED BY <2>3, <2>7, <3>1 DEF WaitLeftFails
    <2> QED
      BY <2>2, <2>4, <2>5, <2>6, <2>7
      DEF Quiet, Main, MapFile, MapFails, Unmap, Short, Qsort,
         PartitionStep, Partition, ScanLeft, ScanRight, SwapPair, Spill, Segfault, Place,
         ForkLeftFails, ForkRightFails, WaitStep, Kill
  <1>6. faults' \in 0..MaxFaults
    <2>1. faults \in 0..MaxFaults /\ MaxFaults \in Nat
      BY SortAssumption DEF TypeOK
    <2>2. faults' = faults \/ Fault
      BY DEF Quiet, Main, MapFile, MapFails, Unmap, Short, Qsort,
         PartitionStep, Partition, ScanLeft, ScanRight, SwapPair, Spill, Segfault, Place,
         ForkLeftFails, ForkRightFails, WaitStep, WaitLeftOnly, WaitLeft, WaitRight,
       WaitLeftFails, WaitRightFails, WaitRightOnly, Kill
    <2> QED BY <2>1, <2>2 DEF Fault
  <1>7. \A q \in Segments : pc'[q] = "loop" /\ loc'[q].right # Outside =>
           loc'[q].left \in q[1]..(q[2] - 1) /\ loc'[q].right <= q[2] - 2
    BY <1>1, <1>4 DEF TypeOK
  <1>8. /\ num_elements \in 0..MaxElements /\ par_threshold \in Thresholds
        /\ input \in [InArray -> Values]
    BY DEF TypeOK
  <1> HIDE DEF Shape
  <1> QED BY <1>1, <1>2, <1>3, <1>4, <1>5, <1>6, <1>7, <1>8 DEF TypeOK

\* and by a fork.
LEMMA ForkKeepsTypes ==
    ASSUME Shape, NEW p \in Segments, ForkLeft(p) \/ ForkRight(p)
    PROVE  TypeOK'
  <1> USE DEF Shape
  <1>1. PICK c \in Segments :
           /\ Forks(p, c) /\ pc[c] = "none" /\ p # c
           /\ pc'[p] \in {"forkRight", "waitLeft"} /\ pc'[c] = "enter"
           /\ pc' \in [Segments -> Running \cup Ended \cup {"none"}]
    BY LeftForks, RightForks
  <1>2. UNCHANGED <<file, arr, loc, reaped, faults>>
    BY DEF ForkLeft, ForkRight
  <1>3. \A q \in Segments \ {p, c} : pc'[q] = pc[q]
    BY <1>1 DEF Forks
  <1>4. pc[p] \in {"forkLeft", "forkRight"}
    BY DEF ForkLeft, ForkRight
  <1>5. reaped \subseteq {q \in Segments : pc'[q] \in Ended}
    BY <1>1, <1>3, <1>4 DEF TypeOK, Ended
  <1>6. \A q \in Segments : pc'[q] = "loop" => pc[q] = "loop"
    BY <1>1, <1>3
  <1> QED BY <1>1, <1>2, <1>5, <1>6 DEF TypeOK, file, InArray

\* Places is kept by a quiet step
LEMMA QuietKeepsPlaces ==
    ASSUME Shape, NEW p \in Segments, Quiet(p)
    PROVE  Places'
  <1> USE DEF Shape
  <1>1. /\ file' = file /\ pc[p] \in Running
        /\ \A q \in Segments \ {p} : pc'[q] = pc[q] /\ loc'[q] = loc[q]
    BY QuietMovesOn
  <1>2. num_elements' = num_elements /\ par_threshold' = par_threshold /\ Root' = Root
    BY <1>1 DEF file, Root
  <1>3. pc \in [Segments -> Running \cup Ended \cup {"none"}]
        /\ loc \in [Segments -> Locals]
    BY DEF TypeOK
  <1> DEFINE Place1(q, l, lc) ==
               /\ l \in {"start", "unmap"} => q = Root
               /\ l = "start" /\ Len(q) >= 2 => lc.mid \in Indices(q)
               /\ l = "loop" => Len(q) >= 2
               /\ l \in {"forkLeft", "forkRight", "waitLeft", "waitLeftOnly", "waitRight",
                        "waitRightOnly"} => lc.mid \in Indices(q)
               /\ l \in {"exited0", "exited1", "unmap"} /\ Recursive(q)
                     => lc.mid \in Indices(q)
               /\ lc.left <= MaxElements
               /\ lc.right = Outside => l \in {"loop", "killed"}
  <1>4. \A q \in Segments : Place1(q, pc[q], loc[q])
    BY DEF Places, Forked, HasResult, Split
  <1>5. Place1(p, pc'[p], loc'[p])
    <2>0. Place1(p, pc[p], loc[p])
      BY <1>4
    <2>1. CASE p = Root /\ Main
      BY <2>0, <2>1, <1>3 DEF Main, MapFile, MapFails, Unmap, Goto, Recursive
    <2>2. CASE Short(p) \/ Qsort(p)
      BY <2>0, <2>2, <1>3, RootFacts, IndicesCount
      DEF Short, Qsort, Goto, Returned, Recursive
    <2>3. CASE Partition(p)
      <3>1. /\ pc'[p] = "loop" /\ Len(p) >= 2
            /\ loc'[p].left = p[1] /\ loc'[p].right = p[1] + Len(p) - 2
        BY <2>3, <1>3 DEF Partition, Goto
      <3>2. p[1] <= MaxElements /\ p[1] + Len(p) - 2 # Outside
        BY MaxElementsIsNat, SegmentFacts DEF Len, Outside
      <3> QED BY <3>1, <3>2
    <2>4. CASE ScanLeft(p)
      <3>1. /\ pc'[p] = "loop" /\ pc[p] = "loop" /\ loc[p].left \in InArray
            /\ loc'[p].left = loc[p].left + 1 /\ loc'[p].right = loc[p].right
        BY <2>4, <1>3 DEF ScanLeft, InLoop, Locals
      <3>2. loc[p].left + 1 <= MaxElements
        BY <3>1, RootFacts, MaxElementsIsNat DEF InArray
      <3> QED BY <2>0, <3>1, <3>2
    <2>5. CASE ScanRight(p)
      <3>1. /\ pc'[p] = "loop" /\ pc[p] = "loop" /\ loc'[p].left = loc[p].left
        BY <2>5, <1>3 DEF ScanRight, InLoop, Locals
      <3> QED BY <2>0, <3>1
    <2>6. CASE SwapPair(p) \/ Spill(p)
      BY <2>0, <2>6, <1>3 DEF SwapPair, Spill
    <2>7. CASE Segfault(p) \/ Kill(p)
      BY <2>0, <2>7, <1>3 DEF Segfault, Kill, Goto
    <2>8. CASE Place(p)
      <3>1. loc[p].left \in Indices(p) /\ loc[p].right # Outside
        BY <2>8, LoopFacts DEF Place
      <3>2. /\ pc'[p] = "forkLeft" /\ loc'[p].mid = loc[p].left
            /\ loc'[p].left = loc[p].left /\ loc'[p].right = loc[p].right
        BY <2>8, <1>3 DEF Place, Goto, Locals
      <3> QED BY <2>0, <3>1, <3>2
    <2>9. CASE ForkLeftFails(p) \/ ForkRightFails(p)
      BY <2>0, <2>9, <1>3 DEF ForkLeftFails, ForkRightFails, Goto, Returned
    <2>10. CASE WaitLeft(p) \/ WaitLeftOnly(p)
      BY <2>0, <2>10, <1>3 DEF WaitLeft, WaitLeftOnly, Goto, Returned
    <2>11. CASE WaitRight(p) \/ WaitRightOnly(p)
      BY <2>0, <2>11, <1>3 DEF WaitRight, WaitRightOnly, Goto, Returned
    <2>12. CASE WaitLeftFails(p) \/ WaitRightFails(p)
      BY <2>0, <2>12, <1>3 DEF WaitLeftFails, WaitRightFails, Goto, Returned
    <2> QED
      BY <2>1, <2>2, <2>3, <2>4, <2>5, <2>6, <2>7, <2>8, <2>9, <2>10, <2>11, <2>12
      DEF Quiet, PartitionStep, WaitStep
  <1>6. \A q \in Segments : Place1(q, pc'[q], loc'[q])
    <2> HIDE DEF Place1
    <2> QED BY <1>1, <1>4, <1>5
  <1> QED BY <1>2, <1>6 DEF Places, Forked, HasResult, Split, Recursive

\* and by a fork.
LEMMA ForkKeepsPlaces ==
    ASSUME Shape, NEW p \in Segments, ForkLeft(p) \/ ForkRight(p)
    PROVE  Places'
  <1> USE DEF Shape
  <1>1. PICK c \in Segments :
           /\ Forks(p, c) /\ pc[c] = "none"
           /\ pc'[p] \in {"forkRight", "waitLeft"} /\ pc'[c] = "enter"
    BY LeftForks, RightForks
  <1>2. UNCHANGED <<file, arr, loc, reaped, faults>>
    BY DEF ForkLeft, ForkRight
  <1>3. /\ \A q \in Segments \ {p, c} : pc'[q] = pc[q]
        /\ Split(p)
    BY <1>1 DEF Forks
  <1>4. pc[p] \in {"forkLeft", "forkRight"}
    BY DEF ForkLeft, ForkRight
  <1>5. \A q \in Segments : Split(q)' <=> Split(q)
    BY <1>2 DEF Split, Indices
  <1>6. num_elements' = num_elements /\ par_threshold' = par_threshold /\ Root' = Root
    BY <1>2 DEF file, Root
  <1>7. loc[p].right # Outside /\ loc[c].right # Outside
    BY <1>1, <1>4 DEF Places
  <1> QED
    BY <1>1, <1>2, <1>3, <1>5, <1>6, <1>7 DEF Places, Forked, HasResult, Recursive

\* Shape is kept by every step,
LEMMA ShapeStep ==
    ASSUME Shape, Next
    PROVE  Shape'
  <1>1. PICK p \in Segments : Quiet(p) \/ ForkLeft(p) \/ ForkRight(p)
    BY StepIsQuietOrForks
  <1>2. TypeOK' /\ Places'
    BY <1>1, QuietKeepsTypes, ForkKeepsTypes, QuietKeepsPlaces, ForkKeepsPlaces
  <1>3. Tree'
    <2>1. CASE Quiet(p)
      BY <2>1, QuietMovesOn, MovesOnKeepsTree DEF Shape
    <2>2. CASE ForkLeft(p)
      BY <2>2, LeftForks, ForksKeepsTree, RootFacts DEF Shape
    <2>3. CASE ForkRight(p)
      BY <2>3, RightForks, ForksKeepsTree, RootFacts DEF Shape
    <2> QED BY <1>1, <2>1, <2>2, <2>3
  <1> QED BY <1>2, <1>3 DEF Shape

\* and true at the start.
LEMMA ShapeInit == Init => Shape
  <1> SUFFICES ASSUME Init PROVE Shape
    OBVIOUS
  <1>1. num_elements \in 0..MaxElements /\ num_elements \in Nat
    BY MaxElementsIsNat DEF Init
  <1>2. Root \in Segments
    BY <1>1, MaxElementsIsNat DEF Root, Segments
  <1>3. NoLocals \in Locals /\ NoLocals.left = 0 /\ NoLocals.right = 0 /\ NoLocals.mid = 0
    BY SortAssumption DEF NoLocals, Locals
  <1>4. /\ pc = [p \in Segments |-> IF p = Root THEN "start" ELSE "none"]
        /\ loc = [p \in Segments |-> NoLocals] /\ reaped = {} /\ faults = 0
        /\ arr \in [InArray -> Values] /\ input = arr /\ par_threshold \in Thresholds
    BY DEF Init
  <1>5. TypeOK
    <2>1. arr \in [InArray -> Values \cup Junk]
      BY <1>4
    <2>2. faults \in 0..MaxFaults
      BY <1>4, SortAssumption
    <2>3. pc \in [Segments -> Running \cup Ended \cup {"none"}]
          /\ \A p \in Segments : pc[p] # "loop"
      BY <1>4 DEF Running
    <2> QED BY <1>1, <1>3, <1>4, <2>1, <2>2, <2>3 DEF TypeOK
  <1>6. \A p \in Segments : Started(p) <=> p = Root
    BY <1>4 DEF Started
  <1>7. Tree
    <2>1. Inside(Root, Root)
      BY <1>2, SegmentFacts DEF Inside
    <2> QED BY <1>6, <2>1 DEF Tree, Nested, Rooted, Descent, Within
  <1>8. Places
    <2>1. Outside # 0
      BY MaxElementsIsNat DEF Outside
    <2>2. Len(Root) >= 2 => 0 \in Indices(Root)
      BY <1>1 DEF Len, Indices, Root
    <2>3. \A p \in Segments : loc[p].left = 0 /\ loc[p].right = 0 /\ loc[p].mid = 0
      BY <1>3, <1>4
    <2>4. \A p \in Segments : pc[p] = IF p = Root THEN "start" ELSE "none"
      BY <1>4
    <2> HIDE DEF Init
    <2> QED BY <2>1, <2>2, <2>3, <2>4, MaxElementsIsNat DEF Places, Forked, HasResult, Split
  <1> QED BY <1>5, <1>7, <1>8 DEF Shape

-----------------------------------------------------------------------------
(* How processes end *)

\* Below a success there are only successes.
Done ==
    \A p, q \in Segments :
        Started(q) /\ Within(q, p) /\ pc[p] \in {"exited0", "unmap"} => pc[q] = "exited0"

\* What still runs below a result descends from a process that was killed.
Left ==
    \A p, c \in Segments : HasResult(p) /\ pc[c] \in Running /\ Within(c, p) =>
        \E k \in Segments : pc[k] = "killed" /\ Inside(c, k) /\ Inside(k, p)

Reaped ==
    /\ \A p \in Segments : HasResult(p) /\ Recursive(p) =>
          /\ Started(LeftOf(p)) => LeftOf(p) \in reaped
          /\ Started(RightOf(p)) => RightOf(p) \in reaped
    /\ \A p \in Segments :
          pc[p] \in {"waitRight", "waitRightOnly"} => LeftOf(p) \in reaped

\* An error has a cause.
Cause == faults > 0 \/ Strayed # {} \/ file_size = 0
Failing == {"exited1", "killed", "waitLeftOnly", "waitRightOnly"}
Fails == \A p \in Segments : pc[p] \in Failing => Cause

Ends == Done /\ Left /\ Reaped /\ Fails

\* How a process comes to its result.
LEMMA QuietReturns ==
    ASSUME Shape, NEW p \in Segments, Quiet(p), pc'[p] \in {"exited0", "exited1", "unmap"}
    PROVE  /\ loc' = loc
           /\ \/ reaped' = reaped
              \/ pc[p] \in {"waitLeftOnly", "waitRight", "waitRightOnly"}
           /\ \/ pc[p] \in {"start", "forkLeft"} /\ pc'[p] = "exited1"
              \/ pc[p] = "enter" /\ ~Recursive(p)
              \/ pc[p] = "unmap"
              \/ /\ pc[p] = "waitLeftOnly" /\ pc[LeftOf(p)] \in Ended
                 /\ reaped' = reaped \cup {LeftOf(p)} /\ pc'[p] = "exited1"
              \/ /\ pc[p] \in {"waitRight", "waitRightOnly"} /\ pc[RightOf(p)] \in Ended
                 /\ reaped' = reaped \cup {RightOf(p)}
                 /\ pc'[p] # "exited1" =>
                       pc[LeftOf(p)] = "exited0" /\ pc[RightOf(p)] = "exited0"
  <1> USE DEF Shape
  <1>1. pc \in [Segments -> Running \cup Ended \cup {"none"}]
    BY DEF TypeOK
  <1>2. CASE p = Root /\ Main
    BY <1>1, <1>2 DEF Main, MapFile, MapFails, Unmap, Goto
  <1>3. CASE Short(p) \/ Qsort(p)
    <2>1. ~Recursive(p)
      <3>1. Len(p) < 2 \/ Len(p) <= par_threshold
        BY <1>3 DEF Short, Qsort
      <3>2. Len(p) \in Nat /\ par_threshold \in Nat
        BY RootFacts, IndicesCount
      <3> QED BY <3>1, <3>2 DEF Recursive
    <2> QED BY <1>3, <2>1 DEF Short, Qsort
  <1>4. CASE PartitionStep(p)
    BY <1>1, <1>4 DEF PartitionStep, Partition, ScanLeft, ScanRight, SwapPair, Spill,
       Segfault, Place, InLoop, Goto
  <1>5. CASE ForkLeftFails(p)
    BY <1>1, <1>5 DEF ForkLeftFails, Goto, Returned
  <1>6. CASE ForkRightFails(p)
    BY <1>1, <1>6 DEF ForkRightFails, Goto
  <1>7. CASE WaitLeft(p)
    BY <1>1, <1>7 DEF WaitLeft, Goto
  <1>8. CASE WaitLeftOnly(p)
    BY <1>1, <1>8 DEF WaitLeftOnly, Goto, Returned, Wait
  <1>9. CASE WaitRight(p)
    BY <1>1, <1>9 DEF WaitRight, Goto, Returned, Wait
  <1>10. CASE Kill(p)
    BY <1>1, <1>10 DEF Kill, Goto
  <1>11. CASE WaitRightFails(p) \/ WaitRightOnly(p)
    BY <1>1, <1>11 DEF WaitRightFails, WaitRightOnly, Goto, Returned, Wait
  <1>12. CASE WaitLeftFails(p)
    BY <1>1, <1>12 DEF WaitLeftFails, Goto
  <1> QED
    BY <1>2, <1>3, <1>4, <1>5, <1>6, <1>7, <1>8, <1>9, <1>10, <1>11, <1>12
    DEF Quiet, WaitStep

\* Nobody forgets a child that was waited for, and a process waits for its right
\* child after its left one.
LEMMA QuietReaps ==
    ASSUME Shape, NEW p \in Segments, Quiet(p)
    PROVE  /\ reaped \subseteq reaped'
           /\ pc'[p] \in {"waitRight", "waitRightOnly"} =>
                 loc' = loc /\ LeftOf(p) \in reaped'
  <1>1. pc \in [Segments -> Running \cup Ended \cup {"none"}]
    BY DEF Shape, TypeOK
  <1>2. CASE WaitStep(p)
    BY <1>1, <1>2 DEF WaitStep, WaitLeft, WaitLeftOnly, WaitRight,
       WaitLeftFails, WaitRightFails, WaitRightOnly, Wait, Goto, Returned
  <1>3. CASE ~WaitStep(p)
    BY <1>1, <1>3 DEF Quiet, Main, MapFile, MapFails, Unmap, Short, Qsort,
         PartitionStep, Partition, ScanLeft, ScanRight, SwapPair, Spill, Segfault, Place,
         ForkLeftFails, ForkRightFails, Kill, InLoop, Goto, Returned
  <1> QED BY <1>2, <1>3

\* Done is kept by a quiet step,
LEMMA QuietKeepsDone ==
    ASSUME Shape, Done, NEW p \in Segments, Quiet(p)
    PROVE  Done'
  <1> SUFFICES ASSUME NEW r \in Segments, NEW q \in Segments,
                      Started(q)', Within(q, r), pc'[r] \in {"exited0", "unmap"}
               PROVE  pc'[q] = "exited0"
    BY DEF Done, Within, Inside
  <1>1. /\ pc[p] \in Running
        /\ \A s \in Segments \ {p} : pc'[s] = pc[s] /\ loc'[s] = loc[s]
    BY QuietMovesOn
  <1>2. Started(q)
    BY <1>1 DEF Started, Running
  <1>3. CASE r # p
    <2>1. pc[q] = "exited0"
      BY <1>1, <1>2, <1>3 DEF Done
    <2> QED BY <2>1, <1>1 DEF Running
  <1>4. CASE r = p
    <2>1. q # p /\ pc'[q] = pc[q]
      BY <1>1, <1>4 DEF Within
    <2>2. /\ Split(p) /\ pc[p] \notin Childless
          /\ Inside(q, LeftOf(p)) \/ Inside(q, RightOf(p))
      BY <1>1, <1>2, <1>4 DEF Shape, Tree, Descent, Started, Running
    <2>3. CASE pc[p] = "unmap"
      BY <2>1, <2>3, <1>2, <1>4 DEF Done
    <2>4. CASE pc[LeftOf(p)] = "exited0" /\ pc[RightOf(p)] = "exited0"
      <3>1. LeftOf(p) \in Segments /\ RightOf(p) \in Segments
        BY <2>2, Children
      <3> QED BY <3>1, <2>1, <2>2, <2>4, <1>2 DEF Done, Within
    <2> QED BY <1>4, <2>2, <2>3, <2>4, QuietReturns DEF Childless
  <1> QED BY <1>3, <1>4

\* Left is,
LEMMA QuietKeepsLeft ==
    ASSUME Shape, Done, Left, Reaped, NEW p \in Segments, Quiet(p)
    PROVE  Left'
  <1> SUFFICES ASSUME NEW r \in Segments, NEW c \in Segments,
                      HasResult(r)', pc'[c] \in Running, Within(c, r)
               PROVE  \E k \in Segments : pc'[k] = "killed" /\ Inside(c, k) /\ Inside(k, r)
    BY DEF Left, Within, Inside
  <1>1. /\ pc[p] \in Running
        /\ \A s \in Segments \ {p} : pc'[s] = pc[s] /\ loc'[s] = loc[s]
    BY QuietMovesOn
  <1>2. pc[c] \in Running /\ Started(c)
    BY <1>1 DEF Started, Running
  <1>3. \A k \in Segments : pc[k] = "killed" => pc'[k] = "killed"
    BY <1>1 DEF Running
  <1>4. CASE r # p
    <2>1. HasResult(r)
      BY <1>1, <1>4 DEF HasResult
    <2> QED BY <2>1, <1>2, <1>3 DEF Left
  <1>5. CASE r = p
    <2>1. /\ Split(p) /\ pc[p] \notin Childless
          /\ \/ Inside(c, LeftOf(p))
             \/ Inside(c, RightOf(p)) /\ pc[p] # "waitLeftOnly"
      BY <1>1, <1>2, <1>5 DEF Shape, Tree, Descent, Started, Running
    <2>2. pc[p] # "unmap"
      <3>1. ASSUME pc[p] = "unmap" PROVE FALSE
        <4>1. pc[c] = "exited0"
          BY <1>2, <1>5, <3>1 DEF Done
        <4> QED BY <4>1, <1>2 DEF Running
      <3> QED BY <3>1
    <2>3. /\ LeftOf(p) \in Segments /\ RightOf(p) \in Segments
          /\ Inside(LeftOf(p), p) /\ Inside(RightOf(p), p)
      BY <2>1, Children DEF Within
    <2>4. ASSUME NEW d \in Segments, Inside(d, p), Inside(c, d), pc[d] \in Ended
          PROVE  \E k \in Segments : pc'[k] = "killed" /\ Inside(c, k) /\ Inside(k, r)
      <3>1. c # d
        BY <2>4, <1>2 DEF Running, Ended
      <3>2. CASE pc[d] = "killed"
        BY <3>2, <2>4, <1>3, <1>5
      <3>3. CASE pc[d] # "killed"
        <4>1. HasResult(d) /\ Within(c, d)
          BY <3>1, <3>3, <2>4 DEF HasResult, Ended, Within
        <4>2. PICK k \in Segments : pc[k] = "killed" /\ Inside(c, k) /\ Inside(k, d)
          BY <4>1, <1>2 DEF Left
        <4>3. Inside(k, p)
          BY <4>2, <2>4, SegmentFacts DEF Inside
        <4> QED BY <4>2, <4>3, <1>3, <1>5
      <3> QED BY <3>2, <3>3
    <2>5. pc'[p] \in {"exited0", "exited1", "unmap"}
      BY <1>5 DEF HasResult
    <2>6. CASE pc[p] = "waitLeftOnly"
      <3>1. pc[LeftOf(p)] \in Ended
        BY <2>5, <2>6, QuietReturns
      <3> QED BY <3>1, <2>1, <2>3, <2>4, <2>6
    <2>7. CASE pc[p] \in {"waitRight", "waitRightOnly"}
      <3>1. pc[RightOf(p)] \in Ended
        BY <2>5, <2>7, QuietReturns
      <3>2. pc[LeftOf(p)] \in Ended
        BY <2>7 DEF Reaped, Shape, TypeOK
      <3> QED BY <3>1, <3>2, <2>1, <2>3, <2>4
    <2> QED BY <2>1, <2>2, <2>5, <2>6, <2>7, QuietReturns DEF Childless
  <1> QED BY <1>4, <1>5

\* and Reaped.
LEMMA QuietKeepsReaped ==
    ASSUME Shape, Reaped, NEW p \in Segments, Quiet(p), Shape'
    PROVE  Reaped'
  <1>1. /\ pc[p] \in Running /\ file' = file /\ pc'[p] # "none"
        /\ \A s \in Segments \ {p} : pc'[s] = pc[s] /\ loc'[s] = loc[s]
    BY QuietMovesOn DEF Running, Ended
  <1>2. reaped \subseteq reaped'
    BY QuietReaps
  <1>3. \A c \in Segments : Started(c)' <=> Started(c)
    BY <1>1 DEF Started, Running
  <1>4. \A s \in Segments : Recursive(s)' <=> Recursive(s)
    BY <1>1 DEF Recursive, file
  <1>5. ASSUME NEW r \in Segments, HasResult(r)', Recursive(r)'
        PROVE  /\ Started(LeftOf(r))' => LeftOf(r)' \in reaped'
               /\ Started(RightOf(r))' => RightOf(r)' \in reaped'
    <2>1. loc'[r] = loc[r]
      BY <1>1, <1>5, QuietReturns DEF HasResult
    <2>2. /\ LeftOf(r)' = LeftOf(r) /\ RightOf(r)' = RightOf(r)
          /\ (pc[LeftOf(r)])' = pc'[LeftOf(r)] /\ (pc[RightOf(r)])' = pc'[RightOf(r)]
      BY <2>1 DEF LeftOf, RightOf
    <2>3. Split(r)
      <3>1. Split(r)'
        BY <1>5 DEF Shape, Places
      <3> QED BY <3>1, <2>1 DEF Split, Indices
    <2>4. /\ LeftOf(r) \in Segments /\ RightOf(r) \in Segments
          /\ Within(LeftOf(r), r) /\ Within(RightOf(r), r)
          /\ LeftOf(r)[2] < RightOf(r)[1]
      BY <2>3, Children
    <2>5. /\ Started(LeftOf(r))' => Started(LeftOf(r))
          /\ Started(RightOf(r))' => Started(RightOf(r))
      BY <2>2, <2>4, <1>3 DEF Started
    <2>6. Recursive(r)
      BY <1>4, <1>5
    <2>7. CASE r # p \/ pc[p] = "unmap"
      <3>1. HasResult(r)
        BY <2>7, <1>1, <1>5 DEF HasResult
      <3> QED BY <3>1, <2>2, <2>5, <2>6, <1>2 DEF Reaped
    <2>8. CASE r = p /\ pc[p] # "unmap"
      <3>1. pc'[p] \in {"exited0", "exited1", "unmap"}
        BY <1>5, <2>8 DEF HasResult
      <3>2. CASE pc[p] \in Childless
        <4>1. ~Started(LeftOf(p)) /\ ~Started(RightOf(p))
          BY <2>4, <2>8, <3>2 DEF Shape, Tree, Descent, Childless, Started
        <4> QED BY <4>1, <2>5, <2>8
      <3>3. CASE pc[p] = "waitLeftOnly"
        <4>1. ~Started(RightOf(p))
          <5>1. ASSUME Started(RightOf(p)) PROVE FALSE
            <6>1. Inside(RightOf(p), LeftOf(p))
              BY <2>4, <2>8, <3>3, <5>1 DEF Shape, Tree, Descent, Started
            <6> QED BY <6>1, <2>4, <2>8, SegmentFacts DEF Inside
          <5> QED BY <5>1
        <4>2. LeftOf(p) \in reaped'
          BY <3>1, <3>3, QuietReturns
        <4> QED BY <4>1, <4>2, <2>2, <2>5, <2>8
      <3>4. CASE pc[p] \in {"waitRight", "waitRightOnly"}
        <4>1. RightOf(p) \in reaped'
          BY <3>1, <3>4, QuietReturns
        <4>2. LeftOf(p) \in reaped'
          BY <3>4, <1>2 DEF Reaped
        <4> QED BY <4>1, <4>2, <2>2, <2>8
      <3> QED BY <3>1, <3>2, <3>3, <3>4, <2>8, QuietReturns DEF Childless
    <2> QED BY <2>7, <2>8
  <1>6. ASSUME NEW r \in Segments, pc'[r] \in {"waitRight", "waitRightOnly"}
        PROVE  LeftOf(r)' \in reaped'
    <2>1. CASE r # p
      BY <1>1, <1>2, <1>6, <2>1 DEF Reaped, LeftOf
    <2>2. CASE r = p
      BY <1>6, <2>2, QuietReaps DEF LeftOf
    <2> QED BY <2>1, <2>2
  <1> QED BY <1>5, <1>6 DEF Reaped

\* A process that is forked is in none of the segments with a result, nor is the
\* one that forks it.
LEMMA ForkFacts ==
    ASSUME Shape, NEW p \in Segments, ForkLeft(p) \/ ForkRight(p)
    PROVE  \E c \in Segments :
              /\ pc[p] \in Running /\ pc[c] = "none" /\ Within(c, p)
              /\ pc'[p] \in Running /\ pc'[c] = "enter"
              /\ \A q \in Segments \ {p, c} : pc'[q] = pc[q]
              /\ \A r \in Segments : Started(r) /\ Within(c, r) => r = p \/ Within(p, r)
              /\ loc' = loc /\ reaped' = reaped /\ faults' = faults /\ file' = file
              /\ arr' = arr
              /\ pc'[p] \in {"forkRight", "waitLeft"}
  <1>1. PICK c \in Segments :
           /\ Forks(p, c) /\ Unborn(p, c) /\ pc[c] = "none"
           /\ pc'[p] \in {"forkRight", "waitLeft"} /\ pc'[c] = "enter"
    BY LeftForks, RightForks
  <1>2. UNCHANGED <<file, arr, loc, reaped, faults>> /\ pc[p] \in {"forkLeft", "forkRight"}
    BY DEF ForkLeft, ForkRight
  <1>3. ASSUME NEW r \in Segments, Started(r), Within(c, r)
        PROVE  r = p \/ Within(p, r)
    <2>1. ~Apart(r, c)
      BY <1>3, SegmentFacts DEF Apart, Within, Inside
    <2> QED BY <2>1, <1>1, <1>3 DEF Unborn
  <1> QED BY <1>1, <1>2, <1>3 DEF Unborn, Forks, Running

\* Done is kept by a fork,
LEMMA ForkKeepsDone ==
    ASSUME Shape, Done, NEW p \in Segments, ForkLeft(p) \/ ForkRight(p)
    PROVE  Done'
  <1>1. PICK c \in Segments :
           /\ pc[p] \in Running /\ pc[c] = "none"
           /\ pc'[p] \in Running /\ pc'[c] = "enter"
           /\ \A q \in Segments \ {p, c} : pc'[q] = pc[q]
           /\ \A r \in Segments : Started(r) /\ Within(c, r) => r = p \/ Within(p, r)
    BY ForkFacts
  <1> SUFFICES ASSUME NEW r \in Segments, NEW q \in Segments,
                      Started(q)', Within(q, r), pc'[r] \in {"exited0", "unmap"}
               PROVE  pc'[q] = "exited0"
    BY DEF Done, Within, Inside
  <1>2. r # c
    BY <1>1
  <1>3. CASE pc[r] \in {"exited0", "unmap"} /\ r # p
    <2>1. Started(r) /\ Started(p) /\ pc[p] # "exited0"
      BY <1>1, <1>3 DEF Started, Running
    <2>2. ~Within(p, r)
      BY <2>1, <1>3 DEF Done
    <2>3. q # c
      BY <2>1, <2>2, <1>1, <1>3
    <2>4. q # p
      BY <2>2
    <2> QED BY <2>3, <2>4, <1>1, <1>3 DEF Done, Started
  <1>4. CASE r = p
    <2>1. pc'[p] \in {"forkRight", "waitLeft"}
      BY ForkFacts
    <2> QED BY <2>1, <1>4
  <1> QED BY <1>1, <1>2, <1>3, <1>4

\* Left is,
LEMMA ForkKeepsLeft ==
    ASSUME Shape, Left, NEW p \in Segments, ForkLeft(p) \/ ForkRight(p)
    PROVE  Left'
  <1>1. PICK c \in Segments :
           /\ pc[p] \in Running /\ pc[c] = "none" /\ Within(c, p)
           /\ pc'[p] \in {"forkRight", "waitLeft"} /\ pc'[c] = "enter"
           /\ \A q \in Segments \ {p, c} : pc'[q] = pc[q]
           /\ \A r \in Segments : Started(r) /\ Within(c, r) => r = p \/ Within(p, r)
    BY ForkFacts
  <1> SUFFICES ASSUME NEW r \in Segments, NEW d \in Segments,
                      HasResult(r)', pc'[d] \in Running, Within(d, r)
               PROVE  \E k \in Segments : pc'[k] = "killed" /\ Inside(d, k) /\ Inside(k, r)
    BY DEF Left, Within, Inside
  <1>2. r # c /\ r # p /\ HasResult(r) /\ Started(r)
    BY <1>1 DEF HasResult, Started
  <1>3. \A k \in Segments : pc[k] = "killed" => pc'[k] = "killed"
    BY <1>1 DEF Running
  <1>4. CASE d = c
    <2>1. Within(p, r)
      BY <1>1, <1>2, <1>4
    <2>2. PICK k \in Segments : pc[k] = "killed" /\ Inside(p, k) /\ Inside(k, r)
      BY <2>1, <1>1, <1>2 DEF Left
    <2>3. Inside(d, k)
      BY <2>2, <1>1, <1>4, SegmentFacts DEF Within, Inside
    <2> QED BY <2>2, <2>3, <1>3
  <1>5. CASE d # c
    <2>1. pc[d] \in Running
      BY <1>1, <1>5
    <2> QED BY <2>1, <1>2, <1>3 DEF Left
  <1> QED BY <1>4, <1>5

\* and Reaped.
LEMMA ForkKeepsReaped ==
    ASSUME Shape, Reaped, NEW p \in Segments, ForkLeft(p) \/ ForkRight(p)
    PROVE  Reaped'
  <1>1. PICK c \in Segments :
           /\ pc[p] \in Running /\ pc[c] = "none" /\ Within(c, p)
           /\ pc'[p] \in {"forkRight", "waitLeft"} /\ pc'[c] = "enter"
           /\ \A q \in Segments \ {p, c} : pc'[q] = pc[q]
           /\ \A r \in Segments : Started(r) /\ Within(c, r) => r = p \/ Within(p, r)
           /\ loc' = loc /\ reaped' = reaped /\ file' = file
    BY ForkFacts
  <1>2. \A s \in Segments : /\ Recursive(s)' <=> Recursive(s)
                            /\ LeftOf(s)' = LeftOf(s) /\ RightOf(s)' = RightOf(s)
    BY <1>1 DEF Recursive, file, LeftOf, RightOf
  <1>3. ASSUME NEW r \in Segments, HasResult(r)', Recursive(r)
        PROVE  /\ Started(LeftOf(r))' => LeftOf(r) \in reaped
               /\ Started(RightOf(r))' => RightOf(r) \in reaped
    <2>1. r # c /\ r # p /\ HasResult(r) /\ Started(r)
      BY <1>1, <1>3 DEF HasResult, Started
    <2>2. Split(r)
      BY <2>1, <1>3 DEF Shape, Places
    <2>3. /\ LeftOf(r) \in Segments /\ RightOf(r) \in Segments
          /\ Within(LeftOf(r), r) /\ Within(RightOf(r), r)
          /\ LeftOf(r)[2] < RightOf(r)[1]
      BY <2>2, Children
    <2>4. ASSUME c = LeftOf(r) \/ c = RightOf(r) PROVE FALSE
      <3>1. Within(p, r) /\ Started(p)
        BY <2>1, <2>3, <2>4, <1>1 DEF Started, Running
      <3>2. Inside(p, LeftOf(r)) \/ Inside(p, RightOf(r))
        BY <2>1, <3>1 DEF Shape, Tree, Descent
      <3>3. Inside(c, p) /\ c # p
        BY <1>1 DEF Within
      <3>4. CASE Inside(p, c)
        BY <3>3, <3>4, InsideBoth
      <3>5. CASE c = LeftOf(r) /\ Inside(p, RightOf(r))
        BY <2>3, <3>3, <3>5, SegmentFacts DEF Inside
      <3>6. CASE c = RightOf(r) /\ Inside(p, LeftOf(r))
        BY <2>3, <3>3, <3>6, SegmentFacts DEF Inside
      <3> QED BY <2>4, <3>2, <3>4, <3>5, <3>6
    <2>5. /\ (pc[LeftOf(r)])' = pc'[LeftOf(r)] /\ (pc[RightOf(r)])' = pc'[RightOf(r)]
      BY <1>1 DEF LeftOf, RightOf
    <2>6. /\ Started(LeftOf(r))' => Started(LeftOf(r))
          /\ Started(RightOf(r))' => Started(RightOf(r))
      BY <2>3, <2>4, <2>5, <1>1 DEF Started, Running
    <2> QED BY <2>1, <2>6, <1>3 DEF Reaped
  <1>4. ASSUME NEW r \in Segments, pc'[r] \in {"waitRight", "waitRightOnly"}
        PROVE  LeftOf(r) \in reaped
    BY <1>1, <1>4 DEF Reaped
  <1> QED BY <1>1, <1>2, <1>3, <1>4 DEF Reaped

\* What went wrong stays so.
LEMMA CauseStays ==
    ASSUME Shape, Next
    PROVE  Strayed \subseteq Strayed' /\ (Cause => Cause')
  <1>1. /\ loc \in [Segments -> Locals] /\ Outside \in Nat
        /\ faults \in Nat
    BY MaxElementsIsNat, SortAssumption DEF Shape, TypeOK, Outside
  <1>2. PICK p \in Segments : Quiet(p) \/ ForkLeft(p) \/ ForkRight(p)
    BY StepIsQuietOrForks
  <1>3. Strayed \subseteq Strayed'
    <2>1. CASE loc' = loc
      BY <2>1 DEF Strayed
    <2>2. CASE Partition(p)
      <3>1. loc[p].right # Outside
        BY <2>2 DEF Partition, Shape, Places
      <3> QED BY <2>2, <3>1, <1>1 DEF Partition, Strayed
    <2>3. CASE ScanLeft(p)
      BY <2>3, <1>1 DEF ScanLeft, Strayed, Locals
    <2>4. CASE ScanRight(p)
      <3>1. loc[p].right # Outside
        BY <2>4, RootFacts, MaxElementsIsNat DEF ScanRight, InArray, Outside, Shape
      <3> QED BY <2>4, <3>1, <1>1 DEF ScanRight, Strayed
    <2>5. CASE Place(p)
      BY <2>5, <1>1 DEF Place, Strayed, Locals
    <2> QED
      BY <2>1, <2>2, <2>3, <2>4, <2>5, <1>2 DEF Quiet, Main, MapFile, MapFails, Unmap,
         Short, Qsort, PartitionStep, SwapPair, Spill, Segfault, ForkLeftFails,
         ForkRightFails, WaitStep, WaitLeftOnly, WaitLeft, WaitRight,
       WaitLeftFails, WaitRightFails, WaitRightOnly, Kill, ForkLeft,
         ForkRight
  <1>4. faults' = faults \/ faults' = faults + 1
    BY <1>2 DEF Quiet, Main, MapFile, MapFails, Unmap, Partition, ScanLeft, ScanRight,
         Place, Fault,
         Short, Qsort, PartitionStep, SwapPair, Spill, Segfault, ForkLeftFails,
         ForkRightFails, WaitStep, WaitLeftOnly, WaitLeft, WaitRight,
       WaitLeftFails, WaitRightFails, WaitRightOnly, Kill, ForkLeft,
         ForkRight
  <1>5. file_size' = file_size
    BY <1>2, QuietMovesOn, ForkFacts DEF file
  <1> QED BY <1>1, <1>3, <1>4, <1>5 DEF Cause

\* A process that gives up has a reason.
LEMMA QuietFails ==
    ASSUME Shape, Reaped, Fails, NEW p \in Segments, Quiet(p),
           pc'[p] \in Failing
    PROVE  Cause'
  <1>1. pc \in [Segments -> Running \cup Ended \cup {"none"}]
    BY DEF Shape, TypeOK
  <1>2. faults \in Nat
    BY SortAssumption DEF Shape, TypeOK
  <1>3. CASE Fault
    BY <1>2, <1>3 DEF Fault, Cause
  <1>4. ASSUME Cause PROVE Cause'
    BY <1>4, CauseStays DEF Quiet, Next, Step, ForkStep
  <1>5. CASE p = Root /\ Main
    BY <1>1, <1>3, <1>4, <1>5 DEF Failing, Main, MapFile, MapFails, Unmap, Goto, Cause
  <1>6. CASE Segfault(p)
    <2>1. Strayed # {}
      BY <1>6 DEF Segfault, Strayed
    <2> QED BY <2>1, <1>4 DEF Cause
  <1>7. CASE ForkLeftFails(p) \/ ForkRightFails(p) \/ Kill(p)
    BY <1>3, <1>7 DEF ForkLeftFails, ForkRightFails, Kill
  <1>8. CASE WaitLeftOnly(p)
    BY <1>4, <1>8 DEF WaitLeftOnly, Fails, Failing
  <1>9. CASE WaitRight(p)
    <2>1. Split(p)
      BY <1>9 DEF WaitRight, Forked, Shape, Places
    <2>2. LeftOf(p) \in Segments /\ RightOf(p) \in Segments
      BY <2>1, Children
    <2>3. pc[LeftOf(p)] \in Ended /\ pc[RightOf(p)] \in Ended
      BY <1>9 DEF WaitRight, Wait, Reaped, Shape, TypeOK
    <2>4. ~(pc[LeftOf(p)] = "exited0" /\ pc[RightOf(p)] = "exited0")
      BY <1>1, <1>9 DEF WaitRight, Goto, Returned, Failing
    <2>5. Cause
      BY <2>2, <2>3, <2>4 DEF Fails, Failing, Ended
    <2> QED BY <2>5, <1>4
  <1>12. CASE WaitLeftFails(p) \/ WaitRightFails(p)
    BY <1>3, <1>12 DEF WaitLeftFails, WaitRightFails
  <1>13. CASE WaitRightOnly(p)
    BY <1>4, <1>13 DEF WaitRightOnly, Fails, Failing
  <1>10. CASE Short(p) \/ Qsort(p) \/ WaitLeft(p)
    BY <1>1, <1>10 DEF Failing, Short, Qsort, WaitLeft, Goto, Returned
  <1>11. CASE PartitionStep(p) /\ ~Segfault(p)
    BY <1>1, <1>11 DEF Failing, PartitionStep, Partition, ScanLeft, ScanRight, SwapPair,
       Spill, Place, InLoop, Goto
  <1> QED
    BY <1>5, <1>6, <1>7, <1>8, <1>9, <1>10, <1>11, <1>12, <1>13 DEF Quiet, WaitStep

\* Ends is kept by every step,
LEMMA EndsStep ==
    ASSUME Shape, Ends, Next
    PROVE  Ends'
  <1>1. PICK p \in Segments : Quiet(p) \/ ForkLeft(p) \/ ForkRight(p)
    BY StepIsQuietOrForks
  <1>2. Done /\ Left /\ Reaped /\ Fails /\ Shape'
    BY ShapeStep DEF Ends
  <1>3. Done' /\ Left' /\ Reaped'
    BY <1>1, <1>2, QuietKeepsDone, QuietKeepsLeft, QuietKeepsReaped, ForkKeepsDone,
       ForkKeepsLeft, ForkKeepsReaped
  <1>4. Fails'
    <2> SUFFICES ASSUME NEW q \in Segments,
                        pc'[q] \in Failing
                 PROVE  Cause'
      BY DEF Fails
    <2>1. CASE pc'[q] = pc[q]
      BY <2>1, <1>2, CauseStays DEF Fails
    <2>2. CASE Quiet(p)
      <3>1. CASE q = p
        BY <3>1, <2>2, <1>2, QuietFails
      <3>2. CASE q # p
        BY <3>2, <2>1, <2>2, QuietMovesOn
      <3> QED BY <3>1, <3>2
    <2>3. CASE ForkLeft(p) \/ ForkRight(p)
      <3>1. PICK c \in Segments :
               /\ pc'[p] \in {"forkRight", "waitLeft"} /\ pc'[c] = "enter"
               /\ \A s \in Segments \ {p, c} : pc'[s] = pc[s]
        BY <2>3, ForkFacts
      <3>2. q # p /\ q # c
        BY <3>1 DEF Failing
      <3> QED BY <3>1, <3>2, <2>1
    <2> QED BY <1>1, <2>2, <2>3
  <1> QED BY <1>3, <1>4 DEF Ends

\* and true at the start.
LEMMA EndsInit == Init => Ends
  <1> SUFFICES ASSUME Init PROVE Ends
    OBVIOUS
  <1>1. \A p \in Segments : pc[p] \in {"start", "none"}
    BY DEF Init
  <1> QED BY <1>1 DEF Ends, Done, Left, Reaped, Fails, Failing, HasResult

\* What has ended stays so while nothing happens.
LEMMA Stutter ==
    ASSUME Shape, Ends, UNCHANGED vars
    PROVE  Shape' /\ Ends'
  <1> USE DEF vars
  <1>1. TypeOK'
    BY DEF Shape, TypeOK, InArray
  <1>2. Tree'
    BY DEF Shape, Tree, Nested, Rooted, Descent, Started, Split, LeftOf, RightOf, Root
  <1>3. Places'
    BY DEF Shape, Places, Root, Split, Forked, HasResult, Recursive
  <1>4. Ends'
    BY DEF Ends, Done, Left, Reaped, Fails, Failing, HasResult, Recursive, Started, Cause,
       Strayed,
       LeftOf, RightOf
  <1> QED BY <1>1, <1>2, <1>3, <1>4 DEF Shape

\* Shape and Ends are an invariant.
LEMMA AlwaysShape == Spec => [](Shape /\ Ends)
  <1>1. Init => Shape /\ Ends
    BY ShapeInit, EndsInit
  <1>2. Shape /\ Ends /\ [Next]_vars => (Shape /\ Ends)'
    BY ShapeStep, EndsStep, Stutter
  <1> QED BY <1>1, <1>2, PTL DEF Spec

\* Every variable keeps its type, and a process that has not strayed keeps its
\* indices within its segment, for files of any size and any threshold.
THEOREM SortTypes == Spec => []TypeOK
  <1>1. Shape => TypeOK
    BY DEF Shape
  <1> QED BY <1>1, AlwaysShape, PTL

\* What NothingLeftBehind says follows from Left and Reaped.
LEMMA NothingIsLeft == Shape /\ Ends => NothingLeftBehind
  <1> SUFFICES ASSUME Shape, Ends, NEW p \in Segments, Exited(p)
               PROVE  /\ \A c \in Segments : pc[c] \in Running /\ Inside(c, p) =>
                            \E k \in Segments :
                               pc[k] = "killed" /\ Inside(c, k) /\ Inside(k, p)
                      /\ \A c \in {LeftOf(p), RightOf(p)} :
                            Len(p) >= 2 /\ Len(p) > par_threshold /\ pc[c] # "none"
                               => c \in reaped
    BY DEF NothingLeftBehind
  <1>1. HasResult(p) /\ pc[p] \notin Running
    BY DEF Exited, HasResult, Running
  <1>2. ASSUME NEW c \in Segments, pc[c] \in Running, Inside(c, p)
        PROVE  \E k \in Segments : pc[k] = "killed" /\ Inside(c, k) /\ Inside(k, p)
    BY <1>1, <1>2 DEF Ends, Left, Within
  <1>3. ASSUME NEW c \in {LeftOf(p), RightOf(p)}, Len(p) >= 2, Len(p) > par_threshold,
               pc[c] # "none"
        PROVE  c \in reaped
    BY <1>1, <1>3 DEF Ends, Reaped, Recursive, Started
  <1> QED BY <1>2, <1>3

\* Whenever a process has exited, what runs in its segment descends from one that
\* was killed, and its own children have been waited for: quicksort waits for a left
\* child even if it cannot fork the right one.
THEOREM NoOrphans == Spec => []NothingLeftBehind
  BY NothingIsLeft, AlwaysShape, PTL

-----------------------------------------------------------------------------
(* What the array holds *)

\* In partition: the pivot is at the end, and the two indices have passed only
\* words of their side.
LoopAt(p) ==
    /\ p[1] <= loc[p].right + 1
    /\ arr[p[2] - 1] = loc[p].pivot
    /\ \A i \in p[1]..(loc[p].left - 1) : arr[i] < loc[p].pivot
    /\ \A i \in (loc[p].right + 1)..(p[2] - 2) : arr[i] >= loc[p].pivot

SplitAt(p) ==
    /\ arr[loc[p].mid] = loc[p].pivot
    /\ \A i \in Indices(LeftOf(p)) : arr[i] < loc[p].pivot
    /\ \A i \in Indices(RightOf(p)) : arr[i] >= loc[p].pivot

Scanned   == \A p \in Segments : pc[p] = "loop" => LoopAt(p)
SplitUp   == \A p \in Segments : pc[p] = "forkLeft" \/ Forked(p) => SplitAt(p)
Sorted    == \A p \in Segments : pc[p] \in {"exited0", "unmap"} => IsSorted(arr, p)
Reordered == Permutation(arr, input, Root)

\* None of it holds once a process has strayed.
Data == Strayed = {} => Scanned /\ SplitUp /\ Sorted /\ Reordered

\* A quiet step writes to the segment of its own process or not at all.
LEMMA QuietWrites ==
    ASSUME Shape, NEW p \in Segments, Quiet(p), Strayed = {}
    PROVE  arr' = arr \/ (Rearranged(arr, arr', p) /\ pc[p] \in {"enter", "loop"})
  <1>1. CASE Partition(p)
    BY <1>1, MiddleSwapped DEF Partition
  <1>2. CASE SwapPair(p)
    BY <1>2, PairSwapped DEF SwapPair, InLoop
  <1>3. CASE Place(p)
    BY <1>3, PivotSwapped DEF Place
  <1>4. CASE Qsort(p)
    BY <1>4, SegmentSorted DEF Qsort
  <1>5. ~Spill(p)
    BY DEF Spill, Strayed
  <1> QED
    BY <1>1, <1>2, <1>3, <1>4, <1>5 DEF Quiet, Main, MapFile, MapFails, Unmap, Short,
       PartitionStep, ScanLeft, ScanRight, Segfault, ForkLeftFails, ForkRightFails,
       WaitStep, WaitLeftOnly, WaitLeft, WaitRight,
       WaitLeftFails, WaitRightFails, WaitRightOnly, Kill

\* A process that sorts its own segment does not disturb one that partitions
\* another, nor one that has finished,
LEMMA OthersUntouched ==
    ASSUME Shape, Done, NEW w \in Segments, pc[w] \in {"enter", "loop"},
           Rearranged(arr, arr', w), NEW p \in Segments, p # w,
           pc[p] \in {"loop", "exited0", "unmap"}
    PROVE  \A i \in Indices(p) : arr'[i] = arr[i]
  <1>1. Started(w) /\ Started(p) /\ pc[w] \in Childless
    BY DEF Started, Childless
  <1>2. ~Inside(p, w)
    BY <1>1 DEF Shape, Tree, Descent, Within
  <1>3. ~Inside(w, p)
    <2>1. CASE pc[p] = "loop"
      BY <1>1, <2>1 DEF Shape, Tree, Descent, Within, Childless
    <2>2. CASE pc[p] # "loop"
      BY <1>1, <2>2 DEF Done, Within
    <2> QED BY <2>1, <2>2
  <1>4. Apart(p, w)
    BY <1>1, <1>2, <1>3 DEF Shape, Tree, Nested
  <1>5. Indices(p) \cap Indices(w) = {}
    BY <1>4, SegmentFacts DEF Apart, Indices
  <1>6. Indices(p) \subseteq DOMAIN arr
    BY <1>1, StartedIsInArray DEF Shape
  <1> QED BY <1>5, <1>6 DEF Rearranged

\* How a range c..(d - 1) lies to the parts of a..(b - 1) before and after m.
LEMMA SplitRanges ==
    ASSUME NEW a \in Nat, NEW b \in Nat, NEW m \in Nat, a <= m, m < b,
           NEW c \in Nat, NEW d \in Nat
    PROVE  /\ m \in a..(b - 1) /\ a..(m - 1) \subseteq a..(b - 1)
           /\ (m + 1)..(b - 1) \subseteq a..(b - 1)
           /\ d <= a \/ b <= c => (a..(b - 1)) \cap (c..(d - 1)) = {}
           /\ a <= c /\ d <= m =>
                 /\ c..(d - 1) \subseteq a..(m - 1) /\ m \notin c..(d - 1)
                 /\ (c..(d - 1)) \cap ((m + 1)..(b - 1)) = {}
           /\ m + 1 <= c /\ d <= b =>
                 /\ c..(d - 1) \subseteq (m + 1)..(b - 1) /\ m \notin c..(d - 1)
                 /\ (c..(d - 1)) \cap (a..(m - 1)) = {}
  <1>1. /\ m \in a..(b - 1) /\ a..(m - 1) \subseteq a..(b - 1)
        /\ (m + 1)..(b - 1) \subseteq a..(b - 1)
    OBVIOUS
  <1>2. ASSUME d <= a \/ b <= c PROVE (a..(b - 1)) \cap (c..(d - 1)) = {}
    BY <1>2
  <1>3. ASSUME a <= c, d <= m
        PROVE  /\ c..(d - 1) \subseteq a..(m - 1) /\ m \notin c..(d - 1)
               /\ (c..(d - 1)) \cap ((m + 1)..(b - 1)) = {}
    BY <1>3
  <1>4. ASSUME m + 1 <= c, d <= b
        PROVE  /\ c..(d - 1) \subseteq (m + 1)..(b - 1) /\ m \notin c..(d - 1)
               /\ (c..(d - 1)) \cap (a..(m - 1)) = {}
    BY <1>4
  <1> QED BY <1>1, <1>2, <1>3, <1>4

\* nor the pivot and the sides of an ancestor.
LEMMA SplitUntouched ==
    ASSUME Shape, NEW w \in Segments, pc[w] \in {"enter", "loop"},
           Rearranged(arr, arr', w), NEW p \in Segments, p # w,
           pc[p] = "forkLeft" \/ Forked(p), SplitAt(p)
    PROVE  /\ arr'[loc[p].mid] = loc[p].pivot
           /\ \A i \in Indices(LeftOf(p)) : arr'[i] < loc[p].pivot
           /\ \A i \in Indices(RightOf(p)) : arr'[i] >= loc[p].pivot
  <1>1. Started(w) /\ Started(p) /\ pc[w] \in Childless
    BY DEF Started, Childless, Forked
  <1>2. Split(p)
    BY DEF Shape, Places
  <1>3. /\ LeftOf(p) \in Segments /\ RightOf(p) \in Segments
        /\ LeftOf(p)[1] = p[1] /\ LeftOf(p)[2] = loc[p].mid
        /\ RightOf(p)[1] = loc[p].mid + 1 /\ RightOf(p)[2] = p[2]
        /\ loc[p].mid \in Nat /\ loc[p].mid < p[2] /\ p[1] <= loc[p].mid
    BY <1>2, Children
  <1>4. /\ Indices(LeftOf(p)) = p[1]..(loc[p].mid - 1)
        /\ Indices(RightOf(p)) = (loc[p].mid + 1)..(p[2] - 1)
        /\ Indices(p) = p[1]..(p[2] - 1) /\ Indices(w) = w[1]..(w[2] - 1)
    BY <1>3 DEF Indices
  <1>5. /\ p[1] \in Nat /\ p[2] \in Nat /\ w[1] \in Nat /\ w[2] \in Nat /\ w[1] <= w[2]
    BY SegmentFacts
  <1>0. /\ loc[p].mid \in Indices(p) /\ Indices(LeftOf(p)) \subseteq Indices(p)
        /\ Indices(RightOf(p)) \subseteq Indices(p)
    <2>1. loc[p].mid \in Nat /\ loc[p].mid < p[2] /\ p[1] <= loc[p].mid
      BY <1>3
    <2>2. /\ loc[p].mid \in p[1]..(p[2] - 1)
          /\ p[1]..(loc[p].mid - 1) \subseteq p[1]..(p[2] - 1)
          /\ (loc[p].mid + 1)..(p[2] - 1) \subseteq p[1]..(p[2] - 1)
      BY <2>1, <1>5, SplitRanges
    <2> QED BY <2>2, <1>4
  <1>6. Indices(p) \subseteq DOMAIN arr
    BY <1>1, StartedIsInArray DEF Shape
  <1>7. /\ \A i \in DOMAIN arr \ Indices(w) : arr'[i] = arr[i]
        /\ \A i \in Indices(w) : \E j \in Indices(w) : arr'[i] = arr[j]
    BY DEF Rearranged
  <1>8. ~Inside(p, w)
    BY <1>1 DEF Shape, Tree, Descent, Within
  <1>9. CASE Apart(p, w)
    <2>1. Indices(p) \cap Indices(w) = {}
      <3>1. w[2] <= p[1] \/ p[2] <= w[1]
        BY <1>5, <1>9 DEF Apart
      <3>2. loc[p].mid \in Nat /\ loc[p].mid < p[2] /\ p[1] <= loc[p].mid
        BY <1>3
      <3>3. (p[1]..(p[2] - 1)) \cap (w[1]..(w[2] - 1)) = {}
        BY <3>1, <3>2, <1>5, SplitRanges
      <3> QED BY <3>3, <1>4
    <2>2. \A i \in Indices(p) : arr'[i] = arr[i]
      BY <2>1, <1>6, <1>7
    <2> QED BY <2>2, <1>0 DEF SplitAt
  <1>10. CASE Inside(w, p)
    <2>1. Inside(w, LeftOf(p)) \/ Inside(w, RightOf(p))
      BY <1>1, <1>10 DEF Shape, Tree, Descent, Within
    <2>2. loc[p].mid \in Nat /\ loc[p].mid < p[2] /\ p[1] <= loc[p].mid
      BY <1>3
    <2>4. CASE Inside(w, LeftOf(p))
      <3>0. p[1] <= w[1] /\ w[2] <= loc[p].mid
        BY <2>4, <1>3 DEF Inside
      <3>1. /\ Indices(w) \subseteq Indices(LeftOf(p)) /\ loc[p].mid \notin Indices(w)
            /\ Indices(w) \cap Indices(RightOf(p)) = {}
        <4>1. /\ w[1]..(w[2] - 1) \subseteq p[1]..(loc[p].mid - 1)
              /\ loc[p].mid \notin w[1]..(w[2] - 1)
              /\ (w[1]..(w[2] - 1)) \cap ((loc[p].mid + 1)..(p[2] - 1)) = {}
          BY <3>0, <2>2, <1>5, SplitRanges
        <4> QED BY <4>1, <1>4
      <3> QED BY <3>1, <1>0, <1>6, <1>7 DEF SplitAt
    <2>5. CASE Inside(w, RightOf(p))
      <3>0. loc[p].mid + 1 <= w[1] /\ w[2] <= p[2]
        BY <2>5, <1>3 DEF Inside
      <3>1. /\ Indices(w) \subseteq Indices(RightOf(p)) /\ loc[p].mid \notin Indices(w)
            /\ Indices(w) \cap Indices(LeftOf(p)) = {}
        <4>1. /\ w[1]..(w[2] - 1) \subseteq (loc[p].mid + 1)..(p[2] - 1)
              /\ loc[p].mid \notin w[1]..(w[2] - 1)
              /\ (w[1]..(w[2] - 1)) \cap (p[1]..(loc[p].mid - 1)) = {}
          BY <3>0, <2>2, <1>5, SplitRanges
        <4> QED BY <4>1, <1>4
      <3> QED BY <3>1, <1>0, <1>6, <1>7 DEF SplitAt
    <2> QED BY <2>1, <2>4, <2>5
  <1> QED BY <1>1, <1>8, <1>9, <1>10 DEF Shape, Tree, Nested

\* What the process p does to its own segment.
LEMMA OwnScan ==
    ASSUME Shape, Scanned, Strayed = {}, Strayed' = {}, NEW p \in Segments, Quiet(p),
           pc'[p] = "loop"
    PROVE  LoopAt(p)'
  <1>1. /\ pc \in [Segments -> Running \cup Ended \cup {"none"}]
        /\ loc \in [Segments -> Locals] /\ arr \in [InArray -> Values \cup Junk]
        /\ \A i \in InArray : arr[i] \in Int
    BY SortAssumption DEF Shape, TypeOK
  <1>2. /\ p[1] \in Nat /\ p[2] \in Nat /\ Indices(p) \subseteq InArray
        /\ loc[p].left \in Nat /\ loc[p].right \in Nat /\ loc[p].pivot \in Int
    <2>1. Started(p)
      BY QuietMovesOn DEF Started, Running
    <2> QED BY <2>1, SegmentFacts, StartedIsInArray, LocFacts DEF Shape
  <1>3. loc[p].right # Outside /\ loc'[p].right # Outside
    BY DEF Strayed
  <1>4. CASE Partition(p)
    <2> DEFINE middle == p[1] + Len(p) \div 2
    <2>1. middle \in Indices(p) /\ p[2] - 1 \in Indices(p)
      BY <1>4, MiddleInside DEF Partition
    <2>2. /\ arr' = Swapped(arr, middle, p[2] - 1)
          /\ loc'[p] = [left |-> p[1], right |-> p[1] + Len(p) - 2, mid |-> 0,
                        pivot |-> arr[middle]]
      BY <1>1, <1>4 DEF Partition
    <2>3. loc'[p].left = p[1] /\ loc'[p].right = p[2] - 2 /\ loc'[p].pivot = arr[middle]
      BY <2>2, <1>2 DEF Len
    <2>4. arr'[p[2] - 1] = arr[middle]
      <3> HIDE DEF middle
      <3> QED BY <2>1, <2>2, <1>1, <1>2 DEF Swapped
    <2>5. p[1] <= (p[2] - 2) + 1
      BY <1>2, <1>4 DEF Partition, Len
    <2> HIDE DEF middle
    <2> QED BY <2>3, <2>4, <2>5, <1>2 DEF LoopAt
  <1>5. CASE ScanLeft(p)
    <2>1. /\ pc[p] = "loop" /\ arr' = arr /\ loc[p].left \in InArray
          /\ arr[loc[p].left] < loc[p].pivot
      BY <1>1, <1>2, <1>5 DEF ScanLeft, InLoop, StopsLeft
    <2>2. /\ loc'[p].left = loc[p].left + 1 /\ loc'[p].right = loc[p].right
          /\ loc'[p].pivot = loc[p].pivot
      BY <1>1, <1>5 DEF ScanLeft, Locals
    <2>3. LoopAt(p)
      BY <2>1 DEF Scanned
    <2> QED BY <2>1, <2>2, <2>3, <1>2 DEF LoopAt
  <1>6. CASE ScanRight(p)
    <2>1. /\ pc[p] = "loop" /\ arr' = arr /\ loc[p].right \in InArray
          /\ arr[loc[p].right] >= loc[p].pivot
      BY <1>1, <1>2, <1>6 DEF ScanRight, InLoop, StopsRight
    <2>2. /\ loc'[p].left = loc[p].left /\ loc'[p].pivot = loc[p].pivot
          /\ loc'[p].right = IF loc[p].right = 0 THEN Outside ELSE loc[p].right - 1
      BY <1>1, <1>6 DEF ScanRight, Locals
    <2>3. loc'[p].right = loc[p].right - 1
      BY <2>2, <1>3
    <2>4. LoopAt(p)
      BY <2>1 DEF Scanned
    <2>5. p[1] <= loc[p].left /\ loc[p].left <= loc[p].right
      BY <2>1, <1>2, <1>3, <1>6, LoopFacts DEF Shape, Indices, ScanRight, InLoop
    <2> QED BY <2>1, <2>2, <2>3, <2>4, <2>5, <1>2 DEF LoopAt
  <1>7. CASE SwapPair(p)
    <2>1. /\ pc[p] = "loop" /\ loc' = loc /\ loc[p].left <= loc[p].right
          /\ arr' = Swapped(arr, loc[p].left, loc[p].right)
      BY <1>7 DEF SwapPair, InLoop
    <2>2. /\ loc[p].left \in Indices(p) /\ loc[p].right <= p[2] - 2
          /\ p[2] - 1 \in Indices(p)
      BY <2>1, <1>3, LoopFacts DEF Shape
    <2>3. \A i \in InArray : i # loc[p].left /\ i # loc[p].right => arr'[i] = arr[i]
      BY <2>1, <1>1 DEF Swapped
    <2>4. LoopAt(p)
      BY <2>1 DEF Scanned
    <2>5. arr'[p[2] - 1] = arr[p[2] - 1]
      BY <2>1, <2>2, <2>3, <1>2 DEF Indices
    <2>6. \A i \in p[1]..(loc[p].left - 1) : arr'[i] = arr[i]
      BY <2>1, <2>2, <2>3, <1>2 DEF Indices
    <2>7. \A i \in (loc[p].right + 1)..(p[2] - 2) : arr'[i] = arr[i]
      BY <2>1, <2>2, <2>3, <1>2 DEF Indices
    <2> QED BY <2>1, <2>4, <2>5, <2>6, <2>7 DEF LoopAt
  <1>8. ~Spill(p)
    BY <1>3 DEF Spill
  <1>9. ~Place(p) /\ ~Segfault(p)
    BY <1>1 DEF Place, Segfault, Goto
  <1>10. ~Short(p) /\ ~Qsort(p) /\ ~ForkLeftFails(p) /\ ~ForkRightFails(p) /\ ~Kill(p)
    BY <1>1 DEF Short, Qsort, ForkLeftFails, ForkRightFails, Kill, Goto, Returned
  <1>11. ~WaitStep(p)
    BY <1>1 DEF WaitStep, WaitLeft, WaitLeftOnly, WaitRight,
       WaitLeftFails, WaitRightFails, WaitRightOnly, Goto, Returned
  <1>12. ~(p = Root /\ Main)
    BY <1>1 DEF Main, MapFile, MapFails, Unmap, Goto
  <1> QED
    BY <1>4, <1>5, <1>6, <1>7, <1>8, <1>9, <1>10, <1>11, <1>12 DEF Quiet, PartitionStep

\* The last swap of partition puts the pivot between its sides.
LEMMA OwnPlace ==
    ASSUME Shape, Scanned, NEW p \in Segments, Place(p)
    PROVE  SplitAt(p)'
  <1> DEFINE m == loc[p].left
             last == p[2] - 1
  <1>1. /\ loc \in [Segments -> Locals] /\ arr \in [InArray -> Values \cup Junk]
        /\ \A i \in InArray : arr[i] \in Int
    BY SortAssumption DEF Shape, TypeOK
  <1>2. /\ p[1] \in Nat /\ p[2] \in Nat /\ Indices(p) \subseteq InArray
        /\ loc[p].right \in Nat /\ loc[p].pivot \in Int
    <2>1. Started(p)
      BY DEF Started, Place
    <2> QED BY <2>1, SegmentFacts, StartedIsInArray, LocFacts DEF Shape
  <1>3. m \in Indices(p) /\ last \in Indices(p) /\ m > loc[p].right
    BY LoopFacts DEF Shape, Place
  <1>4. /\ loc'[p].mid = m /\ loc'[p].pivot = loc[p].pivot
    BY <1>1 DEF Place, Locals
  <1>5. LoopAt(p)
    BY DEF Scanned, Place
  <1>6. /\ arr'[m] = arr[last] /\ arr'[last] = arr[m]
        /\ \A i \in InArray : i # m /\ i # last => arr'[i] = arr[i]
    BY <1>1, <1>2, <1>3 DEF Place, Swapped
  <1> HIDE DEF m
  <1>7. m \in Nat /\ m <= last /\ p[1] <= m
    BY <1>2, <1>3 DEF Indices
  <1>8. arr'[m] = loc[p].pivot
    BY <1>5, <1>6 DEF LoopAt
  <1>9. \A i \in p[1]..(m - 1) : arr'[i] < loc[p].pivot
    <2>1. \A i \in p[1]..(m - 1) : i \in InArray /\ i # m /\ i # last
      BY <1>2, <1>7 DEF Indices
    <2> QED BY <2>1, <1>5, <1>6 DEF LoopAt, m
  <1>10. \A i \in (m + 1)..last : arr'[i] >= loc[p].pivot
    <2> SUFFICES ASSUME NEW i \in (m + 1)..last PROVE arr'[i] >= loc[p].pivot
      OBVIOUS
    <2>1. CASE i = last
      <3>1. m \in (loc[p].right + 1)..(p[2] - 2)
        BY <2>1, <1>2, <1>3, <1>7
      <3> QED BY <2>1, <3>1, <1>5, <1>6 DEF LoopAt
    <2>2. CASE i # last
      <3>1. i \in InArray /\ i # m /\ i \in (loc[p].right + 1)..(p[2] - 2)
        BY <2>2, <1>2, <1>3, <1>7 DEF Indices
      <3> QED BY <2>2, <3>1, <1>5, <1>6 DEF LoopAt
    <2> QED BY <2>1, <2>2
  <1>11. /\ Indices(LeftOf(p))' = p[1]..(m - 1)
         /\ Indices(RightOf(p))' = (m + 1)..last
    BY <1>4 DEF Indices, LeftOf, RightOf
  <1> QED BY <1>4, <1>8, <1>9, <1>10, <1>11 DEF SplitAt

\* Two sorted sides make a sorted segment.
LEMMA SidesSorted ==
    ASSUME Shape, NEW p \in Segments, Split(p), SplitAt(p),
           Indices(p) \subseteq InArray,
           IsSorted(arr, LeftOf(p)), IsSorted(arr, RightOf(p))
    PROVE  IsSorted(arr, p)
  <1> SUFFICES ASSUME NEW i \in Indices(p), i + 1 \in Indices(p)
               PROVE  arr[i] <= arr[i + 1]
    BY DEF IsSorted
  <1>1. /\ p[1] \in Nat /\ p[2] \in Nat /\ loc[p].mid \in Nat
        /\ loc[p].mid < p[2] /\ p[1] <= loc[p].mid
        /\ loc[p].pivot \in Int /\ \A j \in InArray : arr[j] \in Int
    BY SegmentFacts, LocFacts, Children, SortAssumption DEF Shape, TypeOK
  <1>2. /\ Indices(LeftOf(p)) = p[1]..(loc[p].mid - 1)
        /\ Indices(RightOf(p)) = (loc[p].mid + 1)..(p[2] - 1)
        /\ Indices(p) = p[1]..(p[2] - 1)
    BY Children DEF Indices
  <1>3. arr[i] \in Int /\ arr[i + 1] \in Int
    BY <1>1
  <1>4. CASE i + 1 < loc[p].mid
    <2>1. i \in Indices(LeftOf(p)) /\ i + 1 \in Indices(LeftOf(p))
      BY <1>1, <1>2, <1>4
    <2> QED BY <2>1 DEF IsSorted
  <1>5. CASE i + 1 = loc[p].mid
    <2>1. i \in Indices(LeftOf(p))
      BY <1>1, <1>2, <1>5
    <2> QED BY <2>1, <1>1, <1>3, <1>5 DEF SplitAt
  <1>6. CASE i = loc[p].mid
    <2>1. i + 1 \in Indices(RightOf(p))
      BY <1>1, <1>2, <1>6
    <2> QED BY <2>1, <1>1, <1>3, <1>6 DEF SplitAt
  <1>7. CASE i > loc[p].mid
    <2>1. i \in Indices(RightOf(p)) /\ i + 1 \in Indices(RightOf(p))
      BY <1>1, <1>2, <1>7
    <2> QED BY <2>1 DEF IsSorted
  <1>8. i + 1 < loc[p].mid \/ i + 1 = loc[p].mid \/ i = loc[p].mid \/ i > loc[p].mid
    <2>1. i \in Int
      BY <1>1, <1>2
    <2> QED BY <2>1, <1>1
  <1> QED BY <1>4, <1>5, <1>6, <1>7, <1>8

\* A process that succeeds leaves its segment sorted.
LEMMA OwnSorted ==
    ASSUME Shape, SplitUp, Sorted, NEW p \in Segments, Quiet(p),
           pc'[p] \in {"exited0", "unmap"}
    PROVE  IsSorted(arr', p)
  <1>1. pc \in [Segments -> Running \cup Ended \cup {"none"}]
    BY DEF Shape, TypeOK
  <1>2. CASE p = Root /\ Main
    BY <1>1, <1>2 DEF Main, MapFile, MapFails, Unmap, Goto, Sorted
  <1>3. CASE Short(p)
    <2>1. Len(p) < 2 /\ arr' = arr
      BY <1>3 DEF Short
    <2>2. \A i \in Indices(p) : i + 1 \notin Indices(p)
      BY <2>1, SegmentFacts DEF Len, Indices
    <2> QED BY <2>2 DEF IsSorted
  <1>4. CASE Qsort(p)
    BY <1>4, SegmentSorted
  <1>5. CASE WaitRight(p)
    <2>1. /\ arr' = arr /\ pc[p] = "waitRight"
          /\ pc[LeftOf(p)] = "exited0" /\ pc[RightOf(p)] = "exited0"
      BY <1>1, <1>5 DEF WaitRight, Goto, Returned
    <2>2. Split(p) /\ SplitAt(p)
      BY <2>1 DEF Shape, Places, Forked, SplitUp
    <2>3. LeftOf(p) \in Segments /\ RightOf(p) \in Segments
      BY <2>2, Children
    <2>4. IsSorted(arr, LeftOf(p)) /\ IsSorted(arr, RightOf(p))
      BY <2>1, <2>3 DEF Sorted
    <2>5. Indices(p) \subseteq InArray
      BY <2>1, StartedIsInArray DEF Shape, Started
    <2> QED BY <2>1, <2>2, <2>4, <2>5, SidesSorted
  <1>6. ~PartitionStep(p) /\ ~ForkLeftFails(p) /\ ~ForkRightFails(p) /\ ~Kill(p)
    BY <1>1 DEF PartitionStep, Partition, ScanLeft, ScanRight, SwapPair, Spill, Segfault,
       Place, InLoop, ForkLeftFails, ForkRightFails, Kill, Goto, Returned
  <1>7. /\ ~WaitLeft(p) /\ ~WaitLeftOnly(p) /\ ~WaitLeftFails(p)
        /\ ~WaitRightFails(p) /\ ~WaitRightOnly(p)
    BY <1>1 DEF WaitLeft, WaitLeftOnly, WaitLeftFails, WaitRightFails, WaitRightOnly, Goto,
       Returned
  <1> QED BY <1>2, <1>3, <1>4, <1>5, <1>6, <1>7 DEF Quiet, WaitStep

\* What the array holds is kept by a quiet step,
LEMMA QuietKeepsData ==
    ASSUME Shape, Ends, Data, Strayed = {}, Strayed' = {}, NEW p \in Segments, Quiet(p)
    PROVE  Scanned' /\ SplitUp' /\ Sorted' /\ Reordered'
  <1>1. Scanned /\ SplitUp /\ Sorted /\ Reordered /\ Done
    BY DEF Data, Ends
  <1>2. /\ pc[p] \in Running /\ pc'[p] \in Running \cup Ended /\ Started(p)
        /\ file' = file
        /\ \A q \in Segments \ {p} : pc'[q] = pc[q] /\ loc'[q] = loc[q]
    BY QuietMovesOn DEF Started, Running
  <1>3. arr' = arr \/ (Rearranged(arr, arr', p) /\ pc[p] \in {"enter", "loop"})
    BY QuietWrites
  <1>4. Scanned'
    <2> SUFFICES ASSUME NEW q \in Segments, pc'[q] = "loop" PROVE LoopAt(q)'
      BY DEF Scanned
    <2>1. CASE q = p
      BY <2>1, <1>1, OwnScan
    <2>2. CASE q # p
      <3>1. pc[q] = "loop" /\ loc'[q] = loc[q] /\ LoopAt(q)
        BY <2>2, <1>1, <1>2 DEF Scanned
      <3>2. \A i \in Indices(q) : arr'[i] = arr[i]
        BY <3>1, <2>2, <1>1, <1>3, OthersUntouched
      <3>3. /\ q[1] \in Nat /\ q[2] \in Nat /\ loc[q].left \in Nat /\ loc[q].right \in Nat
            /\ loc[q].left \in Indices(q) /\ q[2] - 1 \in Indices(q)
            /\ Len(q) >= 2
        <4>1. loc[q].right # Outside
          BY DEF Strayed
        <4> QED BY <3>1, <4>1, SegmentFacts, LoopFacts DEF Shape, Places
      <3>4. \A i \in q[1]..(loc[q].left - 1) : i \in Indices(q)
        BY <3>3 DEF Indices
      <3>5. q[1] <= loc[q].right + 1
        BY <3>1 DEF LoopAt
      <3>6. \A i \in (loc[q].right + 1)..(q[2] - 2) : i \in Indices(q)
        BY <3>3, <3>5 DEF Indices
      <3> QED BY <3>1, <3>2, <3>3, <3>4, <3>6 DEF LoopAt
    <2> QED BY <2>1, <2>2
  <1>5. SplitUp'
    <2> SUFFICES ASSUME NEW q \in Segments, pc'[q] = "forkLeft" \/ Forked(q)'
                 PROVE  SplitAt(q)'
      BY DEF SplitUp
    <2>1. CASE q # p
      <3>1. (pc[q] = "forkLeft" \/ Forked(q)) /\ loc'[q] = loc[q]
        BY <2>1, <1>2 DEF Forked
      <3>2. SplitAt(q)
        BY <3>1, <1>1 DEF SplitUp
      <3>3. LeftOf(q)' = LeftOf(q) /\ RightOf(q)' = RightOf(q)
        BY <3>1 DEF LeftOf, RightOf
      <3>4. CASE arr' = arr
        BY <3>1, <3>2, <3>3, <3>4 DEF SplitAt, Indices
      <3>5. CASE Rearranged(arr, arr', p) /\ pc[p] \in {"enter", "loop"}
        <4>1. /\ arr'[loc[q].mid] = loc[q].pivot
              /\ \A i \in Indices(LeftOf(q)) : arr'[i] < loc[q].pivot
              /\ \A i \in Indices(RightOf(q)) : arr'[i] >= loc[q].pivot
          BY <2>1, <3>1, <3>2, <3>5, SplitUntouched
        <4> QED BY <4>1, <3>1, <3>3 DEF SplitAt, Indices
      <3> QED BY <3>4, <3>5, <1>3
    <2>2. CASE q = p /\ Place(p)
      BY <2>2, <1>1, OwnPlace
    <2>3. CASE q = p /\ ~Place(p)
      <3>1. (pc[p] = "forkLeft" \/ Forked(p)) /\ loc' = loc /\ arr' = arr
        <4>1. pc \in [Segments -> Running \cup Ended \cup {"none"}]
          BY DEF Shape, TypeOK
        <4>2. pc'[p] \in {"forkLeft", "forkRight", "waitLeft", "waitLeftOnly", "waitRight",
                        "waitRightOnly"}
          BY <2>3 DEF Forked
        <4>3. ~(p = Root /\ Main)
          BY <4>1, <4>2 DEF Main, MapFile, MapFails, Unmap, Goto
        <4>4. ~Short(p) /\ ~Qsort(p) /\ ~Kill(p) /\ ~ForkLeftFails(p)
          BY <4>1, <4>2 DEF Short, Qsort, Kill, ForkLeftFails, Goto, Returned
        <4>5. ~PartitionStep(p)
          BY <2>3, <4>1, <4>2 DEF PartitionStep, Partition, ScanLeft, ScanRight, SwapPair,
             Spill, Segfault, InLoop, Goto
        <4>6. CASE ForkRightFails(p)
          BY <4>6 DEF ForkRightFails, Forked
        <4>7. CASE WaitStep(p)
          BY <4>7 DEF WaitStep, WaitLeft, WaitLeftOnly, WaitRight,
       WaitLeftFails, WaitRightFails, WaitRightOnly, Forked
        <4> QED BY <4>3, <4>4, <4>5, <4>6, <4>7 DEF Quiet
      <3>2. SplitAt(p)
        BY <3>1, <1>1 DEF SplitUp
      <3> QED BY <2>3, <3>1, <3>2 DEF SplitAt, LeftOf, RightOf, Indices
    <2> QED BY <2>1, <2>2, <2>3
  <1>6. Sorted'
    <2> SUFFICES ASSUME NEW q \in Segments, pc'[q] \in {"exited0", "unmap"}
                 PROVE  IsSorted(arr', q)
      BY DEF Sorted, IsSorted, Indices
    <2>1. CASE q = p
      BY <2>1, <1>1, OwnSorted
    <2>2. CASE q # p
      <3>1. pc[q] \in {"exited0", "unmap"} /\ IsSorted(arr, q)
        BY <2>2, <1>1, <1>2 DEF Sorted
      <3>2. \A i \in Indices(q) : arr'[i] = arr[i]
        BY <3>1, <2>2, <1>1, <1>3, OthersUntouched
      <3> QED BY <3>1, <3>2 DEF IsSorted
    <2> QED BY <2>1, <2>2
  <1>7. Reordered'
    <2>1. Root' = Root /\ input' = input
      BY <1>2 DEF file, Root
    <2>2. CASE arr' = arr
      BY <2>1, <2>2, <1>1 DEF Reordered
    <2>3. CASE Rearranged(arr, arr', p)
      <3>1. Root \in Segments /\ Inside(p, Root) /\ Indices(Root) \subseteq DOMAIN arr
        <4>1. Inside(p, Root) /\ InArray = DOMAIN arr
          BY <1>2, StartedIsInArray DEF Shape
        <4>2. Root \in Segments /\ Indices(Root) = InArray
          BY RootFacts DEF Shape, Indices, InArray
        <4> QED BY <4>1, <4>2
      <3>2. \A v \in Values \cup Junk : Count(arr', Root, v) = Count(arr, Root, v)
        BY <2>3, <3>1, RearrangedInside
      <3>3. Permutation(arr', input, Root)
        BY <3>2, <1>1 DEF Reordered, Permutation
      <3> QED BY <2>1, <3>3 DEF Reordered, Permutation, Count, Indices
    <2> QED BY <2>2, <2>3, <1>3
  <1> QED BY <1>4, <1>5, <1>6, <1>7

\* by a fork,
LEMMA ForkKeepsData ==
    ASSUME Shape, Scanned, SplitUp, Sorted, Reordered, NEW p \in Segments,
           ForkLeft(p) \/ ForkRight(p)
    PROVE  Scanned' /\ SplitUp' /\ Sorted' /\ Reordered'
  <1>1. PICK c \in Segments :
           /\ pc'[p] \in {"forkRight", "waitLeft"} /\ pc'[c] = "enter"
           /\ \A q \in Segments \ {p, c} : pc'[q] = pc[q]
           /\ loc' = loc /\ arr' = arr /\ file' = file
    BY ForkFacts
  <1>2. pc[p] = "forkLeft" \/ Forked(p)
    BY DEF ForkLeft, ForkRight, Forked
  <1>3. \A q \in Segments : pc'[q] \in {"loop", "exited0", "unmap"} => pc[q] = pc'[q]
    BY <1>1
  <1>4. \A q \in Segments : pc'[q] = "forkLeft" \/ Forked(q)'
                               => pc[q] = "forkLeft" \/ Forked(q)
    BY <1>1, <1>2 DEF Forked
  <1>5. \A q : /\ LoopAt(q) => LoopAt(q)'
               /\ SplitAt(q) => SplitAt(q)'
               /\ IsSorted(arr, q) => IsSorted(arr', q)
    BY <1>1 DEF LoopAt, SplitAt, LeftOf, RightOf, Indices, IsSorted
  <1>6. Reordered'
    BY <1>1 DEF Reordered, file, Root, Permutation, Count, Indices
  <1>7. Sorted'
    BY <1>1, <1>3 DEF Sorted, IsSorted, Indices
  <1> QED BY <1>3, <1>4, <1>5, <1>6, <1>7 DEF Scanned, SplitUp

\* and by every step until a process strays.
LEMMA DataStep ==
    ASSUME Shape, Ends, Data, [Next]_vars
    PROVE  Data'
  <1>1. CASE Next
    <2> SUFFICES ASSUME Strayed' = {}
                 PROVE  Scanned' /\ SplitUp' /\ Sorted' /\ Reordered'
      BY DEF Data
    <2>1. Strayed = {}
      BY <1>1, CauseStays
    <2>2. PICK p \in Segments : Quiet(p) \/ ForkLeft(p) \/ ForkRight(p)
      BY <1>1, StepIsQuietOrForks
    <2> QED BY <2>1, <2>2, QuietKeepsData, ForkKeepsData DEF Data
  <1>2. CASE UNCHANGED vars
    <2>1. Strayed' = Strayed
      BY <1>2 DEF vars, Strayed
    <2>2. Reordered => Reordered'
      BY <1>2 DEF vars, Reordered, Root, Permutation, Count, Indices
    <2>3. Scanned => Scanned'
      BY <1>2 DEF vars, Scanned, LoopAt
    <2>4. SplitUp => SplitUp'
      BY <1>2 DEF vars, SplitUp, Forked, SplitAt, LeftOf, RightOf, Indices
    <2>5. Sorted => Sorted'
      BY <1>2 DEF vars, Sorted, IsSorted, Indices
    <2> QED BY <2>1, <2>2, <2>3, <2>4, <2>5 DEF Data
  <1> QED BY <1>1, <1>2

\* It is true at the start.
LEMMA DataInit == Init => Data
  <1> SUFFICES ASSUME Init PROVE Data
    OBVIOUS
  <1>1. \A p \in Segments : pc[p] \in {"start", "none"}
    BY DEF Init
  <1>2. Reordered
    BY DEF Init, Reordered, Permutation
  <1> QED BY <1>1, <1>2 DEF Data, Scanned, SplitUp, Sorted, Forked

\* Data is an invariant.
LEMMA AlwaysData == Spec => []Data
  <1>1. Shape /\ Ends /\ Data /\ [Next]_vars => Data'
    BY DataStep
  <1> QED BY <1>1, DataInit, AlwaysShape, PTL DEF Spec

\* What SplitHolds says of a process that has not strayed is SplitUp.
LEMMA DataIsSplit == Data => SplitHolds
  BY DEF Data, SplitUp, SplitAt, SplitHolds

\* No process strays below a success.
LEMMA SuccessStays ==
    ASSUME Shape, Ends, pc[Root] = "exited0"
    PROVE  Strayed = {}
  <1> SUFFICES ASSUME NEW p \in Segments, loc[p].right = Outside PROVE FALSE
    BY DEF Strayed
  <1>1. pc[p] \in {"loop", "killed"}
    BY DEF Shape, Places
  <1>2. Started(p) /\ p # Root /\ Root \in Segments
    BY <1>1, RootFacts DEF Started, Shape
  <1>3. Within(p, Root)
    BY <1>2 DEF Shape, Tree, Rooted, Within
  <1> QED BY <1>1, <1>2, <1>3 DEF Ends, Done

\* What ExitStatusIsTrue says follows from the three layers.
LEMMA StatusIsTrue == Shape /\ Ends /\ Data => ExitStatusIsTrue
  <1> SUFFICES ASSUME Shape, Ends, Data PROVE ExitStatusIsTrue
    OBVIOUS
  <1>1. Root \in Segments
    BY RootFacts DEF Shape
  <1>2. ASSUME pc[Root] = "exited0"
        PROVE  IsSorted(arr, Root) /\ Permutation(arr, input, Root)
    BY <1>1, <1>2, SuccessStays DEF Data, Sorted, Reordered
  <1>4. ASSUME pc[Root] = "exited0", NEW p \in Segments, pc[p] \in Running PROVE FALSE
    <2>1. Started(p) /\ p # Root
      BY <1>4 DEF Started, Running
    <2>2. Within(p, Root)
      BY <2>1 DEF Shape, Tree, Rooted, Within
    <2>3. pc[p] = "exited0"
      BY <1>1, <1>4, <2>1, <2>2 DEF Ends, Done
    <2> QED BY <2>3, <1>4 DEF Running
  <1>3. ASSUME pc[Root] \in {"exited1", "killed"}
        PROVE  faults > 0 \/ Strayed # {} \/ file_size = 0
    BY <1>1, <1>3 DEF Ends, Fails, Failing, Cause
  <1> QED BY <1>2, <1>3, <1>4 DEF ExitStatusIsTrue

\* While its children sort, whatever their processes do and in whatever order, the
\* pivot stays where partition has put it, between smaller words and the others.
THEOREM SplitStays == Spec => []SplitHolds
  BY DataIsSplit, AlwaysData, PTL

\* parsort exits with 0 only after the file is sorted and has the words that it had
\* and every process of it has ended, and fails only for a reason, for files of any size
\* and any threshold.
THEOREM StatusTellsTheTruth == Spec => []ExitStatusIsTrue
  BY StatusIsTrue, AlwaysShape, AlwaysData, PTL
===============================================================================
