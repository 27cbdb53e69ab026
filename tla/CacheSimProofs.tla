--------------------------- MODULE CacheSimProofs ---------------------------
(***************************************************************************)
(* The inductive invariant of CacheSim, for any trace and any cache that   *)
(* parseConfig accepts and for which the shift that makes the tag is       *)
(* defined: no block is in two lines, no store is lost, and the two stamps *)
(* of a line order the lines of its set.  Then every access is a step of   *)
(* the textbook cache CachePolicy.                                         *)
(***************************************************************************)
EXTENDS CacheSim, FunctionTheorems, FiniteSetTheorems, SequenceTheorems, TLAPS

\* Arguments of the command line and addresses of the trace are numbers.
Arguments ==
    /\ Bits \in Nat \ {0}
    /\ Addrs \subseteq Nat /\ SetCounts \subseteq Nat
    /\ WayCounts \subseteq Nat /\ BlockSizes \subseteq Nat

Line  == [valid : BOOLEAN, dirty : BOOLEAN, tag : Nat, lastUsed : Nat,
          fifoOrdinal : Nat]
Counters == [totalLoads : Nat, totalStores : Nat, loadHits : Nat,
             loadMisses : Nat, storeHits : Nat, storeMisses : Nat]

Types ==
    /\ cfg \in Config /\ Accepted(cfg) /\ ShiftDefined(cfg)
    /\ lines \in [SetIndices -> [Ways -> Line]]
    /\ nextFifoOrdinal \in [SetIndices -> Nat]
    /\ accessTick \in Nat
    /\ stats \in Counters

-----------------------------------------------------------------------------
(* Numbers *)

\* Every set of numbers that is not empty has a least element.
LEMMA LeastOf ==
    ASSUME NEW S \in SUBSET Nat, S # {}
    PROVE  \E i \in S : \A j \in S : i <= j
  <1> DEFINE R == {p \in Nat \X Nat : p[1] < p[2]}
  <1>1. IsWellFoundedOn(R, Nat)
    BY NatLessThanWellFounded DEF OpToRel
  <1> HIDE DEF R
  <1>2. \E i \in S : \A j \in S : ~(<<j, i>> \in R)
    BY <1>1, WFMin
  <1>3. \A i \in S : \A j \in S : ~(<<j, i>> \in R) => i <= j
    BY DEF R
  <1> QED BY <1>2, <1>3

\* A set of numbers that has the successor of each of its members up to n has
\* all numbers up to n, when it has 0.
LEMMA UpTo ==
    ASSUME NEW n \in Nat, NEW T, 0 \in T, \A k \in 0..(n - 1) : k \in T => k + 1 \in T
    PROVE  0..n \subseteq T
  <1> DEFINE U == {k \in 0..n : k \notin T}
  <1>1. SUFFICES ASSUME U # {} PROVE FALSE
    OBVIOUS
  <1>2. PICK k \in U : \A j \in U : ~ (j < k)
    <2>1. U \subseteq Nat
      OBVIOUS
    <2>2. PICK k \in U : \A j \in U : <<j, k>> \notin OpToRel(<, Nat)
      BY <1>1, <2>1, NatLessThanWellFounded, WFMin
    <2> QED BY <2>1, <2>2 DEF OpToRel
  <1>3. k - 1 \in 0..(n - 1) /\ k - 1 \notin U
    BY <1>2
  <1> QED BY <1>2, <1>3

\* What a recursion over 0..n that starts at base and goes on by step defines.
Recurs(f, n, X, base, step) ==
    /\ f \in [0..n -> X]
    /\ f[0] = base
    /\ \A k \in 1..n : f[k] = step[<<k, f[k - 1]>>]

\* A function that is defined so exists.
LEMMA Recursion ==
    ASSUME NEW n \in Nat, NEW X, NEW base \in X, NEW step \in [(1..n) \X X -> X]
    PROVE  \E f : Recurs(f, n, X, base, step)
  <1> DEFINE Fits(f, m) == f[0] = base /\ \A k \in 1..m : f[k] = step[<<k, f[k - 1]>>]
             T == {m \in 0..n : \E f \in [0..m -> X] : Fits(f, m)}
  <1>1. 0 \in T
    <2> DEFINE f == [k \in 0..0 |-> base]
    <2>1. f \in [0..0 -> X] /\ Fits(f, 0)
      OBVIOUS
    <2> HIDE DEF f, Fits
    <2> QED BY <2>1
  <1>2. ASSUME NEW m \in 0..(n - 1), m \in T PROVE m + 1 \in T
    <2>1. PICK f \in [0..m -> X] : Fits(f, m)
      BY <1>2
    <2> DEFINE g == [k \in 0..(m + 1) |-> IF k = m + 1 THEN step[<<m + 1, f[m]>>] ELSE f[k]]
    <2>2. g \in [0..(m + 1) -> X]
      <3>1. <<m + 1, f[m]>> \in (1..n) \X X
        OBVIOUS
      <3> QED BY <3>1
    <2>3. Fits(g, m + 1)
      <3>1. g[0] = base
        BY <2>1
      <3>2. ASSUME NEW k \in 1..(m + 1) PROVE g[k] = step[<<k, g[k - 1]>>]
        <4>1. CASE k = m + 1
          <5>1. g[m + 1] = step[<<m + 1, f[m]>>] /\ g[m] = f[m]
            OBVIOUS
          <5> HIDE DEF g
          <5> QED BY <4>1, <5>1
        <4>2. CASE k # m + 1
          BY <2>1, <4>2
        <4> QED BY <4>1, <4>2
      <3> QED BY <3>1, <3>2
    <2> HIDE DEF g, Fits
    <2> QED BY <2>2, <2>3
  <1>3. 0..n \subseteq T
    <2> HIDE DEF T
    <2> QED BY <1>1, <1>2, UpTo
  <1> QED BY <1>3 DEF Recurs

\* What 1 is when it is shifted.
LEMMA PowerIs ==
    ASSUME Arguments
    PROVE  /\ Power \in [0..Bits -> Nat]
           /\ Power[0] = 1
           /\ \A k \in 1..Bits : Power[k] = 2 * Power[k - 1]
  <1> DEFINE D == Bits
  <1>1. D \in Nat
    BY DEF Arguments
  <1>2. PICK X : X = Nat
    OBVIOUS
  <1> DEFINE step == [x \in (1..D) \X X |-> 2 * x[2]]
  <1>3. step \in [(1..D) \X X -> X] /\ 1 \in X
    BY <1>1, <1>2
  <1>4. PICK f : Recurs(f, D, X, 1, step)
    <2> HIDE DEF D, step
    <2> QED BY <1>1, <1>3, Recursion
  <1>5. ASSUME NEW k \in 1..D PROVE f[k] = 2 * f[k - 1]
    <2>1. <<k, f[k - 1]>> \in (1..D) \X X
      BY <1>1, <1>4 DEF Recurs
    <2> QED BY <1>4, <2>1 DEF Recurs
  <1>6. f = [k \in 0..D |-> IF k = 0 THEN 1 ELSE 2 * f[k - 1]]
    BY <1>1, <1>2, <1>4, <1>5 DEF Recurs
  <1>7. Power = [k \in 0..D |-> IF k = 0 THEN 1 ELSE 2 * Power[k - 1]]
    BY <1>6 DEF Power
  <1>8. Power[0] = 1 /\ \A k \in 1..D : Power[k] = 2 * Power[k - 1]
    BY <1>1, <1>7
  <1>9. 0..D \subseteq {k \in 0..D : Power[k] \in Nat}
    <2> DEFINE T == {k \in 0..D : Power[k] \in Nat}
    <2>1. 0 \in T
      BY <1>1, <1>8
    <2>2. ASSUME NEW k \in 0..(D - 1), k \in T PROVE k + 1 \in T
      <3>1. k + 1 \in 1..D /\ Power[k] \in Nat
        BY <1>1, <2>2
      <3> QED BY <1>1, <1>8, <3>1
    <2>3. 0..D \subseteq T
      <3> HIDE DEF T, D
      <3> QED BY <1>1, <2>1, <2>2, UpTo
    <2> QED BY <2>3
  <1> QED BY <1>1, <1>7, <1>8, <1>9

LEMMA PowerStep ==
    ASSUME Arguments, NEW k \in Nat, k < Bits
    PROVE  Power[k] \in Nat /\ Power[k + 1] \in Nat /\ Power[k + 1] = 2 * Power[k]
  <1>1. /\ k + 1 \in 1..Bits /\ (k + 1) - 1 = k
        /\ k \in 0..Bits /\ k + 1 \in 0..Bits
    BY DEF Arguments
  <1>2. Power[k + 1] = 2 * Power[(k + 1) - 1]
    BY <1>1, PowerIs
  <1> QED BY <1>1, <1>2, PowerIs

LEMMA PowersGrow ==
    ASSUME Arguments
    PROVE  \A k \in 0..Bits : Power[k] \in Nat /\ Power[k] > 0
  <1> DEFINE D == Bits
             T == {k \in 0..D : Power[k] > 0}
  <1>1. D \in Nat 
    BY DEF Arguments
  <1>2. 0 \in T
    BY <1>1, PowerIs
  <1>3. ASSUME NEW k \in 0..(D - 1), k \in T PROVE k + 1 \in T
    <2>1. /\ k + 1 \in 1..D /\ Power[k] \in Nat /\ Power[k] > 0
          /\ Power[k + 1] = 2 * Power[k]
      BY <1>1, <1>3, PowerStep
    <2> QED BY <2>1
  <1>4. 0..D \subseteq T
    <2> HIDE DEF T, D
    <2> QED BY <1>1, <1>2, <1>3, UpTo
  <1> QED BY <1>4, PowerIs

\* A shift by a sum is two shifts.
LEMMA PowersAdd ==
    ASSUME Arguments, NEW i \in 0..Bits, NEW j \in 0..(Bits - i)
    PROVE  Power[i + j] = Power[i] * Power[j]
  <1> DEFINE D == Bits
             T == {k \in 0..(D - i) : Power[i + k] = Power[i] * Power[k]}
  <1>1. D \in Nat /\ D - i \in Nat
    BY DEF Arguments
  <1>2. 0 \in T
    <2>1. Power[0] = 1 /\ Power[i] \in Nat
      BY <1>1, PowerIs
    <2>2. i + 0 = i /\ Power[i] * 1 = Power[i] /\ 0 \in 0..(D - i)
      BY <1>1, <2>1
    <2> QED BY <2>1, <2>2
  <1>3. ASSUME NEW k \in 0..(D - i - 1), k \in T PROVE k + 1 \in T
    <2>1. /\ Power[k] \in Nat /\ Power[i] \in Nat /\ Power[i + k] \in Nat
          /\ Power[k + 1] = 2 * Power[k]
          /\ Power[(i + k) + 1] = 2 * Power[i + k]
      <3>1. k \in Nat /\ k < D /\ i + k \in Nat /\ i + k < D /\ i \in 0..D
        BY <1>1
      <3> QED BY <3>1, PowerStep, PowerIs
    <2>4. Power[i + k] = Power[i] * Power[k]
      BY <1>3
    <2>5. i + (k + 1) = (i + k) + 1
      BY <1>1
    <2>2. 2 * (Power[i] * Power[k]) = Power[i] * (2 * Power[k])
      BY <1>1, <2>1
    <2>3. Power[i + (k + 1)] = Power[i] * Power[k + 1]
      BY <2>1, <2>2, <2>4, <2>5
    <2> QED BY <1>1, <1>3, <2>3
  <1>4. 0..(D - i) \subseteq T
    <2> HIDE DEF T, D
    <2> QED BY <1>1, <1>2, <1>3, UpTo
  <1> QED BY <1>4

\* Quotient and remainder make up the number again.
LEMMA Division ==
    ASSUME NEW a \in Int, NEW n \in Nat, n > 0
    PROVE  /\ a \div n \in Int /\ a % n \in 0..(n - 1)
           /\ a = (a \div n) * n + (a % n)
  <1>1. (a \div n) * n + (a % n) = a
    BY Z3
  <1> QED BY <1>1

\* And nothing else does.
LEMMA Quotient ==
    ASSUME NEW q \in Int, NEW n \in Nat, n > 0, NEW r \in 0..(n - 1)
    PROVE  (q * n + r) \div n = q /\ (q * n + r) % n = r
  <1> DEFINE a == q * n + r
  <1>1. a \in Int
    OBVIOUS
  <1>2. PICK p \in Int : p = a \div n
    BY <1>1, Division
  <1>3. PICK s \in 0..(n - 1) : s = a % n
    BY <1>1, Division
  <1>4. q * n + r = p * n + s
    <2> HIDE DEF a
    <2>1. a = p * n + s
      BY <1>1, <1>2, <1>3, Division
    <2> QED BY <2>1 DEF a
  <1>5. (q - p) * n = s - r
    BY <1>4
  <1>6. ~ (q - p >= 1)
    <2> SUFFICES ASSUME q - p >= 1 PROVE FALSE
      OBVIOUS
    <2>1. (q - p) * n >= n
      OBVIOUS
    <2> QED BY <1>5, <2>1
  <1>7. ~ (p - q >= 1)
    <2> SUFFICES ASSUME p - q >= 1 PROVE FALSE
      OBVIOUS
    <2>1. (p - q) * n >= n /\ (p - q) * n = - ((q - p) * n)
      OBVIOUS
    <2> QED BY <1>5, <2>1
  <1>8. q = p
    BY <1>6, <1>7
  <1>9. r = s
    BY <1>4, <1>8
  <1> QED BY <1>2, <1>3, <1>8, <1>9

\* A shift by two counts divides by both powers, one after the other.
LEMMA DivideTwice ==
    ASSUME NEW a \in Nat, NEW b \in Nat, NEW n \in Nat, b > 0, n > 0
    PROVE  a \div (b * n) = (a \div b) \div n
  <1>1. PICK q \in Int, r \in 0..(b - 1) : q = a \div b /\ a = q * b + r
    BY Division
  <1>2. PICK t \in Int, s \in 0..(n - 1) : t = q \div n /\ q = t * n + s
    BY Division
  <1>3. PICK m \in Nat : m = b * n /\ m > 0
    BY Z3
  <1>4. PICK e \in Nat : e = s * b + r
    BY Z3
  <1>5. e < m
    <2>1. s * b <= (n - 1) * b
      BY Z3
    <2>2. (n - 1) * b = b * n - b
      BY Z3
    <2> QED BY <1>3, <1>4, <2>1, <2>2
  <1>6. a = t * m + e
    <2>1. (t * n + s) * b = t * (b * n) + s * b
      BY Z3
    <2> QED BY <1>1, <1>2, <1>3, <1>4, <2>1
  <1>7. a \div m = t
    BY <1>3, <1>5, <1>6, Quotient
  <1> QED BY <1>1, <1>2, <1>3, <1>7

\* log2u finds the power that a number is.
LEMMA PowerOfTwo ==
    ASSUME Arguments, NEW x \in Nat, IsPowerOfTwo(x)
    PROVE  x > 0 /\ Log2u(x) \in 0..(Bits - 1) /\ Power[Log2u(x)] = x
  <1>1. Log2u(x) \in 0..(Bits - 1) /\ Power[Log2u(x)] = x
    BY DEF IsPowerOfTwo, Log2u
  <1>2. Log2u(x) \in 0..Bits
    BY <1>1 DEF Arguments
  <1> QED BY <1>1, <1>2, PowersGrow

\* What a configuration that parseConfig accepts gives to divide by.
LEMMA Shape ==
    ASSUME Arguments, Types
    PROVE  /\ cfg.sets \in Nat /\ cfg.sets > 0
           /\ cfg.ways \in Nat /\ cfg.ways > 0
           /\ cfg.blockBytes \in Nat /\ cfg.blockBytes > 0
           /\ Power[Log2u(cfg.blockBytes)] = cfg.blockBytes
           /\ Log2u(cfg.blockBytes) \in 0..(Bits - 1)
           /\ Power[Log2u(cfg.sets)] = cfg.sets
           /\ Log2u(cfg.sets) \in 0..(Bits - 1)
           /\ SetIndices \subseteq Nat /\ Ways \subseteq Nat /\ 0 \in Ways
  <1>1. /\ cfg.sets \in Nat /\ cfg.ways \in Nat /\ cfg.blockBytes \in Nat
        /\ IsPowerOfTwo(cfg.sets) /\ IsPowerOfTwo(cfg.ways)
        /\ IsPowerOfTwo(cfg.blockBytes)
    BY DEF Arguments, Types, Config, Accepted
  <1>2. /\ cfg.sets > 0 /\ cfg.ways > 0 /\ cfg.blockBytes > 0
        /\ Power[Log2u(cfg.blockBytes)] = cfg.blockBytes
        /\ Log2u(cfg.blockBytes) \in 0..(Bits - 1)
        /\ Power[Log2u(cfg.sets)] = cfg.sets
        /\ Log2u(cfg.sets) \in 0..(Bits - 1)
    BY <1>1, PowerOfTwo
  <1> QED BY <1>1, <1>2 DEF SetIndices, Ways

\* A shift that is defined cuts off the block and the index.
LEMMA TagIs ==
    ASSUME Arguments, Types, NEW addr \in Nat
    PROVE  TagOf(addr) = (addr \div cfg.blockBytes) \div cfg.sets
  <1>1. PICK i, j : i = Log2u(cfg.blockBytes) /\ j = Log2u(cfg.sets)
    OBVIOUS
  <1>2. /\ i \in 0..(Bits - 1) /\ j \in 0..(Bits - 1) /\ i + j < Bits
        /\ Bits \in Nat /\ Bits > 0 /\ TagShift(cfg) = i + j
    BY <1>1, Shape DEF Types, ShiftDefined, TagShift, Arguments
  <1>3. (i + j) % Bits = i + j
    <2>1. PICK k \in 0..(Bits - 1) : k = i + j
      BY <1>2
    <2>2. (0 * Bits + k) % Bits = k /\ 0 * Bits + k = k
      BY <1>2, Quotient
    <2> QED BY <2>1, <2>2
  <1>4. Power[i + j] = cfg.blockBytes * cfg.sets
    <2>1. i \in 0..Bits /\ j \in 0..(Bits - i)
      BY <1>2
    <2>2. Power[i + j] = Power[i] * Power[j]
      BY <2>1, PowersAdd
    <2> QED BY <1>1, <2>2, Shape
  <1>5. TagOf(addr) = addr \div (cfg.blockBytes * cfg.sets)
    BY <1>2, <1>3, <1>4 DEF TagOf
  <1> QED BY <1>5, Shape, DivideTwice

\* Index and tag together are the number of the block.
LEMMA Addressing ==
    ASSUME Arguments, Types, NEW addr \in Nat
    PROVE  /\ IndexOf(addr) \in SetIndices /\ TagOf(addr) \in Nat
           /\ TagOf(addr) * cfg.sets + IndexOf(addr) = BlockOf(addr)
  <1>1. PICK b \in Nat, n \in Nat : /\ b = cfg.blockBytes /\ b > 0
                                    /\ n = cfg.sets /\ n > 0
    BY Shape
  <1>2. PICK q \in Nat : q = addr \div b
    BY <1>1
  <1>3. BlockOf(addr) = q /\ IndexOf(addr) = q % n /\ TagOf(addr) = q \div n
    BY <1>1, <1>2, Shape, TagIs DEF BlockOf, IndexOf
  <1>4. /\ (q \div n) * n + (q % n) = q
        /\ q \div n \in Nat /\ q % n \in 0..(n - 1)
    BY <1>1, Division
  <1> QED BY <1>1, <1>3, <1>4 DEF SetIndices

\* Two blocks with the same number are in the same set with the same tag.
LEMMA BlockSplits ==
    ASSUME NEW n \in Nat, NEW a \in Nat, NEW b \in Nat,
           NEW s \in 0..(n - 1), NEW t \in 0..(n - 1), a * n + s = b * n + t
    PROVE  a = b /\ s = t
  <1>1. ASSUME a < b PROVE FALSE
    <2>1. (a + 1) * n <= b * n
      BY <1>1, Z3
    <2>2. (a + 1) * n = a * n + n
      BY Z3
    <2> QED BY <2>1, <2>2
  <1>2. ASSUME b < a PROVE FALSE
    <2>1. (b + 1) * n <= a * n
      BY <1>2, Z3
    <2>2. (b + 1) * n = b * n + n
      BY Z3
    <2> QED BY <2>1, <2>2
  <1> QED BY <1>1, <1>2

-----------------------------------------------------------------------------
(* The line that load and store choose *)

\* The line of a hit is valid and has the tag.
LEMMA HitLine ==
    ASSUME Arguments, Types, NEW addr \in Nat, Hits(addr) # {}
    PROVE  FindHit(addr) \in Hits(addr)
  <1>1. Hits(addr) \in SUBSET Nat
    BY Shape DEF Hits, Matching
  <1> QED BY <1>1, LeastOf DEF FindHit

\* The victim is the first of the candidates: a free line, or one with the
\* least stamp.
LEMMA VictimLine ==
    ASSUME Arguments, Types, NEW s \in SetIndices
    PROVE  /\ ChooseVictim(s) \in Candidates(s)
           /\ \A j \in Candidates(s) : ChooseVictim(s) <= j
           /\ Candidates(s) \subseteq Ways
  <1>1. Candidates(s) \subseteq Ways
    BY DEF Candidates
  <1>2. Candidates(s) # {}
    <2>1. CASE {i \in Ways : ~lines[s][i].valid} # {}
      BY <2>1 DEF Candidates
    <2>2. CASE {i \in Ways : ~lines[s][i].valid} = {}
      <3> DEFINE S == {Stamp(lines[s][i]) : i \in Ways}
      <3>1. \A i \in Ways : Stamp(lines[s][i]) \in Nat
        BY DEF Types, Stamp, Line
      <3>2. S \in SUBSET Nat /\ S # {}
        BY <3>1, Shape
      <3>3. PICK x \in S : \A y \in S : x <= y
        BY <3>2, LeastOf
      <3>4. PICK i \in Ways : x = Stamp(lines[s][i])
        BY <3>3
      <3>5. \A j \in Ways : Stamp(lines[s][i]) <= Stamp(lines[s][j])
        BY <3>3, <3>4
      <3> QED BY <2>2, <3>5 DEF Candidates
    <2> QED BY <2>1, <2>2
  <1>3. Candidates(s) \in SUBSET Nat
    BY <1>1, Shape
  <1> QED BY <1>1, <1>2, <1>3, LeastOf DEF ChooseVictim

-----------------------------------------------------------------------------
(* What a step does to the lines *)

\* At most line i of set s changes.
OnlyLine(s, i) == \A p \in SetIndices : \A w \in Ways :
                     p # s \/ w # i => lines'[p][w] = lines[p][w]

\* A hit renews the stamp of the line it finds, and a store may mark it dirty.
LEMMA HitStep ==
    ASSUME Arguments, Types, NEW addr \in Nat, LoadHit(addr) \/ StoreHit(addr),
           NEW s, s = IndexOf(addr), NEW i, i = FindHit(addr)
    PROVE  /\ s \in SetIndices /\ i \in Ways
           /\ lines[s][i].valid /\ lines[s][i].tag = TagOf(addr)
           /\ lines' \in [SetIndices -> [Ways -> Line]]
           /\ OnlyLine(s, i)
           /\ lines'[s][i].valid /\ lines'[s][i].tag = TagOf(addr)
           /\ lines'[s][i].lastUsed = accessTick + 1
           /\ lines'[s][i].fifoOrdinal = lines[s][i].fifoOrdinal
           /\ LoadHit(addr) => lines'[s][i].dirty = lines[s][i].dirty
           /\ StoreHit(addr) => lines'[s][i].dirty = (lines[s][i].dirty \/ ~cfg.writeThrough)
           /\ accessTick' = accessTick + 1
           /\ UNCHANGED <<cfg, nextFifoOrdinal>>
  <1>1. i \in Hits(addr)
    BY HitLine DEF LoadHit, StoreHit
  <1>2. /\ s \in SetIndices /\ i \in Ways
        /\ lines[s][i].valid /\ lines[s][i].tag = TagOf(addr)
    BY <1>1, Addressing DEF Hits, Matching
  <1>3. lines \in [SetIndices -> [Ways -> Line]] /\ lines[s][i] \in Line
        /\ accessTick + 1 \in Nat /\ cfg.writeThrough \in BOOLEAN
    BY <1>2 DEF Types, Config
  <1>4. PICK ln \in Line :
            /\ lines' = [lines EXCEPT ![s][i] = ln]
            /\ ln.valid = lines[s][i].valid /\ ln.tag = lines[s][i].tag
            /\ ln.lastUsed = accessTick + 1 /\ ln.fifoOrdinal = lines[s][i].fifoOrdinal
            /\ LoadHit(addr) => ln.dirty = lines[s][i].dirty
            /\ StoreHit(addr) => ln.dirty = (lines[s][i].dirty \/ ~cfg.writeThrough)
    <2>1. CASE LoadHit(addr) /\ ~StoreHit(addr)
      <3> DEFINE ln == [lines[s][i] EXCEPT !.lastUsed = accessTick + 1]
      <3>1. lines' = [lines EXCEPT ![s][i] = ln]
        BY <2>1 DEF LoadHit
      <3>2. /\ ln \in Line /\ ln.valid = lines[s][i].valid /\ ln.tag = lines[s][i].tag
            /\ ln.lastUsed = accessTick + 1 /\ ln.dirty = lines[s][i].dirty
            /\ ln.fifoOrdinal = lines[s][i].fifoOrdinal
        BY <1>3 DEF Line
      <3> QED BY <2>1, <3>1, <3>2
    <2>2. CASE StoreHit(addr) /\ ~LoadHit(addr)
      <3> DEFINE ln == [lines[s][i] EXCEPT !.dirty = @ \/ ~cfg.writeThrough,
                                           !.lastUsed = accessTick + 1]
      <3>1. lines' = [lines EXCEPT ![s][i] = ln]
        BY <1>2, <1>3, <2>2 DEF StoreHit
      <3>2. /\ ln \in Line /\ ln.valid = lines[s][i].valid /\ ln.tag = lines[s][i].tag
            /\ ln.lastUsed = accessTick + 1 /\ ln.fifoOrdinal = lines[s][i].fifoOrdinal
            /\ ln.dirty = (lines[s][i].dirty \/ ~cfg.writeThrough)
        BY <1>3 DEF Line
      <3> QED BY <2>2, <3>1, <3>2
    <2>3. ~(LoadHit(addr) /\ StoreHit(addr))
      <3>1. stats \in Counters
        BY DEF Types
      <3>2. LoadHit(addr) => stats'.totalLoads = stats.totalLoads + 1
        BY <3>1 DEF LoadHit, Count, Counters
      <3>3. StoreHit(addr) => stats'.totalLoads = stats.totalLoads
        BY <3>1 DEF StoreHit, Count, Counters
      <3>4. stats.totalLoads \in Nat
        BY <3>1 DEF Counters
      <3> QED BY <3>2, <3>3, <3>4
    <2> QED BY <2>1, <2>2, <2>3
  <1>5. /\ lines' \in [SetIndices -> [Ways -> Line]]
        /\ lines'[s][i] = ln /\ OnlyLine(s, i)
    BY <1>2, <1>3, <1>4 DEF OnlyLine
  <1>6. accessTick' = accessTick + 1 /\ UNCHANGED <<cfg, nextFifoOrdinal>>
    BY DEF LoadHit, StoreHit
  <1> QED BY <1>2, <1>4, <1>5, <1>6

\* A miss that fills a line replaces the victim.
LEMMA FillStep ==
    ASSUME Arguments, Types, NEW addr \in Nat, NEW store \in BOOLEAN,
           Fill(addr, store), cfg' = cfg,
           NEW s, s = IndexOf(addr), NEW v, v = ChooseVictim(s)
    PROVE  /\ s \in SetIndices /\ v \in Ways /\ v \in Candidates(s)
           /\ \A j \in Candidates(s) : v <= j
           /\ lines' \in [SetIndices -> [Ways -> Line]]
           /\ OnlyLine(s, v)
           /\ lines'[s][v].valid /\ lines'[s][v].tag = TagOf(addr)
           /\ lines'[s][v].dirty = (store /\ ~cfg.writeThrough)
           /\ lines'[s][v].lastUsed = accessTick + 1
           /\ lines'[s][v].fifoOrdinal = nextFifoOrdinal[s]
           /\ nextFifoOrdinal' = [nextFifoOrdinal EXCEPT ![s] = @ + 1]
           /\ accessTick' = accessTick + 1
  <1>1. s \in SetIndices /\ TagOf(addr) \in Nat
    BY Addressing
  <1>2. v \in Ways /\ v \in Candidates(s) /\ \A j \in Candidates(s) : v <= j
    BY <1>1, VictimLine
  <1> DEFINE ln == [valid |-> TRUE, dirty |-> store /\ ~cfg.writeThrough,
                    tag |-> TagOf(addr), lastUsed |-> accessTick + 1,
                    fifoOrdinal |-> nextFifoOrdinal[s]]
  <1>3. /\ lines' = [lines EXCEPT ![s][v] = ln]
        /\ nextFifoOrdinal' = [nextFifoOrdinal EXCEPT ![s] = @ + 1]
        /\ accessTick' = accessTick + 1
    BY DEF Fill
  <1>4. ln \in Line /\ lines \in [SetIndices -> [Ways -> Line]]
    BY <1>1 DEF Types, Line, Config
  <1> HIDE DEF ln
  <1>5. /\ lines' \in [SetIndices -> [Ways -> Line]]
        /\ lines'[s][v] = ln /\ OnlyLine(s, v)
    BY <1>1, <1>2, <1>3, <1>4 DEF OnlyLine
  <1>6. /\ ln.valid /\ ln.tag = TagOf(addr) /\ ln.dirty = (store /\ ~cfg.writeThrough)
        /\ ln.lastUsed = accessTick + 1 /\ ln.fifoOrdinal = nextFifoOrdinal[s]
    BY DEF ln
  <1> QED BY <1>1, <1>2, <1>3, <1>5, <1>6

Access(addr) == Load(addr) \/ Store(addr)

\* An access that changes the lines is a hit or fills a line.
LEMMA AccessCases ==
    ASSUME NEW addr, Access(addr)
    PROVE  \/ LoadHit(addr) \/ StoreHit(addr)
           \/ Hits(addr) = {} /\ cfg' = cfg /\ \E store \in BOOLEAN : Fill(addr, store)
           \/ StoreAround(addr)
  BY DEF Access, Load, Store, LoadMiss, StoreMiss

\* The counters stay numbers.
LEMMA CountTypes ==
    ASSUME stats \in Counters, NEW addr, Access(addr)
    PROVE  stats' \in Counters
  <1>1. stats' \in {Count("totalLoads", "loadHits"), Count("totalLoads", "loadMisses"),
                    Count("totalStores", "storeHits"), Count("totalStores", "storeMisses")}
    BY DEF Access, Load, Store, LoadHit, LoadMiss, StoreHit, StoreMiss, StoreAround
  <1> QED BY <1>1 DEF Count, Counters

\* An access counts a hit exactly when it finds the block.
LEMMA HitCounts ==
    ASSUME stats \in Counters, NEW addr
    PROVE  /\ Load(addr) => /\ stats'.loadHits = IF Hits(addr) # {} THEN stats.loadHits + 1
                                                ELSE stats.loadHits
                            /\ stats'.storeHits = stats.storeHits
           /\ Store(addr) => /\ stats'.storeHits = IF Hits(addr) # {} THEN stats.storeHits + 1
                                                  ELSE stats.storeHits
                             /\ stats'.loadHits = stats.loadHits
  BY DEF Load, Store, LoadHit, LoadMiss, StoreHit, StoreMiss, StoreAround, Count, Counters

\* An access does not change the configuration.
LEMMA ConfigStays ==
    ASSUME NEW addr, Access(addr)
    PROVE  cfg' = cfg
  BY DEF Access, Load, Store, LoadHit, LoadMiss, StoreHit, StoreMiss, StoreAround

\* The types are invariant.
LEMMA TypesStep ==
    ASSUME Arguments, Types, NEW addr \in Nat, Access(addr)
    PROVE  Types'
  <1>1. stats' \in Counters
    BY CountTypes DEF Types
  <1>2. CASE LoadHit(addr) \/ StoreHit(addr)
    <2>1. /\ lines' \in [SetIndices -> [Ways -> Line]] /\ accessTick' = accessTick + 1
          /\ UNCHANGED <<cfg, nextFifoOrdinal>>
      BY <1>2, HitStep
    <2> QED BY <1>1, <2>1 DEF Types, Accepted, ShiftDefined, TagShift, SetIndices,
           Ways
  <1>3. ASSUME NEW store \in BOOLEAN, cfg' = cfg, Fill(addr, store) PROVE Types'
    <2>1. /\ lines' \in [SetIndices -> [Ways -> Line]] /\ accessTick' = accessTick + 1
          /\ nextFifoOrdinal' = [nextFifoOrdinal EXCEPT ![IndexOf(addr)] = @ + 1]
          /\ IndexOf(addr) \in SetIndices
      BY <1>3, FillStep
    <2> QED BY <1>1, <1>3, <2>1 DEF Types, Accepted, ShiftDefined, TagShift, SetIndices,
           Ways
  <1>4. CASE StoreAround(addr)
    BY <1>1, <1>4 DEF StoreAround, Types, Accepted, ShiftDefined, TagShift, SetIndices,
           Ways
  <1> QED BY <1>2, <1>3, <1>4, AccessCases

-----------------------------------------------------------------------------
(* One line for each block, and no store lost *)

\* A line is filled only when no line of the set has the tag.
LEMMA OneLineStep ==
    ASSUME Arguments, Types, OneLinePerBlock, NEW addr \in Nat, Access(addr)
    PROVE  OneLinePerBlock'
  <1>1. CASE LoadHit(addr) \/ StoreHit(addr)
    <2>1. PICK s \in SetIndices, i \in Ways :
              /\ OnlyLine(s, i) /\ cfg' = cfg
              /\ lines[s][i].valid /\ lines'[s][i].tag = lines[s][i].tag
      BY <1>1, HitStep
    <2> QED BY <2>1 DEF OneLinePerBlock, OnlyLine, SetIndices, Ways
  <1>2. ASSUME NEW store \in BOOLEAN, cfg' = cfg, Fill(addr, store), Hits(addr) = {}
        PROVE  OneLinePerBlock'
    <2>1. PICK s \in SetIndices, v \in Ways :
              /\ s = IndexOf(addr) /\ OnlyLine(s, v) /\ lines'[s][v].tag = TagOf(addr)
      BY <1>2, FillStep
    <2>2. \A w \in Ways : ~(lines[s][w].valid /\ lines[s][w].tag = TagOf(addr))
      BY <1>2, <2>1 DEF Hits, Matching
    <2> QED BY <1>2, <2>1, <2>2 DEF OneLinePerBlock, OnlyLine, SetIndices, Ways
  <1>3. CASE StoreAround(addr)
    BY <1>3 DEF StoreAround, OneLinePerBlock, SetIndices, Ways
  <1> QED BY <1>1, <1>2, <1>3, AccessCases

Dirty(p, w) == lines[p][w].valid /\ lines[p][w].dirty
Held(p, w)  == HeldBlock(p, lines[p][w])

\* The dirty blocks before a step and after it.
LEMMA DirtyBlocksAre ==
    ASSUME NEW b
    PROVE  /\ b \in DirtyBlocks <=>
                \E p \in SetIndices : \E w \in Ways : Dirty(p, w) /\ b = Held(p, w)
           /\ b \in DirtyBlocks' <=>
                \E p \in SetIndices' : \E w \in Ways' : Dirty(p, w)' /\ b = Held(p, w)'
  BY DEF DirtyBlocks, DirtyIn, Dirty, Held

\* Two lines that hold the same block are one line.
LEMMA HeldOnce ==
    ASSUME Arguments, Types, OneLinePerBlock,
           NEW p \in SetIndices, NEW w \in Ways, NEW q \in SetIndices, NEW u \in Ways,
           lines[p][w].valid, lines[q][u].valid, Held(p, w) = Held(q, u)
    PROVE  p = q /\ w = u
  <1>1. lines[p][w].tag \in Nat /\ lines[q][u].tag \in Nat /\ cfg.sets \in Nat
    BY Shape DEF Types, Line
  <1>2. p = q /\ lines[p][w].tag = lines[q][u].tag
    BY SMTT(20), <1>1, BlockSplits DEF Held, HeldBlock, SetIndices
  <1> QED BY <1>2 DEF OneLinePerBlock

\* A store that is not in memory yet leaves with its line, which is written back.
LEMMA NothingLostStep ==
    ASSUME Arguments, Types, OneLinePerBlock, NothingLost, NEW addr \in Nat, Access(addr)
    PROVE  NothingLost'
  <1>0. cfg.writeThrough \in BOOLEAN
    BY DEF Types, Config
  <1>1. CASE LoadHit(addr) \/ StoreHit(addr)
    <2>1. PICK s \in SetIndices, i \in Ways :
              /\ s = IndexOf(addr) /\ i = FindHit(addr) /\ OnlyLine(s, i) /\ cfg' = cfg
              /\ lines[s][i].valid /\ lines[s][i].tag = TagOf(addr)
              /\ lines'[s][i].valid /\ lines'[s][i].tag = TagOf(addr)
              /\ LoadHit(addr) => lines'[s][i].dirty = lines[s][i].dirty
              /\ StoreHit(addr) => lines'[s][i].dirty = (lines[s][i].dirty \/ ~cfg.writeThrough)
      BY <1>1, HitStep
    <2>2. Held(s, i) = BlockOf(addr) /\ Held(s, i)' = BlockOf(addr)
      BY <2>1, Addressing DEF Held, HeldBlock
    <2>3. \A p \in SetIndices : \A w \in Ways :
             p # s \/ w # i => Dirty(p, w)' = Dirty(p, w) /\ Held(p, w)' = Held(p, w)
      BY <2>1 DEF OnlyLine, Dirty, Held, HeldBlock
    <2>4. SetIndices' = SetIndices /\ Ways' = Ways
      BY <2>1 DEF SetIndices, Ways
    <2>5. CASE Dirty(s, i)' = Dirty(s, i) /\ stale' = stale
      <3>1. \A b : b \in DirtyBlocks' <=> b \in DirtyBlocks
        BY <2>2, <2>3, <2>4, <2>5, DirtyBlocksAre
      <3> QED BY <2>1, <2>5, <3>1 DEF NothingLost
    <2>6. CASE /\ Dirty(s, i)' /\ ~cfg.writeThrough
               /\ stale' = stale \cup {BlockOf(addr)}
      <3>1. \A b : b \in DirtyBlocks' <=> b \in DirtyBlocks \/ b = BlockOf(addr)
        BY <2>2, <2>3, <2>4, <2>6, DirtyBlocksAre
      <3> QED BY <2>1, <2>6, <3>1 DEF NothingLost
    <2>7. LoadHit(addr) => stale' = stale
      BY DEF LoadHit
    <2>8. StoreHit(addr) => stale' = IF cfg.writeThrough THEN stale
                                     ELSE stale \cup {BlockOf(addr)}
      BY DEF StoreHit
    <2> QED BY <1>0, <1>1, <2>1, <2>5, <2>6, <2>7, <2>8 DEF Dirty
  <1>2. ASSUME NEW store \in BOOLEAN, cfg' = cfg, Fill(addr, store), Hits(addr) = {}
        PROVE  NothingLost'
    <2>1. PICK s \in SetIndices, v \in Ways :
              /\ s = IndexOf(addr) /\ v = ChooseVictim(s) /\ OnlyLine(s, v)
              /\ lines'[s][v].tag = TagOf(addr) /\ lines'[s][v].valid
              /\ lines'[s][v].dirty = (store /\ ~cfg.writeThrough)
      BY <1>2, FillStep
    <2>2. Held(s, v)' = BlockOf(addr)
      BY <1>2, <2>1, Addressing DEF Held, HeldBlock
    <2>3. \A p \in SetIndices : \A w \in Ways :
             p # s \/ w # v => Dirty(p, w)' = Dirty(p, w) /\ Held(p, w)' = Held(p, w)
      BY <1>2, <2>1 DEF OnlyLine, Dirty, Held, HeldBlock
    <2>4. SetIndices' = SetIndices /\ Ways' = Ways
      BY <1>2 DEF SetIndices, Ways
    <2>5. stale' = (IF Dirty(s, v) /\ ~cfg.writeThrough THEN stale \ {Held(s, v)} ELSE stale)
                   \cup (IF store /\ ~cfg.writeThrough THEN {BlockOf(addr)} ELSE {})
      BY <1>2, <2>1 DEF Fill, MustWriteBack, Dirty, Held
    <2>6. Dirty(s, v)' <=> store /\ ~cfg.writeThrough
      BY <2>1 DEF Dirty
    <2>7. \A b : b \in DirtyBlocks' <=>
             \/ b \in DirtyBlocks /\ ~(Dirty(s, v) /\ b = Held(s, v))
             \/ b = BlockOf(addr) /\ store /\ ~cfg.writeThrough
      <3>1. \A p \in SetIndices : \A w \in Ways :
               Dirty(p, w) /\ Dirty(s, v) /\ Held(p, w) = Held(s, v) => p = s /\ w = v
        BY HeldOnce DEF Dirty
      <3> QED BY <2>2, <2>3, <2>4, <2>6, <3>1, DirtyBlocksAre
    <2>8. CASE ~cfg.writeThrough
      BY <1>2, <2>5, <2>7, <2>8 DEF NothingLost
    <2>9. CASE cfg.writeThrough
      <3>1. stale = {} /\ \A b : b \notin DirtyBlocks
        BY <2>9 DEF NothingLost
      <3> QED BY <1>2, <2>5, <2>7, <2>9, <3>1 DEF NothingLost
    <2> QED BY <1>0, <2>8, <2>9
  <1>3. CASE StoreAround(addr)
    BY <1>3 DEF StoreAround, NothingLost, DirtyBlocks, DirtyIn, HeldBlock, SetIndices, Ways
  <1> QED BY <1>1, <1>2, <1>3, AccessCases

-----------------------------------------------------------------------------
(* Lists in the order of a stamp *)

\* The list f has the members of V, those with the lesser stamps first.
Sorts(f, V, st) ==
    /\ f \in Seq(V)
    /\ \A v \in V : \E k \in DOMAIN f : f[k] = v
    /\ \A j, k \in DOMAIN f : j < k => st[f[j]] < st[f[k]]

Through(f, g) == [k \in DOMAIN f |-> g[f[k]]]

\* No member is in such a list twice, and their order is that of the stamps.
LEMMA SortedOnce ==
    ASSUME NEW V, NEW st, \A v \in V : st[v] \in Nat, NEW f, Sorts(f, V, st)
    PROVE  /\ Len(f) \in Nat /\ DOMAIN f = 1..Len(f) /\ f \in [1..Len(f) -> V]
           /\ \A j, k \in 1..Len(f) : f[j] = f[k] => j = k
           /\ \A j, k \in 1..Len(f) : st[f[j]] <= st[f[k]] <=> j <= k
  <1>1. Len(f) \in Nat /\ DOMAIN f = 1..Len(f) /\ f \in [1..Len(f) -> V]
    BY DEF Sorts
  <1>2. \A j \in 1..Len(f) : st[f[j]] \in Nat
    BY <1>1
  <1>3. \A j, k \in 1..Len(f) : j < k => st[f[j]] < st[f[k]]
    BY <1>1 DEF Sorts
  <1>4. \A j, k \in 1..Len(f) : j < k \/ k < j \/ j = k
    BY <1>1
  <1> QED BY <1>1, <1>2, <1>3, <1>4

\* A member's place in the list is the number of stamps up to its own.
PlaceIsRank(f, V, st) ==
    \A k \in 1..Len(f) : Cardinality({v \in V : st[v] <= st[f[k]]}) = k

LEMMA Ranking ==
    ASSUME NEW V, NEW st, \A v \in V : st[v] \in Nat, NEW f, Sorts(f, V, st)
    PROVE  IsFiniteSet(V) /\ Cardinality(V) = Len(f) /\ PlaceIsRank(f, V, st)
  <1>1. /\ Len(f) \in Nat /\ DOMAIN f = 1..Len(f) /\ f \in [1..Len(f) -> V]
        /\ \A j, k \in 1..Len(f) : f[j] = f[k] => j = k
        /\ \A j, k \in 1..Len(f) : st[f[j]] <= st[f[k]] <=> j <= k
        /\ \A v \in V : \E k \in 1..Len(f) : f[k] = v
    BY SMTT(30), SortedOnce DEF Sorts
  <1>2. f \in Bijection(1..Len(f), V)
    BY <1>1, Fun_IsBij
  <1>3. Cardinality(V) = Len(f) /\ IsFiniteSet(V)
    BY <1>1, <1>2, FS_CountingElements, FS_NatBijection DEF ExistsBijection
  <1>4. ASSUME NEW k \in 1..Len(f)
        PROVE  Cardinality({v \in V : st[v] <= st[f[k]]}) = k
    <2> DEFINE U == {v \in V : st[v] <= st[f[k]]}
               g == [j \in 1..k |-> f[j]]
    <2>1. g \in [1..k -> U]
      BY <1>1
    <2>2. \A a, b \in 1..k : g[a] = g[b] => a = b
      BY <1>1
    <2>3. \A u \in U : \E j \in 1..k : g[j] = u
      <3> SUFFICES ASSUME NEW u \in U PROVE \E j \in 1..k : g[j] = u
        OBVIOUS
      <3>1. PICK j \in 1..Len(f) : f[j] = u
        BY <1>1
      <3>2. j \in 1..k
        BY <1>1, <3>1
      <3> QED BY <3>1, <3>2
    <2> HIDE DEF g, U
    <2>4. g \in Bijection(1..k, U)
      BY <2>1, <2>2, <2>3, Fun_IsBij
    <2>5. ExistsBijection(1..k, U) /\ k \in Nat
      BY <1>1, <2>4 DEF ExistsBijection
    <2>6. Cardinality(U) = k
      BY <2>5, FS_CountingElements
    <2> QED BY <2>6 DEF U
  <1> QED BY <1>3, <1>4 DEF PlaceIsRank

\* The list w has the elements of q but the k-th.
Skips(w, q, k) ==
    /\ Len(w) = Len(q) - 1
    /\ \A i \in 1..(Len(q) - 1) : w[i] = IF i < k THEN q[i] ELSE q[i + 1]

\* The elements of a list without its k-th.
LEMMA WithoutIs ==
    ASSUME NEW S, NEW q \in Seq(S), NEW k \in 1..Len(q)
    PROVE  Policy!Without(q, k) \in Seq(S) /\ Skips(Policy!Without(q, k), q, k)
  <1>1. Len(q) \in Nat /\ k \in Nat /\ k >= 1 /\ k <= Len(q)
    OBVIOUS
  <1>2. PICK a \in Seq(S) : a = SubSeq(q, 1, k - 1)
    <2>1. SubSeq(q, 1, k - 1) \in Seq(S)
      BY <1>1
    <2> QED BY <2>1, Zenon
  <1>3. PICK c \in Seq(S) : c = SubSeq(q, k + 1, Len(q))
    <2>1. SubSeq(q, k + 1, Len(q)) \in Seq(S)
      BY <1>1
    <2> QED BY <2>1, Zenon
  <1>4. Len(a) = k - 1 /\ \A i \in 1..(k - 1) : a[i] = q[i]
    BY <1>1, <1>2
  <1>5. Len(c) = Len(q) - k /\ \A i \in 1..(Len(q) - k) : c[i] = q[k + i]
    BY <1>1, <1>3
  <1>6. /\ a \o c \in Seq(S) /\ Len(a \o c) = Len(a) + Len(c)
        /\ \A i \in 1..(Len(a) + Len(c)) : (a \o c)[i] = IF i <= Len(a) THEN a[i] ELSE c[i - Len(a)]
    BY ConcatProperties
  <1>7. Policy!Without(q, k) = a \o c
    BY <1>2, <1>3 DEF Policy!Without
  <1>8. ASSUME NEW i \in 1..(Len(q) - 1)
        PROVE  (a \o c)[i] = IF i < k THEN q[i] ELSE q[i + 1]
    <2>1. CASE i < k
      BY <1>1, <1>4, <1>5, <1>6, <2>1
    <2>2. CASE ~(i < k)
      <3>1. i - (k - 1) \in 1..(Len(q) - k) /\ ~(i <= Len(a)) /\ k + (i - (k - 1)) = i + 1
        BY <1>1, <1>4, <2>2
      <3>2. (a \o c)[i] = c[i - (k - 1)]
        BY <1>1, <1>4, <1>5, <1>6, <3>1
      <3> QED BY <1>5, <2>2, <3>1, <3>2
    <2> QED BY <2>1, <2>2
  <1>9. Len(a) + Len(c) = Len(q) - 1
    BY <1>1, <1>4, <1>5
  <1>10. Skips(a \o c, q, k)
    BY <1>6, <1>8, <1>9 DEF Skips
  <1> QED BY <1>6, <1>7, <1>10, Zenon

\* A new member with the greatest stamp goes to the end of the list.
LEMMA AtTheEnd ==
    ASSUME NEW V, NEW st, NEW f, Sorts(f, V, st), NEW v, v \notin V, NEW st2,
           \A u \in V : st2[u] = st[u] /\ st2[u] < st2[v]
    PROVE  Sorts(Append(f, v), V \cup {v}, st2)
  <1>1. /\ f \in Seq(V) /\ Len(f) \in Nat /\ DOMAIN f = 1..Len(f)
        /\ \A k \in 1..Len(f) : f[k] \in V
        /\ \A u \in V : \E k \in 1..Len(f) : f[k] = u
        /\ \A j, k \in 1..Len(f) : j < k => st[f[j]] < st[f[k]]
    BY DEF Sorts
  <1>2. PICK h \in Seq(V \cup {v}) : h = Append(f, v)
    <2>1. f \in Seq(V \cup {v})
      BY <1>1
    <2>2. Append(f, v) \in Seq(V \cup {v})
      BY <2>1
    <2> QED BY <2>2, Zenon
  <1>3. /\ Len(h) = Len(f) + 1 /\ DOMAIN h = 1..(Len(f) + 1)
        /\ \A k \in 1..Len(f) : h[k] = f[k]
        /\ h[Len(f) + 1] = v
    BY <1>1, <1>2
  <1>4. \A u \in V \cup {v} : \E k \in DOMAIN h : h[k] = u
    <2> SUFFICES ASSUME NEW u \in V \cup {v} PROVE \E k \in 1..(Len(f) + 1) : h[k] = u
      BY <1>3
    <2>1. CASE u = v
      BY <1>1, <1>3, <2>1
    <2>2. CASE u \in V
      <3>1. PICK k \in 1..Len(f) : f[k] = u
        BY <1>1, <2>2
      <3> QED BY <1>1, <1>3, <3>1
    <2> QED BY <2>1, <2>2
  <1>5. ASSUME NEW j \in DOMAIN h, NEW k \in DOMAIN h, j < k PROVE st2[h[j]] < st2[h[k]]
    <2>1. j \in 1..Len(f) /\ h[j] = f[j] /\ f[j] \in V
      BY <1>1, <1>3, <1>5
    <2>2. CASE k \in 1..Len(f)
      BY <1>1, <1>3, <1>5, <2>1, <2>2
    <2>3. CASE k = Len(f) + 1
      BY <1>3, <2>1, <2>3
    <2> QED BY <1>1, <1>3, <2>2, <2>3
  <1> QED BY <1>2, <1>4, <1>5 DEF Sorts

\* So does a member that gets a greater stamp than the others.
LEMMA ToTheEnd ==
    ASSUME NEW V, NEW st, \A v \in V : st[v] \in Nat, NEW f, Sorts(f, V, st),
           NEW k \in 1..Len(f), NEW st2,
           \A u \in V : u # f[k] => st2[u] = st[u] /\ st2[u] < st2[f[k]]
    PROVE  Sorts(Append(Policy!Without(f, k), f[k]), V, st2)
  <1>1. /\ f \in Seq(V) /\ Len(f) \in Nat /\ DOMAIN f = 1..Len(f)
        /\ \A i \in 1..Len(f) : f[i] \in V
        /\ \A u \in V : \E i \in 1..Len(f) : f[i] = u
        /\ \A i, j \in 1..Len(f) : i < j => st[f[i]] < st[f[j]]
        /\ \A i, j \in 1..Len(f) : f[i] = f[j] => i = j
    <2>1. /\ f \in Seq(V) /\ \A u \in V : \E i \in DOMAIN f : f[i] = u
          /\ \A i, j \in DOMAIN f : i < j => st[f[i]] < st[f[j]]
      BY DEF Sorts
    <2>2. /\ Len(f) \in Nat /\ DOMAIN f = 1..Len(f) /\ f \in [1..Len(f) -> V]
          /\ \A i, j \in 1..Len(f) : f[i] = f[j] => i = j
          /\ \A i, j \in 1..Len(f) : st[f[i]] <= st[f[j]] <=> i <= j
      BY SortedOnce, Zenon
    <2> QED BY <2>1, <2>2
  <1>2. PICK w \in Seq(V) : /\ w = Policy!Without(f, k) /\ Len(w) = Len(f) - 1
                            /\ \A i \in 1..(Len(f) - 1) : w[i] = IF i < k THEN f[i] ELSE f[i + 1]
    <2>1. PICK u \in Seq(V) : u = Policy!Without(f, k) /\ Skips(u, f, k)
      BY <1>1, WithoutIs
    <2> QED BY <2>1 DEF Skips
  <1>3. Sorts(w, V \ {f[k]}, st)
    <2>1. \A i \in 1..Len(w) : w[i] \in V \ {f[k]}
      BY SMTT(30), <1>1, <1>2
    <2>2. w \in Seq(V \ {f[k]})
      BY <2>1
    <2>3. ASSUME NEW u \in V \ {f[k]} PROVE \E i \in 1..Len(w) : w[i] = u
      <3>1. PICK i \in 1..Len(f) : f[i] = u
        BY <1>1
      <3>2. CASE i < k
        <4>1. i \in 1..(Len(f) - 1)
          BY <1>1, <3>2
        <4> QED BY <1>2, <3>1, <3>2, <4>1
      <3>3. CASE i > k
        <4>1. i - 1 \in 1..(Len(f) - 1) /\ ~(i - 1 < k) /\ (i - 1) + 1 = i
          BY <1>1, <3>3
        <4> QED BY <1>2, <3>1, <4>1
      <3> QED BY <1>1, <3>1, <3>2, <3>3
    <2>4. ASSUME NEW i \in 1..Len(w)
          PROVE  \E a \in 1..Len(f) :
                    w[i] = f[a] /\ ((i < k /\ a = i) \/ (~(i < k) /\ a = i + 1))
      <3>1. i \in 1..(Len(f) - 1) /\ i \in 1..Len(f) /\ i + 1 \in 1..Len(f)
        BY <1>1, <1>2
      <3>2. w[i] = IF i < k THEN f[i] ELSE f[i + 1]
        BY <1>2, <3>1
      <3>3. CASE i < k
        BY <3>1, <3>2, <3>3
      <3>4. CASE ~(i < k)
        BY <3>1, <3>2, <3>4
      <3> QED BY <3>3, <3>4
    <2>6. ASSUME NEW i \in 1..Len(w), NEW j \in 1..Len(w), i < j
          PROVE  st[w[i]] < st[w[j]]
      <3>1. PICK a \in 1..Len(f) : w[i] = f[a] /\ ((i < k /\ a = i) \/ (~(i < k) /\ a = i + 1))
        BY <2>4
      <3>2. PICK b \in 1..Len(f) : w[j] = f[b] /\ ((j < k /\ b = j) \/ (~(j < k) /\ b = j + 1))
        BY <2>4
      <3>3. a < b
        <4>1. i \in Int /\ j \in Int /\ k \in Int
          BY <1>1, <1>2
        <4> QED BY <2>6, <3>1, <3>2, <4>1
      <3>4. st[f[a]] < st[f[b]]
        BY <1>1, <3>3
      <3> QED BY <3>1, <3>2, <3>4
    <2>5. DOMAIN w = 1..Len(w)
      OBVIOUS
    <2> QED BY <2>2, <2>3, <2>5, <2>6 DEF Sorts
  <1>4. Sorts(Append(w, f[k]), (V \ {f[k]}) \cup {f[k]}, st2)
    BY <1>3, AtTheEnd
  <1>5. (V \ {f[k]}) \cup {f[k]} = V
    BY <1>1
  <1> QED BY <1>2, <1>4, <1>5

\* The list of what the members of a list stand for.
LEMMA ThroughIs ==
    ASSUME NEW V, NEW f \in Seq(V), NEW T, NEW g, \A u \in V : g[u] \in T
    PROVE  Through(f, g) \in Seq(T) /\ Len(Through(f, g)) = Len(f)
  <1>1. PICK n \in Nat : n = Len(f) /\ DOMAIN f = 1..n /\ \A k \in 1..n : f[k] \in V
    BY LenProperties
  <1>2. PICK a \in [1..n -> T] : a = Through(f, g) /\ \A k \in 1..n : a[k] = g[f[k]]
    <2>1. Through(f, g) = [k \in 1..n |-> g[f[k]]]
      BY <1>1 DEF Through
    <2>2. [k \in 1..n |-> g[f[k]]] \in [1..n -> T]
      BY <1>1
    <2> QED BY <2>1, <2>2
  <1>3. a \in Seq(T)
    BY SeqDef
  <1>4. Len(a) = n
    <2>1. 1..Len(a) = 1..n /\ Len(a) \in Nat
      BY <1>3, LenProperties
    <2> QED BY <2>1
  <1> QED BY <1>1, <1>2, <1>3, <1>4

\* A list with v at its end stands for the old one with what v stands for at its
\* end.
Extends(f, v, g, g2) == Through(Append(f, v), g2) = Append(Through(f, g), g2[v])

\* So it is when the others stand for what they did.
LEMMA ThroughAtTheEnd ==
    ASSUME NEW V, NEW f \in Seq(V), NEW v, NEW g, NEW g2, \A u \in V : g2[u] = g[u]
    PROVE  Extends(f, v, g, g2)
  <1>0. PICK T : \A u \in V : g[u] \in T
    <2>1. \A u \in V : g[u] \in {g[x] : x \in V}
      OBVIOUS
    <2> QED BY <2>1, Zenon
  <1>1. /\ Len(f) \in Nat /\ DOMAIN f = 1..Len(f)
        /\ \A k \in 1..Len(f) : f[k] \in V
    OBVIOUS
  <1>2. PICK a \in Seq(T) : a = Through(f, g) /\ Len(a) = Len(f) /\ \A k \in 1..Len(f) : a[k] = g[f[k]]
    <2>1. Through(f, g) \in Seq(T) /\ Len(Through(f, g)) = Len(f)
      BY <1>0, ThroughIs
    <2>2. Through(f, g) = [k \in 1..Len(f) |-> g[f[k]]]
      BY <1>1 DEF Through
    <2> QED BY <2>1, <2>2
  <1>3. PICK h \in Seq(V \cup {v}) : h = Append(f, v)
    <2>1. f \in Seq(V \cup {v})
      BY <1>1
    <2>2. Append(f, v) \in Seq(V \cup {v})
      BY <2>1
    <2> QED BY <2>2, Zenon
  <1>4. /\ DOMAIN h = 1..(Len(f) + 1) /\ h[Len(f) + 1] = v
        /\ \A k \in 1..Len(f) : h[k] = f[k]
    BY <1>1, <1>3
  <1>5. PICK b \in Seq(T \cup {g2[v]}) : b = Append(a, g2[v])
    <2>1. a \in Seq(T \cup {g2[v]})
      BY <1>2
    <2>2. Append(a, g2[v]) \in Seq(T \cup {g2[v]})
      BY <2>1
    <2> QED BY <2>2, Zenon
  <1>6. /\ DOMAIN b = 1..(Len(f) + 1) /\ b[Len(f) + 1] = g2[v]
        /\ \A k \in 1..Len(f) : b[k] = a[k]
    BY <1>1, <1>2, <1>5
  <1>7. \A k \in 1..(Len(f) + 1) : b[k] = g2[h[k]]
    <2> SUFFICES ASSUME NEW k \in 1..(Len(f) + 1) PROVE b[k] = g2[h[k]]
      OBVIOUS
    <2>1. CASE k \in 1..Len(f)
      BY <1>1, <1>2, <1>4, <1>6, <2>1
    <2>2. CASE k = Len(f) + 1
      BY <1>4, <1>6, <2>2
    <2> QED BY <1>1, <2>1, <2>2
  <1>8. b = [k \in 1..(Len(f) + 1) |-> b[k]]
    BY <1>6
  <1>9. b = Through(h, g2)
    BY <1>4, <1>7, <1>8 DEF Through
  <1> QED BY <1>2, <1>3, <1>5, <1>9 DEF Extends

\* Taking an element out of a list takes out what it stands for.
LEMMA ThroughWithout ==
    ASSUME NEW V, NEW f \in Seq(V), NEW k \in 1..Len(f), NEW g
    PROVE  Through(Policy!Without(f, k), g) = Policy!Without(Through(f, g), k)
  <1>0. PICK T : \A u \in V : g[u] \in T
    <2>1. \A u \in V : g[u] \in {g[x] : x \in V}
      OBVIOUS
    <2> QED BY <2>1, Zenon
  <1>1. /\ Len(f) \in Nat /\ DOMAIN f = 1..Len(f)
        /\ \A i \in 1..Len(f) : f[i] \in V
    OBVIOUS
  <1>2. PICK a \in Seq(T) : a = Through(f, g) /\ Len(a) = Len(f) /\ \A i \in 1..Len(f) : a[i] = g[f[i]]
    <2>1. Through(f, g) \in Seq(T) /\ Len(Through(f, g)) = Len(f)
      BY <1>0, ThroughIs
    <2>2. Through(f, g) = [i \in 1..Len(f) |-> g[f[i]]]
      BY <1>1 DEF Through
    <2> QED BY <2>1, <2>2
  <1>3. PICK w \in Seq(V) : /\ w = Policy!Without(f, k) /\ Len(w) = Len(f) - 1
                            /\ \A i \in 1..(Len(f) - 1) : w[i] = IF i < k THEN f[i] ELSE f[i + 1]
    <2>1. PICK u \in Seq(V) : u = Policy!Without(f, k) /\ Skips(u, f, k)
      BY <1>1, WithoutIs
    <2> QED BY <2>1 DEF Skips
  <1>4. PICK b \in Seq(T) : /\ b = Policy!Without(a, k) /\ Len(b) = Len(f) - 1
                            /\ \A i \in 1..(Len(f) - 1) : b[i] = IF i < k THEN a[i] ELSE a[i + 1]
    <2>1. k \in 1..Len(a)
      BY <1>2
    <2>2. PICK u \in Seq(T) : u = Policy!Without(a, k) /\ Skips(u, a, k)
      BY <2>1, WithoutIs
    <2> QED BY <1>2, <2>2 DEF Skips
  <1>5. \A i \in 1..(Len(f) - 1) : b[i] = g[w[i]]
    BY <1>1, <1>2, <1>3, <1>4
  <1>6. DOMAIN b = 1..(Len(f) - 1) /\ DOMAIN w = 1..(Len(f) - 1)
    BY <1>3, <1>4
  <1>7. b = [i \in 1..(Len(f) - 1) |-> b[i]]
    BY <1>6
  <1>8. b = Through(w, g)
    BY <1>5, <1>6, <1>7 DEF Through
  <1> QED BY <1>2, <1>3, <1>4, <1>8

-----------------------------------------------------------------------------
(* Stamps *)

\* No two lines of a set were used last by the same access.
Stamped ==
    \A s \in SetIndices : \A i, j \in Ways :
        lines[s][i].valid =>
            /\ lines[s][i].lastUsed <= accessTick
            /\ lines[s][j].valid /\ lines[s][i].lastUsed = lines[s][j].lastUsed => i = j

\* The lines of a set are filled in order before one is evicted.
FilledInOrder ==
    \A s \in SetIndices : \A i \in Ways : lines[s][i].valid <=> i < nextFifoOrdinal[s]

\* A line was filled before the next one will be.
Numbered ==
    \A s \in SetIndices : \A i \in Ways :
        lines[s][i].valid => lines[s][i].fifoOrdinal < nextFifoOrdinal[s]

\* The valid lines of set s, and of each line the stamp and the block.
ValidIn(s) == {i \in Ways : lines[s][i].valid}
StampIn(s) == [i \in Ways |-> Stamp(lines[s][i])]
HeldIn(s)  == [i \in Ways |-> HeldBlock(s, lines[s][i])]

\* The lines of a set are in an order, no two with the same stamp.
Listed == \A s \in SetIndices : \E f : Sorts(f, ValidIn(s), StampIn(s))

Inv ==
    /\ Types /\ cycles \in Nat
    /\ OneLinePerBlock /\ NothingLost
    /\ Stamped /\ FilledInOrder /\ Numbered /\ Listed

\* The victim is the next line to fill or, in a full set, one with the least
\* stamp.
LEMMA VictimIs ==
    ASSUME Arguments, Types, FilledInOrder, NEW s \in SetIndices
    PROVE  LET v == ChooseVictim(s)
           IN  \/ nextFifoOrdinal[s] < cfg.ways /\ v = nextFifoOrdinal[s]
               \/ /\ nextFifoOrdinal[s] >= cfg.ways
                  /\ \A j \in Ways : lines[s][j].valid
                  /\ \A j \in Ways : Stamp(lines[s][v]) <= Stamp(lines[s][j])
  <1>1. PICK n \in Nat, k \in Nat : n = nextFifoOrdinal[s] /\ k = cfg.ways /\ Ways = 0..(k - 1)
    BY Shape DEF Types, Ways
  <1>2. \A j \in Ways : lines[s][j].valid <=> j < n
    BY <1>1 DEF FilledInOrder
  <1>3. /\ ChooseVictim(s) \in Candidates(s)
        /\ \A j \in Candidates(s) : ChooseVictim(s) <= j
    BY VictimLine
  <1>4. CASE n < k
    <2>1. Candidates(s) = {i \in Ways : ~lines[s][i].valid}
      BY <1>1, <1>2, <1>4 DEF Candidates
    <2>2. Candidates(s) = n..(k - 1)
      BY <1>1, <1>2, <1>4, <2>1
    <2> QED BY <1>1, <1>3, <1>4, <2>2
  <1>5. CASE n >= k
    <2>1. \A j \in Ways : lines[s][j].valid
      BY <1>1, <1>2, <1>5
    <2>2. Candidates(s) = {i \in Ways : \A j \in Ways : Stamp(lines[s][i]) <= Stamp(lines[s][j])}
      BY <2>1 DEF Candidates
    <2> QED BY <1>1, <1>3, <1>5, <2>1, <2>2
  <1> QED BY <1>1, <1>4, <1>5

\* An access stamps the line with a tick that no line had yet.
LEMMA StampStep ==
    ASSUME Arguments, Types, Stamped, FilledInOrder, NEW addr \in Nat, Access(addr)
    PROVE  Stamped' /\ FilledInOrder'
  <1>0. /\ \A p \in SetIndices : \A w \in Ways : lines[p][w].lastUsed \in Nat
        /\ accessTick \in Nat /\ Ways \subseteq Nat
        /\ \A p \in SetIndices : nextFifoOrdinal[p] \in Nat
    BY Shape DEF Types, Line
  <1>1. CASE LoadHit(addr) \/ StoreHit(addr)
    <2>1. PICK s \in SetIndices, i \in Ways :
              /\ OnlyLine(s, i) /\ cfg' = cfg /\ nextFifoOrdinal' = nextFifoOrdinal
              /\ lines[s][i].valid /\ lines'[s][i].valid
              /\ lines'[s][i].lastUsed = accessTick + 1 /\ accessTick' = accessTick + 1
      BY <1>1, HitStep
    <2>2. SetIndices' = SetIndices /\ Ways' = Ways
      BY <2>1 DEF SetIndices, Ways
    <2>3. Stamped'
      BY <1>0, <2>1, <2>2 DEF Stamped, OnlyLine
    <2>4. FilledInOrder'
      BY <1>0, <2>1, <2>2 DEF FilledInOrder, OnlyLine
    <2> QED BY <2>3, <2>4
  <1>2. ASSUME NEW store \in BOOLEAN, cfg' = cfg, Fill(addr, store)
        PROVE  Stamped' /\ FilledInOrder'
    <2>1. PICK s \in SetIndices, v \in Ways :
              /\ v = ChooseVictim(s) /\ OnlyLine(s, v) /\ lines'[s][v].valid
              /\ nextFifoOrdinal' = [nextFifoOrdinal EXCEPT ![s] = @ + 1]
              /\ lines'[s][v].lastUsed = accessTick + 1 /\ accessTick' = accessTick + 1
      BY <1>2, FillStep
    <2>2. SetIndices' = SetIndices /\ Ways' = Ways
      BY <1>2 DEF SetIndices, Ways
    <2>3. Stamped'
      BY <1>0, <2>1, <2>2 DEF Stamped, OnlyLine
    <2>4. /\ nextFifoOrdinal'[s] = nextFifoOrdinal[s] + 1
          /\ \A p \in SetIndices : p # s => nextFifoOrdinal'[p] = nextFifoOrdinal[p]
      BY <2>1 DEF Types
    <2>5. \/ v = nextFifoOrdinal[s]
          \/ nextFifoOrdinal[s] >= cfg.ways /\ \A j \in Ways : lines[s][j].valid
      BY <2>1, VictimIs
    <2>6. \A i \in Ways : lines'[s][i].valid <=> i < nextFifoOrdinal'[s]
      <3>1. CASE v = nextFifoOrdinal[s]
        BY <1>0, <2>1, <2>4, <3>1 DEF FilledInOrder, OnlyLine
      <3>2. CASE nextFifoOrdinal[s] >= cfg.ways /\ \A j \in Ways : lines[s][j].valid
        <4>1. \A i \in Ways : i < nextFifoOrdinal[s] + 1
          BY <1>0, <3>2, Shape DEF Ways
        <4> QED BY <1>0, <2>1, <2>4, <3>2, <4>1 DEF OnlyLine
      <3> QED BY <2>5, <3>1, <3>2
    <2>7. FilledInOrder'
      BY <2>1, <2>2, <2>4, <2>6 DEF FilledInOrder, OnlyLine
    <2> QED BY <2>3, <2>7
  <1>3. CASE StoreAround(addr)
    BY <1>3 DEF StoreAround, Stamped, FilledInOrder, SetIndices, Ways
  <1> QED BY <1>1, <1>2, <1>3, AccessCases

-----------------------------------------------------------------------------
(* The list of a set before and after a step *)

\* Stamps are numbers.
LEMMA StampTypes ==
    ASSUME Types, NEW s \in SetIndices
    PROVE  /\ \A i \in Ways : lines[s][i] \in Line /\ StampIn(s)[i] = Stamp(lines[s][i])
           /\ \A i \in Ways : StampIn(s)[i] \in Nat
           /\ ValidIn(s) \subseteq Ways
  <1>1. \A i \in Ways : lines[s][i] \in Line
    BY DEF Types
  <1>2. \A i \in Ways : Stamp(lines[s][i]) \in Nat
    BY <1>1 DEF Stamp, Line
  <1> QED BY <1>1, <1>2 DEF StampIn, ValidIn

\* A step leaves the other sets as they are.
LEMMA OtherSets ==
    ASSUME Types, NEW s \in SetIndices, NEW i \in Ways, OnlyLine(s, i), cfg' = cfg,
           NEW p \in SetIndices, p # s
    PROVE  ValidIn(p)' = ValidIn(p) /\ StampIn(p)' = StampIn(p) /\ HeldIn(p)' = HeldIn(p)
  <1>1. \A w \in Ways : lines'[p][w] = lines[p][w]
    BY DEF OnlyLine
  <1>2. Ways' = Ways
    BY DEF Ways
  <1> QED BY <1>1, <1>2 DEF ValidIn, StampIn, HeldIn, Stamp, HeldBlock

\* In the set of the step all lines but one keep stamp and block.
LEMMA OtherLines ==
    ASSUME Types, NEW s \in SetIndices, NEW i \in Ways, OnlyLine(s, i), cfg' = cfg,
           lines'[s][i].valid
    PROVE  /\ ValidIn(s)' = ValidIn(s) \cup {i}
           /\ \A w \in Ways : w # i => /\ StampIn(s)'[w] = StampIn(s)[w]
                                       /\ HeldIn(s)'[w] = HeldIn(s)[w]
           /\ StampIn(s)'[i] = IF cfg.evict = "lru" THEN lines'[s][i].lastUsed
                               ELSE lines'[s][i].fifoOrdinal
           /\ HeldIn(s)'[i] = lines'[s][i].tag * cfg.sets + s
  <1>1. \A w \in Ways : w # i => lines'[s][w] = lines[s][w]
    BY DEF OnlyLine
  <1>2. Ways' = Ways
    BY DEF Ways
  <1>3. ValidIn(s)' = ValidIn(s) \cup {i}
    BY <1>1, <1>2 DEF ValidIn
  <1>4. /\ StampIn(s)' = [w \in Ways |-> IF cfg.evict = "lru" THEN lines'[s][w].lastUsed
                                         ELSE lines'[s][w].fifoOrdinal]
        /\ HeldIn(s)' = [w \in Ways |-> lines'[s][w].tag * cfg.sets + s]
    BY <1>2 DEF StampIn, HeldIn, Stamp, HeldBlock
  <1>5. /\ StampIn(s) = [w \in Ways |-> IF cfg.evict = "lru" THEN lines[s][w].lastUsed
                                        ELSE lines[s][w].fifoOrdinal]
        /\ HeldIn(s) = [w \in Ways |-> lines[s][w].tag * cfg.sets + s]
    BY DEF StampIn, HeldIn, Stamp, HeldBlock
  <1> QED BY <1>1, <1>3, <1>4, <1>5

\* Under LRU a hit puts its line at the end of the list; under FIFO it leaves
\* the list alone.
LEMMA ListAfterHit ==
    ASSUME Arguments, Types, Stamped, NEW addr \in Nat, LoadHit(addr) \/ StoreHit(addr),
           NEW s, s = IndexOf(addr), NEW f, Sorts(f, ValidIn(s), StampIn(s))
    PROVE  \E k \in 1..Len(f) :
              /\ f[k] = FindHit(addr)
              /\ IF cfg.evict = "lru"
                 THEN Sorts(Append(Policy!Without(f, k), f[k]), ValidIn(s)', StampIn(s)')
                 ELSE Sorts(f, ValidIn(s)', StampIn(s)')
  <1>1. PICK i \in Ways :
            /\ i = FindHit(addr) /\ s \in SetIndices /\ OnlyLine(s, i) /\ cfg' = cfg
            /\ lines[s][i].valid /\ lines'[s][i].valid
            /\ lines'[s][i].lastUsed = accessTick + 1
            /\ lines'[s][i].fifoOrdinal = lines[s][i].fifoOrdinal
    BY HitStep
  <1>2. /\ \A w \in Ways : lines[s][w] \in Line /\ StampIn(s)[w] = Stamp(lines[s][w])
        /\ \A w \in Ways : StampIn(s)[w] \in Nat
        /\ ValidIn(s) \subseteq Ways
    BY <1>1, StampTypes
  <1>3. /\ ValidIn(s)' = ValidIn(s) \cup {i}
        /\ \A w \in Ways : w # i => StampIn(s)'[w] = StampIn(s)[w]
        /\ StampIn(s)'[i] = IF cfg.evict = "lru" THEN lines'[s][i].lastUsed
                            ELSE lines'[s][i].fifoOrdinal
    BY <1>1, OtherLines
  <1>4. i \in ValidIn(s)
    BY <1>1 DEF ValidIn
  <1>5. PICK V : V = ValidIn(s) /\ V = ValidIn(s)' /\ V \subseteq Ways
    BY <1>2, <1>3, <1>4
  <1>6. PICK st, st2 : st = StampIn(s) /\ st2 = StampIn(s)'
    OBVIOUS
  <1>7. PICK k \in 1..Len(f) : f[k] = i
    <2>1. \E k \in DOMAIN f : f[k] = i
      BY <1>4 DEF Sorts
    <2> QED BY <1>2, <2>1, SortedOnce
  <1>8. CASE cfg.evict = "lru"
    <2>1. \A u \in V : u # i => st2[u] = st[u] /\ st2[u] < st2[i]
      <3>1. \A u \in V : lines[s][u].lastUsed <= accessTick
        BY <1>1, <1>5 DEF Stamped, ValidIn
      <3>2. accessTick \in Nat
        BY DEF Types
      <3>3. \A u \in V : st[u] = lines[s][u].lastUsed /\ st[u] \in Nat
        BY <1>2, <1>5, <1>6, <1>8 DEF Stamp
      <3> QED BY <1>1, <1>3, <1>5, <1>6, <1>8, <3>1, <3>2, <3>3
    <2>2. Sorts(f, V, st) /\ \A u \in V : st[u] \in Nat
      BY <1>2, <1>5, <1>6
    <2>3. Sorts(Append(Policy!Without(f, k), f[k]), V, st2)
      BY <1>7, <2>1, <2>2, ToTheEnd
    <2> QED BY <1>1, <1>5, <1>6, <1>7, <1>8, <2>3
  <1>9. CASE cfg.evict # "lru"
    <2>1. \A u \in V : st2[u] = st[u]
      BY <1>1, <1>2, <1>3, <1>5, <1>6, <1>9 DEF Stamp
    <2>2. f \in Seq(V) /\ \A u \in V : \E j \in DOMAIN f : f[j] = u
      BY <1>5 DEF Sorts
    <2>3. \A j \in DOMAIN f : f[j] \in V
      BY <2>2
    <2>4. \A j, l \in DOMAIN f : j < l => st[f[j]] < st[f[l]]
      BY <1>6 DEF Sorts
    <2>5. Sorts(f, V, st2)
      BY <2>1, <2>2, <2>3, <2>4 DEF Sorts
    <2> QED BY <1>1, <1>5, <1>6, <1>7, <1>9, <2>5
  <1> QED BY <1>8, <1>9

\* A fill puts its line at the end of the list, and when the set was full that
\* line had been the first.
LEMMA ListAfterFill ==
    ASSUME Arguments, Types, Stamped, FilledInOrder, Numbered,
           NEW addr \in Nat, NEW store \in BOOLEAN, Fill(addr, store), cfg' = cfg,
           NEW s, s = IndexOf(addr), NEW f, Sorts(f, ValidIn(s), StampIn(s)),
           NEW v, v = ChooseVictim(s)
    PROVE  \/ /\ ~lines[s][v].valid /\ Len(f) # cfg.ways
              /\ Sorts(Append(f, v), ValidIn(s)', StampIn(s)')
           \/ /\ lines[s][v].valid /\ Len(f) = cfg.ways /\ 1 \in 1..Len(f) /\ f[1] = v
              /\ Sorts(Append(Policy!Without(f, 1), f[1]), ValidIn(s)', StampIn(s)')
  <1>1. /\ v \in Ways /\ s \in SetIndices /\ OnlyLine(s, v)
        /\ lines'[s][v].valid /\ lines'[s][v].lastUsed = accessTick + 1
        /\ lines'[s][v].fifoOrdinal = nextFifoOrdinal[s]
    BY FillStep
  <1>2. /\ \A w \in Ways : lines[s][w] \in Line /\ StampIn(s)[w] = Stamp(lines[s][w])
        /\ \A w \in Ways : StampIn(s)[w] \in Nat
        /\ ValidIn(s) \subseteq Ways
    BY <1>1, StampTypes
  <1>3. /\ ValidIn(s)' = ValidIn(s) \cup {v}
        /\ \A w \in Ways : w # v => StampIn(s)'[w] = StampIn(s)[w]
        /\ StampIn(s)'[v] = IF cfg.evict = "lru" THEN lines'[s][v].lastUsed
                            ELSE lines'[s][v].fifoOrdinal
    BY <1>1, OtherLines
  <1>4. PICK V, V2 : V = ValidIn(s) /\ V2 = ValidIn(s)' /\ V \subseteq Ways /\ V2 = V \cup {v}
    BY <1>2, <1>3
  <1>5. PICK st, st2 : st = StampIn(s) /\ st2 = StampIn(s)'
    OBVIOUS
  <1>6. \A u \in V : u # v => st2[u] = st[u] /\ st2[u] < st2[v]
    <2>1. \A u \in V : /\ lines[s][u].lastUsed <= accessTick
                       /\ lines[s][u].fifoOrdinal < nextFifoOrdinal[s]
      BY <1>1, <1>4 DEF Stamped, Numbered, ValidIn
    <2>2. accessTick \in Nat /\ nextFifoOrdinal[s] \in Nat
      BY <1>1 DEF Types
    <2>3. \A u \in V : /\ st[u] = (IF cfg.evict = "lru" THEN lines[s][u].lastUsed
                                   ELSE lines[s][u].fifoOrdinal)
                       /\ st[u] \in Nat
      BY <1>2, <1>4, <1>5 DEF Stamp
    <2>4. \A u \in V : u # v => st2[u] = st[u]
      BY <1>3, <1>4, <1>5
    <2>5. CASE cfg.evict = "lru"
      BY <1>1, <1>3, <1>5, <2>1, <2>2, <2>3, <2>4, <2>5
    <2>6. CASE cfg.evict # "lru"
      BY <1>1, <1>3, <1>5, <2>1, <2>2, <2>3, <2>4, <2>6
    <2> QED BY <2>5, <2>6
  <1>7. Sorts(f, V, st) /\ \A u \in V : st[u] \in Nat
    BY <1>2, <1>4, <1>5
  <1>8. IsFiniteSet(V) /\ Cardinality(V) = Len(f) /\ Len(f) \in Nat
    BY <1>7, Ranking, SortedOnce
  <1>9. IsFiniteSet(Ways) /\ Cardinality(Ways) = cfg.ways /\ cfg.ways \in Nat /\ cfg.ways > 0
    <2>1. PICK n \in Nat : n = cfg.ways /\ n > 0
      BY Shape
    <2>2. IsFiniteSet(0..(n - 1)) /\ Cardinality(0..(n - 1)) = n
      <3>1. 0 \in Int /\ n - 1 \in Int /\ ~(0 > n - 1) /\ (n - 1) - 0 + 1 = n
        BY <2>1
      <3>2. /\ IsFiniteSet(0..(n - 1))
            /\ Cardinality(0..(n - 1)) = IF 0 > n - 1 THEN 0 ELSE (n - 1) - 0 + 1
        BY <3>1, FS_Interval, Zenon
      <3> QED BY <3>1, <3>2
    <2> QED BY <2>1, <2>2 DEF Ways
  <1>10. CASE v \notin V
    <2>1. ~lines[s][v].valid
      BY <1>1, <1>4, <1>10 DEF ValidIn
    <2>2. Len(f) # cfg.ways
      BY <1>1, <1>4, <1>8, <1>9, <1>10, FS_Subset
    <2>3. Sorts(Append(f, v), V \cup {v}, st2)
      BY <1>6, <1>7, <1>10, AtTheEnd
    <2> QED BY <1>4, <1>5, <2>1, <2>2, <2>3
  <1>11. CASE v \in V
    <2>1. lines[s][v].valid
      BY <1>4, <1>11 DEF ValidIn
    <2>2. /\ \A w \in Ways : lines[s][w].valid
          /\ \A w \in Ways : Stamp(lines[s][v]) <= Stamp(lines[s][w])
      BY <1>1, <2>1, VictimIs DEF FilledInOrder, Types
    <2>3. V = Ways
      BY <1>4, <2>2 DEF ValidIn
    <2>4. Len(f) = cfg.ways /\ 1 \in 1..Len(f)
      BY <1>8, <1>9, <2>3
    <2>5. f[1] = v
      <3>1. PICK k \in 1..Len(f) : f[k] = v
        BY <1>7, <1>11, SortedOnce DEF Sorts
      <3>2. f[1] \in V
        BY <1>7, <2>4 DEF Sorts
      <3>3. st[f[k]] <= st[f[1]]
        <4>1. st[v] = Stamp(lines[s][v]) /\ st[f[1]] = Stamp(lines[s][f[1]])
          BY <1>1, <1>2, <1>5, <2>3, <3>2
        <4>2. Stamp(lines[s][v]) <= Stamp(lines[s][f[1]])
          BY <2>2, <2>3, <3>2
        <4> QED BY <3>1, <4>1, <4>2
      <3>4. k <= 1
        BY <1>7, <2>4, <3>3, SortedOnce
      <3>5. k = 1
        BY <3>4
      <3> QED BY <3>1, <3>5
    <2>6. Sorts(Append(Policy!Without(f, 1), f[1]), V, st2)
      <3>1. \A u \in V : u # f[1] => st2[u] = st[u] /\ st2[u] < st2[f[1]]
        BY <1>6, <2>5
      <3> QED BY <1>7, <2>4, <3>1, ToTheEnd
    <2>7. V2 = V
      BY <1>4, <1>11
    <2> QED BY <1>4, <1>5, <2>1, <2>4, <2>5, <2>6, <2>7
  <1> QED BY <1>10, <1>11

\* The lines of every set stay in an order.
LEMMA ListedStep ==
    ASSUME Arguments, Types, Stamped, FilledInOrder, Numbered, Listed,
           NEW addr \in Nat, Access(addr)
    PROVE  Listed'
  <1>0. cfg' = cfg /\ SetIndices' = SetIndices
    BY ConfigStays DEF SetIndices
  <1>1. ASSUME NEW s, s = IndexOf(addr), NEW i \in Ways, s \in SetIndices, OnlyLine(s, i),
               \E f : Sorts(f, ValidIn(s)', StampIn(s)')
        PROVE  Listed'
    <2>1. ASSUME NEW p \in SetIndices PROVE \E f : Sorts(f, ValidIn(p)', StampIn(p)')
      <3>1. CASE p = s
        BY <1>1, <3>1
      <3>2. CASE p # s
        <4>1. ValidIn(p)' = ValidIn(p) /\ StampIn(p)' = StampIn(p)
          BY <1>0, <1>1, <3>2, OtherSets
        <4>2. \E f : Sorts(f, ValidIn(p), StampIn(p))
          BY DEF Listed
        <4> QED BY <4>1, <4>2
      <3> QED BY <3>1, <3>2
    <2> QED BY <1>0, <2>1 DEF Listed
  <1>2. CASE LoadHit(addr) \/ StoreHit(addr)
    <2>1. PICK s, i : s = IndexOf(addr) /\ i = FindHit(addr)
      OBVIOUS
    <2>2. i \in Ways /\ s \in SetIndices /\ OnlyLine(s, i)
      BY <1>2, <2>1, HitStep
    <2>3. PICK f : Sorts(f, ValidIn(s), StampIn(s))
      BY <2>2 DEF Listed
    <2>4. \E h : Sorts(h, ValidIn(s)', StampIn(s)')
      BY <1>2, <2>1, <2>3, ListAfterHit
    <2> QED BY <1>1, <2>1, <2>2, <2>4
  <1>3. ASSUME NEW store \in BOOLEAN, Fill(addr, store) PROVE Listed'
    <2>1. PICK s, v : s = IndexOf(addr) /\ v = ChooseVictim(s)
      OBVIOUS
    <2>2. v \in Ways /\ s \in SetIndices /\ OnlyLine(s, v)
      BY <1>0, <1>3, <2>1, FillStep
    <2>3. PICK f : Sorts(f, ValidIn(s), StampIn(s))
      BY <2>2 DEF Listed
    <2>4. \E h : Sorts(h, ValidIn(s)', StampIn(s)')
      BY <1>0, <1>3, <2>1, <2>3, ListAfterFill
    <2> QED BY <1>1, <2>1, <2>2, <2>4
  <1>4. CASE StoreAround(addr)
    <2>1. UNCHANGED <<lines, cfg>>
      BY <1>4 DEF StoreAround
    <2> QED BY <1>0, <2>1 DEF Listed, ValidIn, StampIn, Stamp, Ways
  <1> QED BY <1>2, <1>3, <1>4, AccessCases

\* A line's number is less than the next one of its set.
LEMMA NumberedStep ==
    ASSUME Arguments, Types, Numbered, NEW addr \in Nat, Access(addr)
    PROVE  Numbered'
  <1>0. /\ \A p \in SetIndices : \A w \in Ways : lines[p][w].fifoOrdinal \in Nat
        /\ \A p \in SetIndices : nextFifoOrdinal[p] \in Nat
        /\ cfg' = cfg /\ SetIndices' = SetIndices /\ Ways' = Ways
    BY ConfigStays DEF Types, Line, SetIndices, Ways
  <1>1. CASE LoadHit(addr) \/ StoreHit(addr)
    <2>1. PICK s \in SetIndices, i \in Ways :
              /\ OnlyLine(s, i) /\ nextFifoOrdinal' = nextFifoOrdinal
              /\ lines[s][i].valid /\ lines'[s][i].fifoOrdinal = lines[s][i].fifoOrdinal
      BY <1>1, HitStep
    <2> QED BY <1>0, <2>1 DEF Numbered, OnlyLine
  <1>2. ASSUME NEW store \in BOOLEAN, Fill(addr, store) PROVE Numbered'
    <2>1. PICK s \in SetIndices, v \in Ways :
              /\ OnlyLine(s, v) /\ nextFifoOrdinal' = [nextFifoOrdinal EXCEPT ![s] = @ + 1]
              /\ lines'[s][v].fifoOrdinal = nextFifoOrdinal[s]
      <3>1. cfg' = cfg
        BY <1>0
      <3> QED BY <1>2, <3>1, FillStep
    <2>2. /\ nextFifoOrdinal'[s] = nextFifoOrdinal[s] + 1
          /\ \A p \in SetIndices : p # s => nextFifoOrdinal'[p] = nextFifoOrdinal[p]
      BY <2>1 DEF Types
    <2> QED BY <1>0, <2>1, <2>2 DEF Numbered, OnlyLine
  <1>3. CASE StoreAround(addr)
    BY <1>0, <1>3 DEF StoreAround, Numbered
  <1> QED BY <1>1, <1>2, <1>3, AccessCases

\* A word holds a number, and so does each cost.
LEMMA CostsAre ==
    ASSUME Arguments, Types
    PROVE  /\ WordCost \in Nat /\ BlockCost(cfg) \in Nat
           /\ \A n \in Nat : Wrap(n) \in Nat
  <1>1. PICK m \in Nat : m = Power[Bits] /\ m > 0
    BY PowersGrow DEF Arguments
  <1>2. \A n \in Nat : Wrap(n) \in Nat
    BY <1>1, Division DEF Wrap
  <1>3. 100 * (cfg.blockBytes \div 4) \in Nat
    BY Shape
  <1> QED BY <1>2, <1>3 DEF WordCost, BlockCost

\* Cycles are a number.
LEMMA CyclesStep ==
    ASSUME Arguments, Types, cycles \in Nat, NEW addr, Access(addr)
    PROVE  cycles' \in Nat
  <1>1. WordCost \in Nat /\ BlockCost(cfg) \in Nat
    BY CostsAre
  <1>2. ASSUME NEW store, Fill(addr, store) PROVE cycles' \in Nat
    BY <1>1, <1>2, CostsAre DEF Fill
  <1>3. CASE LoadHit(addr)
    BY <1>3, CostsAre DEF LoadHit
  <1>4. CASE StoreHit(addr)
    BY <1>1, <1>4, CostsAre DEF StoreHit
  <1>5. CASE StoreAround(addr)
    BY <1>1, <1>5, CostsAre DEF StoreAround
  <1> QED BY <1>2, <1>3, <1>4, <1>5, AccessCases

-----------------------------------------------------------------------------
(* The invariant *)

\* It holds of the empty cache.
LEMMA InitInv ==
    ASSUME Arguments, Init, ShiftDefined(cfg)
    PROVE  Inv
  <1>1. Types
    BY DEF Types, Init, NoLine, NoStats, Line, Counters, SetIndices, Ways
  <1>2. \A s \in SetIndices : \A i \in Ways :
            lines[s][i].valid = FALSE /\ nextFifoOrdinal[s] = 0
    BY DEF Init, NoLine
  <1>3. OneLinePerBlock /\ Stamped
    BY <1>2 DEF OneLinePerBlock, Stamped
  <1>4. FilledInOrder
    BY <1>1, <1>2, Shape DEF FilledInOrder
  <1>5. NothingLost
    <2>1. stale = {} /\ \A b : b \notin DirtyBlocks
      BY <1>2, DirtyBlocksAre DEF Init, Dirty
    <2> QED BY <2>1 DEF NothingLost
  <1>6. Listed /\ Numbered /\ cycles \in Nat
    <2>1. ASSUME NEW s \in SetIndices PROVE Sorts(<<>>, ValidIn(s), StampIn(s))
      <3>1. ValidIn(s) = {}
        BY <1>2 DEF ValidIn
      <3> QED BY <3>1, EmptySeq DEF Sorts
    <2> QED BY <1>2, <2>1 DEF Listed, Numbered, Init
  <1> QED BY <1>1, <1>3, <1>4, <1>5, <1>6 DEF Inv

\* Every access preserves it.
LEMMA InvStep ==
    ASSUME Arguments, Inv, NEW addr \in Nat, Access(addr)
    PROVE  Inv'
  BY TypesStep, OneLineStep, NothingLostStep, StampStep, NumberedStep, ListedStep, CyclesStep
     DEF Inv

\* So does a step that changes nothing.
LEMMA InvStutter ==
    ASSUME Inv, UNCHANGED vars
    PROVE  Inv'
  <1>1. /\ UNCHANGED <<cfg, lines, nextFifoOrdinal, accessTick, stats, stale>>
        /\ SetIndices' = SetIndices /\ Ways' = Ways
    BY DEF vars, SetIndices, Ways
  <1>2. Types'
    BY <1>1 DEF Inv, Types, Accepted, ShiftDefined, TagShift
  <1>3. NothingLost'
    <2>1. DirtyBlocks' = DirtyBlocks
      BY <1>1 DEF DirtyBlocks, DirtyIn, HeldBlock
    <2> QED BY <1>1, <2>1 DEF Inv, NothingLost
  <1>4. OneLinePerBlock' /\ Stamped' /\ FilledInOrder'
    BY <1>1 DEF Inv, OneLinePerBlock, Stamped, FilledInOrder
  <1>5. Numbered' /\ Listed' /\ cycles' \in Nat
    BY <1>1 DEF vars, Inv, Numbered, Listed, ValidIn, StampIn, Stamp
  <1> QED BY <1>2, <1>3, <1>4, <1>5 DEF Inv

-----------------------------------------------------------------------------
(* The textbook cache *)

\* The list of a set as CacheSim makes it, of any lines L.
StampOf(ev, ln) == IF ev = "lru" THEN ln.lastUsed ELSE ln.fifoOrdinal
RankedBy(W, L, ev, n, s) ==
    LET held    == {i \in W : L[i].valid}
        Rank(i) == Cardinality({j \in held : StampOf(ev, L[j]) <= StampOf(ev, L[i])})
    IN  [k \in 1..Cardinality(held) |-> L[CHOOSE i \in held : Rank(i) = k].tag * n + s]

\* It is the list of their blocks in the order of the stamps.
LEMMA RankedIs ==
    ASSUME NEW W, NEW L, NEW ev, NEW n, NEW s, NEW f,
           NEW V, V = {i \in W : L[i].valid},
           NEW st, \A i \in V : st[i] = StampOf(ev, L[i]) /\ st[i] \in Nat,
           NEW g, \A i \in V : g[i] = L[i].tag * n + s,
           Sorts(f, V, st)
    PROVE  RankedBy(W, L, ev, n, s) = Through(f, g)
  <1>1. /\ Cardinality(V) = Len(f)
        /\ \A k \in 1..Len(f) : Cardinality({v \in V : st[v] <= st[f[k]]}) = k
    <2>1. Cardinality(V) = Len(f) /\ PlaceIsRank(f, V, st)
      BY Ranking
    <2> QED BY <2>1 DEF PlaceIsRank
  <1>2. /\ Len(f) \in Nat /\ DOMAIN f = 1..Len(f) /\ \A k \in 1..Len(f) : f[k] \in V
        /\ \A v \in V : \E k \in 1..Len(f) : f[k] = v
    BY SortedOnce DEF Sorts
  <1> DEFINE Rank(i) == Cardinality({j \in V : StampOf(ev, L[j]) <= StampOf(ev, L[i])})
  <1>3. ASSUME NEW k \in 1..Len(f) PROVE Rank(f[k]) = k
    <2>1. {j \in V : StampOf(ev, L[j]) <= StampOf(ev, L[f[k]])} = {v \in V : st[v] <= st[f[k]]}
      BY <1>2
    <2> QED BY <1>1, <2>1
  <1> HIDE DEF Rank
  <1>4. ASSUME NEW k \in 1..Len(f) PROVE (CHOOSE i \in V : Rank(i) = k) = f[k]
    <2>1. \E i \in V : Rank(i) = k
      BY <1>2, <1>3
    <2>2. PICK i \in V : i = (CHOOSE x \in V : Rank(x) = k) /\ Rank(i) = k
      BY <2>1
    <2>3. PICK m \in 1..Len(f) : f[m] = i
      BY <1>2
    <2>4. m = k
      BY <1>3, <2>2, <2>3
    <2> QED BY <2>2, <2>3, <2>4
  <1>5. RankedBy(W, L, ev, n, s) = [k \in 1..Len(f) |-> L[CHOOSE i \in V : Rank(i) = k].tag * n + s]
    BY <1>1 DEF RankedBy, Rank
  <1>6. \A k \in 1..Len(f) : L[CHOOSE i \in V : Rank(i) = k].tag * n + s = g[f[k]]
    BY <1>2, <1>4
  <1> QED BY <1>2, <1>5, <1>6 DEF Through

\* The same operator makes the lists before a step and after it.
LEMMA OrderedIsRanked ==
    ASSUME NEW s
    PROVE  /\ Ordered(s) = RankedBy(Ways, lines[s], cfg.evict, cfg.sets, s)
           /\ Ordered(s)' = RankedBy(Ways', lines'[s], cfg'.evict, cfg'.sets, s)
  BY DEF Ordered, RankedBy, StampOf, Stamp, HeldBlock

LEMMA OrderedIs ==
    ASSUME Types, NEW s \in SetIndices, NEW f, Sorts(f, ValidIn(s), StampIn(s))
    PROVE  Ordered(s) = Through(f, HeldIn(s))
  <1>1. /\ \A i \in Ways : StampIn(s)[i] = Stamp(lines[s][i]) /\ StampIn(s)[i] \in Nat
        /\ ValidIn(s) \subseteq Ways
    BY StampTypes
  <1>2. \A i \in ValidIn(s) : StampIn(s)[i] = StampOf(cfg.evict, lines[s][i]) /\ StampIn(s)[i] \in Nat
    BY <1>1 DEF Stamp, StampOf
  <1>3. \A i \in ValidIn(s) : HeldIn(s)[i] = lines[s][i].tag * cfg.sets + s
    BY <1>1 DEF HeldIn, HeldBlock
  <1>4. ValidIn(s) = {i \in Ways : lines[s][i].valid}
    BY DEF ValidIn
  <1>5. RankedBy(Ways, lines[s], cfg.evict, cfg.sets, s) = Through(f, HeldIn(s))
    BY <1>2, <1>3, <1>4, RankedIs
  <1> QED BY <1>5, OrderedIsRanked

\* The same after a step.
LEMMA OrderedIsNext ==
    ASSUME Types', NEW s \in SetIndices', NEW f, Sorts(f, ValidIn(s)', StampIn(s)')
    PROVE  Ordered(s)' = Through(f, HeldIn(s)')
  <1>1. \A i \in Ways' : lines'[s][i] \in Line
    BY DEF Types
  <1>2. \A i \in Ways' : StampIn(s)'[i] = StampOf(cfg'.evict, lines'[s][i]) /\ StampIn(s)'[i] \in Nat
    BY <1>1 DEF StampIn, Stamp, StampOf, Line
  <1>3. \A i \in Ways' : HeldIn(s)'[i] = lines'[s][i].tag * cfg'.sets + s
    BY DEF HeldIn, HeldBlock
  <1>4. ValidIn(s)' = {i \in Ways' : lines'[s][i].valid}
    BY DEF ValidIn
  <1>5. ValidIn(s)' \subseteq Ways'
    BY <1>4
  <1>6. RankedBy(Ways', lines'[s], cfg'.evict, cfg'.sets, s) = Through(f, HeldIn(s)')
    BY <1>2, <1>3, <1>4, <1>5, RankedIs
  <1> QED BY <1>6, OrderedIsRanked

\* The lists of all sets: what stands for the variable order of CachePolicy.
Order == [s \in SetIndices |-> Ordered(s)]

\* What the elements of a list are.
LEMMA ListOf ==
    ASSUME Arguments, Types, OneLinePerBlock, NEW s \in SetIndices,
           NEW f, Sorts(f, ValidIn(s), StampIn(s))
    PROVE  /\ Order[s] \in Seq(Nat) /\ Len(Order[s]) = Len(f) /\ Len(f) \in Nat
           /\ Order[s] = Through(f, HeldIn(s))
           /\ f \in Seq(ValidIn(s)) /\ ValidIn(s) \subseteq Ways
           /\ \A i \in ValidIn(s) : HeldIn(s)[i] = Held(s, i) /\ HeldIn(s)[i] \in Nat
           /\ \A k \in 1..Len(f) : Order[s][k] = Held(s, f[k]) /\ f[k] \in ValidIn(s)
           /\ \A j, k \in 1..Len(f) : Order[s][j] = Order[s][k] => j = k
           /\ \A i \in ValidIn(s) : \E k \in 1..Len(f) : f[k] = i
  <1>1. PICK V, st, g : V = ValidIn(s) /\ st = StampIn(s) /\ g = HeldIn(s)
    OBVIOUS
  <1>2. V \subseteq Ways /\ \A v \in V : st[v] \in Nat
    BY <1>1, StampTypes
  <1>3. /\ Len(f) \in Nat /\ DOMAIN f = 1..Len(f) /\ f \in [1..Len(f) -> V]
        /\ \A j, k \in 1..Len(f) : f[j] = f[k] => j = k
    BY <1>1, <1>2, SortedOnce
  <1>4. f \in Seq(V) /\ \A v \in V : \E k \in 1..Len(f) : f[k] = v
    BY <1>1, <1>3 DEF Sorts
  <1>5. \A v \in V : g[v] = Held(s, v) /\ g[v] \in Nat
    <2>1. \A v \in V : g[v] = Held(s, v)
      BY <1>1, <1>2 DEF HeldIn, Held
    <2>2. \A v \in V : lines[s][v].tag \in Nat
      BY <1>2 DEF Types, Line
    <2> QED BY <2>1, <2>2, Shape DEF Held, HeldBlock
  <1>6. Order[s] = Through(f, g)
    BY <1>1, OrderedIs DEF Order
  <1>7. Through(f, g) \in Seq(Nat) /\ Len(Through(f, g)) = Len(f)
    <2>1. PICK T : T = Nat
      OBVIOUS
    <2>2. f \in Seq(V) /\ \A v \in V : g[v] \in T
      BY <1>4, <1>5, <2>1
    <2>3. Through(f, g) \in Seq(T) /\ Len(Through(f, g)) = Len(f)
      BY ONLY <2>2, ThroughIs
    <2> QED BY <2>1, <2>3
  <1>8. \A k \in 1..Len(f) : Order[s][k] = Held(s, f[k])
    BY <1>3, <1>5, <1>6 DEF Through
  <1>9. ASSUME NEW j \in 1..Len(f), NEW k \in 1..Len(f), Order[s][j] = Order[s][k] PROVE j = k
    <2>1. f[j] \in Ways /\ f[k] \in Ways /\ lines[s][f[j]].valid /\ lines[s][f[k]].valid
      BY <1>1, <1>2, <1>3 DEF ValidIn
    <2>2. f[j] = f[k]
      BY <1>8, <1>9, <2>1, HeldOnce
    <2> QED BY <1>3, <2>2
  <1> QED BY <1>1, <1>2, <1>3, <1>4, <1>5, <1>6, <1>7, <1>8, <1>9

\* A step changes the list of the set it is in only.
LEMMA OrderStep ==
    ASSUME Types, Types', cfg' = cfg, NEW s \in SetIndices, NEW i \in Ways, OnlyLine(s, i)
    PROVE  /\ Order' = [Order EXCEPT ![s] = Ordered(s)']
           /\ SetIndices' = SetIndices /\ Ways' = Ways
  <1>1. SetIndices' = SetIndices /\ Ways' = Ways
    BY DEF SetIndices, Ways
  <1>2. ASSUME NEW p \in SetIndices, p # s PROVE Ordered(p)' = Ordered(p)
    <2>1. lines[p] \in [Ways -> Line] /\ lines'[p] \in [Ways -> Line]
      BY <1>1 DEF Types
    <2>2. \A w \in Ways : lines'[p][w] = lines[p][w]
      BY <1>2 DEF OnlyLine
    <2>3. lines'[p] = lines[p]
      BY <2>1, <2>2
    <2> QED BY <1>1, <2>3, OrderedIsRanked
  <1>3. Order' = [p \in SetIndices |-> Ordered(p)']
    BY <1>1 DEF Order
  <1> QED BY <1>1, <1>2, <1>3 DEF Order

\* The actions of CachePolicy in the terms of CacheSim.
LEMMA PolicyTerms ==
    ASSUME NEW b, NEW store, NEW s, s = b % cfg.sets
    PROVE  /\ Policy!Hit(b, store) <=>
                 /\ b \in Policy!Contents(Order[s])
                 /\ Order' = [Order EXCEPT ![s] = Policy!Used(Order[s], b)]
                 /\ DirtyBlocks' = IF store /\ ~cfg.writeThrough THEN DirtyBlocks \cup {b}
                                   ELSE DirtyBlocks
                 /\ cycles' = (cycles + 1 + IF store /\ cfg.writeThrough THEN WordCost ELSE 0)
                              % Power[Bits]
                 /\ (stats.loadHits + stats.storeHits)' = (stats.loadHits + stats.storeHits) + 1
                 /\ cfg' = cfg /\ Misses' = Misses
           /\ Policy!Miss(b, store) <=>
                 /\ b \notin Policy!Contents(Order[s])
                 /\ store => cfg.writeAllocate
                 /\ Order' = [Order EXCEPT ![s] = Policy!Entered(Order[s], b)]
                 /\ DirtyBlocks' = (DirtyBlocks \ Policy!WrittenBack(Order[s]))
                                   \cup (IF store /\ ~cfg.writeThrough THEN {b} ELSE {})
                 /\ cycles' = (cycles + 1 + BlockCost(cfg)
                       + (IF Policy!WrittenBack(Order[s]) # {} THEN BlockCost(cfg) ELSE 0)
                       + (IF store /\ cfg.writeThrough THEN WordCost ELSE 0)) % Power[Bits]
                 /\ Misses' = Misses + 1
                 /\ cfg' = cfg
                 /\ (stats.loadHits + stats.storeHits)' = stats.loadHits + stats.storeHits
           /\ Policy!Around(b) <=>
                 /\ b \notin Policy!Contents(Order[s])
                 /\ ~cfg.writeAllocate
                 /\ cycles' = (cycles + WordCost) % Power[Bits]
                 /\ Misses' = Misses + 1
                 /\ cfg' = cfg /\ Order' = Order /\ DirtyBlocks' = DirtyBlocks
                 /\ (stats.loadHits + stats.storeHits)' = stats.loadHits + stats.storeHits
  <1>1. Policy!Home(b) = s
    BY DEF Policy!Home
  <1>2. /\ Order = [p \in SetIndices |-> Ordered(p)]
        /\ Order' = [p \in SetIndices |-> Ordered(p)]'
    BY DEF Order
  <1>3. Policy!Resident(b) <=> b \in Policy!Contents(Order[s])
    BY <1>1, <1>2 DEF Policy!Resident
  <1> QED BY <1>1, <1>2, <1>3 DEF Policy!Hit, Policy!Miss, Policy!Around

\* An access counts one hit or one miss.
LEMMA OneMore ==
    ASSUME stats \in Counters, NEW addr, Access(addr)
    PROVE  IF Hits(addr) # {}
           THEN /\ (stats.loadHits + stats.storeHits)' = (stats.loadHits + stats.storeHits) + 1
                /\ Misses' = Misses
           ELSE /\ (stats.loadHits + stats.storeHits)' = stats.loadHits + stats.storeHits
                /\ Misses' = Misses + 1
  <1>1. /\ stats.loadHits \in Nat /\ stats.storeHits \in Nat
        /\ stats.loadMisses \in Nat /\ stats.storeMisses \in Nat
    BY DEF Counters
  <1>2. CASE LoadHit(addr)
    BY <1>1, <1>2 DEF LoadHit, Count, Counters, Misses
  <1>3. CASE LoadMiss(addr)
    BY <1>1, <1>3 DEF LoadMiss, Count, Counters, Misses
  <1>4. CASE StoreHit(addr)
    BY <1>1, <1>4 DEF StoreHit, Count, Counters, Misses
  <1>5. CASE StoreMiss(addr)
    BY <1>1, <1>5 DEF StoreMiss, Count, Counters, Misses
  <1>6. CASE StoreAround(addr)
    BY <1>1, <1>6 DEF StoreAround, Count, Counters, Misses
  <1> QED BY <1>2, <1>3, <1>4, <1>5, <1>6 DEF Access, Load, Store

\* A block is resident exactly when findHit finds its line.
LEMMA ResidentIs ==
    ASSUME Arguments, Inv, NEW addr \in Nat, NEW s, s = IndexOf(addr)
    PROVE  /\ s \in SetIndices /\ BlockOf(addr) % cfg.sets = s
           /\ BlockOf(addr) \in Policy!Contents(Order[s]) <=> Hits(addr) # {}
  <1>1. Types /\ OneLinePerBlock
    BY DEF Inv
  <1>2. s \in SetIndices /\ TagOf(addr) \in Nat /\ TagOf(addr) * cfg.sets + s = BlockOf(addr)
    BY <1>1, Addressing
  <1>3. BlockOf(addr) % cfg.sets = s
    BY <1>1, Shape DEF BlockOf, IndexOf
  <1>4. PICK f : Sorts(f, ValidIn(s), StampIn(s))
    BY <1>2 DEF Inv, Listed
  <1>5. /\ Order[s] \in Seq(Nat) /\ Len(Order[s]) = Len(f) /\ Len(f) \in Nat
        /\ ValidIn(s) \subseteq Ways
        /\ \A k \in 1..Len(f) : Order[s][k] = Held(s, f[k]) /\ f[k] \in ValidIn(s)
        /\ \A i \in ValidIn(s) : \E k \in 1..Len(f) : f[k] = i
    BY <1>1, <1>2, <1>4, ListOf
  <1>6. Hits(addr) = {i \in ValidIn(s) : lines[s][i].tag = TagOf(addr)}
    BY DEF Hits, Matching, ValidIn
  <1>7. \A i \in ValidIn(s) : lines[s][i].tag = TagOf(addr) <=> Held(s, i) = BlockOf(addr)
    <2> SUFFICES ASSUME NEW i \in ValidIn(s)
                 PROVE  lines[s][i].tag = TagOf(addr) <=> Held(s, i) = BlockOf(addr)
      OBVIOUS
    <2>1. lines[s][i].tag \in Nat /\ cfg.sets \in Nat
      BY <1>1, <1>2, <1>5, Shape DEF Types, Line
    <2>2. Held(s, i) = lines[s][i].tag * cfg.sets + s
      BY DEF Held, HeldBlock
    <2>3. s \in 0..(cfg.sets - 1)
      BY <1>2 DEF SetIndices
    <2>4. ASSUME Held(s, i) = BlockOf(addr) PROVE lines[s][i].tag = TagOf(addr)
      <3>1. lines[s][i].tag * cfg.sets + s = TagOf(addr) * cfg.sets + s
        BY <1>2, <2>2, <2>4
      <3>2. TagOf(addr) \in Nat
        BY <1>2
      <3> QED BY ONLY <2>1, <2>3, <3>1, <3>2, BlockSplits
    <2> QED BY <1>2, <2>2, <2>4
  <1>8. BlockOf(addr) \in Policy!Contents(Order[s]) <=>
           \E k \in 1..Len(f) : Order[s][k] = BlockOf(addr)
    BY <1>5 DEF Policy!Contents
  <1> QED BY <1>2, <1>3, <1>5, <1>6, <1>7, <1>8

\* A hit is a hit of the textbook cache.
LEMMA HitImplements ==
    ASSUME Arguments, Inv, Inv', NEW addr \in Nat, NEW store,
           (store = FALSE /\ LoadHit(addr)) \/ (store = TRUE /\ StoreHit(addr))
    PROVE  Policy!Hit(BlockOf(addr), store)
  <1>0. /\ Types /\ OneLinePerBlock /\ Stamped /\ Types' /\ stats \in Counters
        /\ stale = DirtyBlocks /\ stale' = DirtyBlocks'
    BY DEF Inv, NothingLost, Types
  <1>1. PICK s, i, b : s = IndexOf(addr) /\ i = FindHit(addr) /\ b = BlockOf(addr)
    OBVIOUS
  <1>2. /\ s \in SetIndices /\ b % cfg.sets = s
        /\ b \in Policy!Contents(Order[s]) /\ Hits(addr) # {}
    BY <1>1, ResidentIs DEF LoadHit, StoreHit
  <1>3. /\ i \in Ways /\ lines[s][i].valid /\ lines[s][i].tag = TagOf(addr)
        /\ OnlyLine(s, i) /\ lines'[s][i].valid /\ lines'[s][i].tag = TagOf(addr) /\ cfg' = cfg
    BY <1>0, <1>1, HitStep
  <1>4. PICK f : Sorts(f, ValidIn(s), StampIn(s))
    BY <1>2 DEF Inv, Listed
  <1>5. PICK k \in 1..Len(f) :
            /\ f[k] = i
            /\ IF cfg.evict = "lru"
               THEN Sorts(Append(Policy!Without(f, k), f[k]), ValidIn(s)', StampIn(s)')
               ELSE Sorts(f, ValidIn(s)', StampIn(s)')
    BY <1>0, <1>1, <1>4, ListAfterHit
  <1>6. PICK q, V, g, g2 : q = Order[s] /\ V = ValidIn(s) /\ g = HeldIn(s) /\ g2 = HeldIn(s)'
    OBVIOUS
  <1>7. /\ q \in Seq(Nat) /\ Len(q) = Len(f) /\ Len(f) \in Nat /\ q = Through(f, g)
        /\ f \in Seq(V) /\ V \subseteq Ways
        /\ \A u \in V : g[u] = Held(s, u) /\ g[u] \in Nat
        /\ \A j \in 1..Len(f) : q[j] = Held(s, f[j]) /\ f[j] \in V
        /\ \A j, l \in 1..Len(f) : q[j] = q[l] => j = l
    <2>1. /\ Order[s] \in Seq(Nat) /\ Len(Order[s]) = Len(f) /\ Len(f) \in Nat
          /\ Order[s] = Through(f, HeldIn(s))
          /\ f \in Seq(ValidIn(s)) /\ ValidIn(s) \subseteq Ways
          /\ \A u \in ValidIn(s) : HeldIn(s)[u] = Held(s, u) /\ HeldIn(s)[u] \in Nat
          /\ \A j \in 1..Len(f) : Order[s][j] = Held(s, f[j]) /\ f[j] \in ValidIn(s)
      BY <1>0, <1>2, <1>4, ListOf
    <2>2. \A j, l \in 1..Len(f) : Order[s][j] = Order[s][l] => j = l
      BY <1>0, <1>2, <1>4, ListOf, Zenon
    <2> QED BY <1>6, <2>1, <2>2
  <1>8. Held(s, i) = b /\ g2[i] = b /\ \A u \in V : g2[u] = g[u]
    <2>1. /\ \A w \in Ways : w # i => g2[w] = g[w]
          /\ g2[i] = lines'[s][i].tag * cfg.sets + s
      BY <1>0, <1>2, <1>3, <1>6, OtherLines
    <2>2. TagOf(addr) * cfg.sets + s = b
      BY <1>0, <1>1, Addressing
    <2>3. Held(s, i) = b
      BY <1>3, <2>2 DEF Held, HeldBlock
    <2>4. i \in V
      BY <1>3, <1>6 DEF ValidIn
    <2> QED BY <1>3, <1>7, <2>1, <2>2, <2>3, <2>4
  <1>9. (CHOOSE j \in DOMAIN q : q[j] = b) = k
    <2>1. k \in DOMAIN q /\ q[k] = b /\ \A j \in DOMAIN q : q[j] = b => j = k
      BY SMTT(30), <1>5, <1>7, <1>8
    <2> QED BY <2>1
  <1>10. Ordered(s)' = Policy!Used(q, b)
    <2>1. CASE cfg.evict = "lru"
      <3>1. PICK w \in Seq(V) : w = Policy!Without(f, k)
        BY <1>5, <1>7, WithoutIs
      <3>2. Ordered(s)' = Through(Append(w, i), g2)
        BY <1>0, <1>2, <1>3, <1>5, <1>6, <2>1, <3>1, OrderStep, OrderedIsNext
      <3>3. Through(Append(w, i), g2) = Append(Through(w, g), g2[i])
        <4>1. \A u \in V : g2[u] = g[u]
          BY <1>8
        <4>2. Extends(w, i, g, g2)
          BY <3>1, <4>1, ThroughAtTheEnd
        <4> QED BY <4>2 DEF Extends
      <3>4. Through(w, g) = Policy!Without(q, k)
        BY <1>5, <1>7, <3>1, ThroughWithout
      <3> QED BY <1>8, <1>9, <2>1, <3>2, <3>3, <3>4 DEF Policy!Used
    <2>2. CASE cfg.evict # "lru"
      <3>1. Ordered(s)' = Through(f, g2)
        BY <1>0, <1>2, <1>3, <1>5, <1>6, <2>2, OrderStep, OrderedIsNext
      <3>2. Through(f, g2) = Through(f, g)
        BY <1>7, <1>8 DEF Through
      <3> QED BY <1>7, <2>2, <3>1, <3>2 DEF Policy!Used
    <2> QED BY <2>1, <2>2
  <1>11. Order' = [Order EXCEPT ![s] = Policy!Used(Order[s], b)]
    BY <1>0, <1>2, <1>3, <1>6, <1>10, OrderStep
  <1>12. DirtyBlocks' = IF store /\ ~cfg.writeThrough THEN DirtyBlocks \cup {b} ELSE DirtyBlocks
    BY <1>0, <1>1 DEF LoadHit, StoreHit
  <1>13. cycles' = (cycles + 1 + IF store /\ cfg.writeThrough THEN WordCost ELSE 0) % Power[Bits]
    <2>1. cycles + 1 + 0 = cycles + 1
      BY DEF Inv
    <2> QED BY <2>1 DEF LoadHit, StoreHit, Wrap
  <1>14. /\ (stats.loadHits + stats.storeHits)' = (stats.loadHits + stats.storeHits) + 1
         /\ Misses' = Misses
    BY <1>0, <1>2, OneMore DEF Access, Load, Store
  <1> QED BY <1>1, <1>2, <1>3, <1>11, <1>12, <1>13, <1>14, PolicyTerms

\* A miss that fills a line is a miss of the textbook cache.
LEMMA FillImplements ==
    ASSUME Arguments, Inv, Inv', NEW addr \in Nat, NEW store \in BOOLEAN,
           (store = FALSE /\ LoadMiss(addr)) \/ (store = TRUE /\ StoreMiss(addr))
    PROVE  Policy!Miss(BlockOf(addr), store)
  <1>0. /\ Types /\ OneLinePerBlock /\ Stamped /\ FilledInOrder /\ Numbered /\ Types'
        /\ stats \in Counters /\ stale = DirtyBlocks /\ stale' = DirtyBlocks'
        /\ cfg.writeThrough => stale = {}
    BY DEF Inv, NothingLost, Types
  <1>1. PICK s, v, b : s = IndexOf(addr) /\ v = ChooseVictim(s) /\ b = BlockOf(addr)
    OBVIOUS
  <1>2. Fill(addr, store) /\ Hits(addr) = {} /\ cfg' = cfg /\ (store => cfg.writeAllocate)
    BY DEF LoadMiss, StoreMiss
  <1>3. s \in SetIndices /\ b % cfg.sets = s /\ b \notin Policy!Contents(Order[s])
    BY <1>1, <1>2, ResidentIs
  <1>4. /\ v \in Ways /\ OnlyLine(s, v) /\ lines'[s][v].valid /\ lines'[s][v].tag = TagOf(addr)
    BY <1>0, <1>1, <1>2, FillStep
  <1>5. PICK f : Sorts(f, ValidIn(s), StampIn(s))
    BY <1>3 DEF Inv, Listed
  <1>6. PICK q, V, g, g2 : q = Order[s] /\ V = ValidIn(s) /\ g = HeldIn(s) /\ g2 = HeldIn(s)'
    OBVIOUS
  <1>7. /\ q \in Seq(Nat) /\ Len(q) = Len(f) /\ Len(f) \in Nat /\ q = Through(f, g)
        /\ f \in Seq(V) /\ V \subseteq Ways
        /\ \A u \in V : g[u] = Held(s, u) /\ g[u] \in Nat
        /\ \A j \in 1..Len(f) : q[j] = Held(s, f[j]) /\ f[j] \in V
    BY <1>0, <1>3, <1>5, <1>6, ListOf
  <1>8. g2[v] = b /\ \A u \in V : u # v => g2[u] = g[u]
    <2>1. /\ \A w \in Ways : w # v => g2[w] = g[w]
          /\ g2[v] = lines'[s][v].tag * cfg.sets + s
      BY <1>0, <1>2, <1>3, <1>4, <1>6, OtherLines
    <2>2. TagOf(addr) * cfg.sets + s = b
      BY <1>0, <1>1, Addressing
    <2> QED BY <1>4, <1>7, <2>1, <2>2
  <1>9. \/ /\ ~lines[s][v].valid /\ Len(f) # cfg.ways
           /\ Sorts(Append(f, v), ValidIn(s)', StampIn(s)')
        \/ /\ lines[s][v].valid /\ Len(f) = cfg.ways /\ 1 \in 1..Len(f) /\ f[1] = v
           /\ Sorts(Append(Policy!Without(f, 1), f[1]), ValidIn(s)', StampIn(s)')
    BY <1>0, <1>1, <1>2, <1>5, ListAfterFill
  <1>10. /\ Ordered(s)' = Policy!Entered(q, b)
         /\ Policy!WrittenBack(q) = IF MustWriteBack(s, v) THEN {Held(s, v)} ELSE {}
    <2>1. CASE /\ ~lines[s][v].valid /\ Len(f) # cfg.ways
               /\ Sorts(Append(f, v), ValidIn(s)', StampIn(s)')
      <3>1. v \notin V
        BY <1>6, <2>1 DEF ValidIn
      <3>2. Ordered(s)' = Through(Append(f, v), g2)
        BY <1>0, <1>2, <1>3, <1>4, <1>6, <2>1, OrderStep, OrderedIsNext
      <3>3. Through(Append(f, v), g2) = Append(Through(f, g), g2[v])
        <4>1. \A u \in V : g2[u] = g[u]
          BY <1>8, <3>1
        <4>2. f \in Seq(V)
          BY <1>7
        <4>3. Extends(f, v, g, g2)
          BY <4>1, <4>2, ThroughAtTheEnd
        <4> QED BY <4>3 DEF Extends
      <3>4. ~Policy!Full(q)
        BY <1>7, <2>1 DEF Policy!Full
      <3> QED BY <1>7, <1>8, <2>1, <3>2, <3>3, <3>4 DEF Policy!Entered, Policy!WrittenBack, MustWriteBack
    <2>2. CASE /\ lines[s][v].valid /\ Len(f) = cfg.ways /\ 1 \in 1..Len(f) /\ f[1] = v
               /\ Sorts(Append(Policy!Without(f, 1), f[1]), ValidIn(s)', StampIn(s)')
      <3>1. PICK w \in Seq(V) : w = Policy!Without(f, 1) /\ Skips(w, f, 1)
        BY <1>7, <2>2, WithoutIs
      <3>2. \A j \in 1..Len(w) : w[j] \in V \ {v}
        <4>1. \A j \in 1..Len(w) : w[j] = f[j + 1] /\ j + 1 \in 1..Len(f) /\ j + 1 # 1
          BY <1>7, <3>1 DEF Skips
        <4>2. \A j, l \in 1..Len(f) : f[j] = f[l] => j = l
          <5>1. \A u \in V : StampIn(s)[u] \in Nat
            BY <1>0, <1>3, <1>6, <1>7, StampTypes
          <5> QED BY <1>5, <1>6, <5>1, SortedOnce
        <4> QED BY <1>7, <2>2, <4>1, <4>2
      <3>3. w \in Seq(V \ {v})
        BY <3>1, <3>2
      <3>4. Ordered(s)' = Through(Append(w, v), g2)
        BY <1>0, <1>2, <1>3, <1>4, <1>6, <2>2, <3>1, OrderStep, OrderedIsNext
      <3>5. Through(Append(w, v), g2) = Append(Through(w, g), g2[v])
        <4>1. \A u \in V \ {v} : g2[u] = g[u]
          BY <1>8
        <4>2. Extends(w, v, g, g2)
          BY <3>3, <4>1, ThroughAtTheEnd
        <4> QED BY <4>2 DEF Extends
      <3>6. Through(w, g) = Policy!Without(q, 1)
        BY <1>7, <2>2, <3>1, ThroughWithout
      <3>7. Policy!Full(q)
        BY <1>7, <2>2 DEF Policy!Full
      <3>8. Policy!Without(q, 1) = Tail(q)
        <4>1. PICK u \in Seq(Nat) : u = Policy!Without(q, 1) /\ Skips(u, q, 1)
          BY <1>7, <2>2, WithoutIs
        <4>2. q # <<>> /\ Tail(q) \in Seq(Nat) /\ Len(Tail(q)) = Len(q) - 1
          BY <1>7, <2>2
        <4>3. \A j \in 1..(Len(q) - 1) : u[j] = q[j + 1] /\ Tail(q)[j] = q[j + 1]
          BY SMTT(30), <1>7, <2>2, <4>1, <4>2 DEF Skips
        <4>4. Len(u) = Len(Tail(q))
          BY <4>1, <4>2 DEF Skips
        <4> QED BY <4>1, <4>2, <4>3, <4>4, SeqEqual
      <3>9. Head(q) = Held(s, v)
        BY <1>7, <2>2
      <3>10. Held(s, v) \in DirtyBlocks <=> Dirty(s, v)
        <4>1. Dirty(s, v) => Held(s, v) \in DirtyBlocks
          BY <1>3, <1>4, DirtyBlocksAre
        <4>2. ASSUME Held(s, v) \in DirtyBlocks PROVE Dirty(s, v)
          <5>1. PICK p \in SetIndices, u \in Ways : Dirty(p, u) /\ Held(s, v) = Held(p, u)
            BY <4>2, DirtyBlocksAre
          <5>2. p = s /\ u = v
            BY <1>0, <1>3, <1>4, <2>2, <5>1, HeldOnce DEF Dirty
          <5> QED BY <5>1, <5>2
        <4> QED BY <4>1, <4>2
      <3>11. MustWriteBack(s, v) <=> Held(s, v) \in DirtyBlocks
        BY <1>0, <2>2, <3>10 DEF MustWriteBack, Dirty
      <3> QED BY <1>8, <3>4, <3>5, <3>6, <3>7, <3>8, <3>9, <3>11
              DEF Policy!Entered, Policy!WrittenBack
    <2> QED BY <1>9, <2>1, <2>2
  <1>11. Order' = [Order EXCEPT ![s] = Policy!Entered(Order[s], b)]
    BY <1>0, <1>2, <1>3, <1>4, <1>6, <1>10, OrderStep
  <1>12. DirtyBlocks' = (DirtyBlocks \ Policy!WrittenBack(Order[s]))
                        \cup (IF store /\ ~cfg.writeThrough THEN {b} ELSE {})
    <2>1. stale' = (IF MustWriteBack(s, v) THEN stale \ {Held(s, v)} ELSE stale)
                   \cup (IF store /\ ~cfg.writeThrough THEN {b} ELSE {})
      BY <1>1, <1>2 DEF Fill, Held
    <2> QED BY <1>0, <1>6, <1>10, <2>1
  <1>13. cycles' = (cycles + 1 + BlockCost(cfg)
                    + (IF Policy!WrittenBack(Order[s]) # {} THEN BlockCost(cfg) ELSE 0)
                    + (IF store /\ cfg.writeThrough THEN WordCost ELSE 0)) % Power[Bits]
    <2>1. BlockCost(cfg) \in Nat /\ WordCost \in Nat /\ cycles \in Nat
      BY <1>0, CostsAre DEF Inv
    <2>2. cycles' = (cycles + (IF MustWriteBack(s, v) THEN BlockCost(cfg) ELSE 0)
                     + BlockCost(cfg) + 1
                     + (IF store /\ cfg.writeThrough THEN WordCost ELSE 0)) % Power[Bits]
      BY <1>1, <1>2 DEF Fill, Wrap
    <2>3. Policy!WrittenBack(Order[s]) # {} <=> MustWriteBack(s, v)
      BY <1>6, <1>10
    <2>4. cycles + (IF MustWriteBack(s, v) THEN BlockCost(cfg) ELSE 0) + BlockCost(cfg) + 1
             + (IF store /\ cfg.writeThrough THEN WordCost ELSE 0)
          = cycles + 1 + BlockCost(cfg)
             + (IF Policy!WrittenBack(Order[s]) # {} THEN BlockCost(cfg) ELSE 0)
             + (IF store /\ cfg.writeThrough THEN WordCost ELSE 0)
      BY <2>1, <2>3
    <2> QED BY <2>2, <2>4
  <1>14. /\ (stats.loadHits + stats.storeHits)' = stats.loadHits + stats.storeHits
         /\ Misses' = Misses + 1
    BY <1>0, <1>2, OneMore DEF Access, Load, Store
  <1> QED BY <1>1, <1>2, <1>3, <1>11, <1>12, <1>13, <1>14, PolicyTerms

\* A store that goes around the cache goes around the textbook cache.
LEMMA AroundImplements ==
    ASSUME Arguments, Inv, NEW addr \in Nat, StoreAround(addr)
    PROVE  Policy!Around(BlockOf(addr))
  <1>1. PICK s, b : s = IndexOf(addr) /\ b = BlockOf(addr)
    OBVIOUS
  <1>2. b % cfg.sets = s /\ b \notin Policy!Contents(Order[s])
    BY <1>1, ResidentIs DEF StoreAround
  <1>3. UNCHANGED <<cfg, lines>> /\ SetIndices' = SetIndices /\ Ways' = Ways
    BY DEF StoreAround, SetIndices, Ways
  <1>4. Order' = Order
    BY <1>3 DEF Order, Ordered, Stamp, HeldBlock
  <1>5. DirtyBlocks' = DirtyBlocks
    BY <1>3 DEF DirtyBlocks, DirtyIn, HeldBlock
  <1>6. /\ ~cfg.writeAllocate /\ Hits(addr) = {}
        /\ cycles' = (cycles + WordCost) % Power[Bits]
    BY DEF StoreAround, Wrap
  <1>7. /\ (stats.loadHits + stats.storeHits)' = stats.loadHits + stats.storeHits
        /\ Misses' = Misses + 1
    BY <1>6, OneMore DEF Access, Store, Inv, Types
  <1> QED BY <1>1, <1>2, <1>3, <1>4, <1>5, <1>6, <1>7, PolicyTerms

\* Every access to an address of the trace is a step of the textbook cache.
LEMMA AccessImplements ==
    ASSUME Arguments, Inv, NEW addr \in Addrs, Access(addr)
    PROVE  Policy!Next
  <1>1. addr \in Nat
    BY DEF Arguments
  <1>2. Inv'
    BY <1>1, InvStep
  <1>3. BlockOf(addr) \in {a \div k : a \in Addrs, k \in BlockSizes}
    BY DEF BlockOf, Inv, Types, Config
  <1>4. \/ \E store \in BOOLEAN : Policy!Hit(BlockOf(addr), store) \/ Policy!Miss(BlockOf(addr), store)
        \/ Policy!Around(BlockOf(addr))
    BY <1>1, <1>2, HitImplements, FillImplements, AroundImplements DEF Access, Load, Store
  <1> QED BY <1>3, <1>4 DEF Policy!Next

\* The empty cache is the textbook cache with empty lists.
LEMMA InitImplements ==
    ASSUME Arguments, Init, ShiftDefined(cfg)
    PROVE  Policy!Init
  <1>1. Inv
    BY InitInv
  <1>2. ASSUME NEW s \in SetIndices PROVE Ordered(s) = <<>>
    <2>1. ValidIn(s) = {}
      BY <1>2 DEF Init, ValidIn, NoLine
    <2>2. Sorts(<<>>, ValidIn(s), StampIn(s))
      BY <2>1, EmptySeq DEF Sorts
    <2>3. Ordered(s) = Through(<<>>, HeldIn(s))
      BY <1>1, <1>2, <2>2, OrderedIs DEF Inv
    <2> QED BY <2>3 DEF Through
  <1>3. Order = [s \in 0..(cfg.sets - 1) |-> <<>>]
    BY <1>2 DEF Order, SetIndices
  <1>4. DirtyBlocks = {}
    BY <1>1 DEF Inv, NothingLost, Init
  <1>5. /\ cfg \in {c \in Config : Accepted(c)} /\ cycles = 0
        /\ stats.loadHits + stats.storeHits = 0 /\ Misses = 0
    BY DEF Init, NoStats, Misses
  <1> QED BY <1>3, <1>4, <1>5 DEF Policy!Init, Order

\* A step that changes nothing does not show.
LEMMA StutterImplements ==
    ASSUME UNCHANGED vars
    PROVE  UNCHANGED Policy!vars
  BY DEF vars, Policy!vars, SetIndices, Ordered, Ways, Stamp, HeldBlock, DirtyBlocks, DirtyIn,
     Misses
=============================================================================
