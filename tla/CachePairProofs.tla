-------------------------- MODULE CachePairProofs --------------------------
(***************************************************************************)
(* What CachePair is checked for, for every trace and every pair of caches *)
(* that differ in the lines of a set: both are correct by CacheSimProofs,  *)
(* and under LRU the large one holds the blocks of the small one, those    *)
(* that both hold in the same order of last use.  The small one stands for *)
(* any: it implements the textbook cache CachePolicy.  All of it is for    *)
(* caches whose offset and index bits are fewer than those of a word.      *)
(***************************************************************************)
EXTENDS CachePair, TLAPS

SmallSim == INSTANCE CacheSimProofs WITH WayCounts <- {FewWays}
LargeSim == INSTANCE CacheSimProofs WITH
    WayCounts <- {MoreWays}, cfg <- cfg2, lines <- lines2,
    nextFifoOrdinal <- nextFifoOrdinal2, accessTick <- accessTick2,
    stats <- stats2, cycles <- cycles2, stale <- stale2

\* The two caches differ in the number of lines only, and each is correct.
BothCorrect ==
    /\ SmallSim!Inv /\ LargeSim!Inv
    /\ cfg2 = [cfg EXCEPT !.ways = MoreWays] /\ cfg.ways = FewWays

\* The small cache has filled at least as many lines of every set.
MoreFills == \A s \in SmallSim!SetIndices : nextFifoOrdinal2[s] <= nextFifoOrdinal[s]

\* Every block of the small cache is in the large one.
Included ==
    \A s \in SmallSim!SetIndices : \A i \in SmallSim!Ways :
        lines[s][i].valid =>
            \E j \in LargeSim!Ways : lines2[s][j].valid /\ lines2[s][j].tag = lines[s][i].tag

\* Blocks that both hold were last used in the same order.
SameOrder ==
    \A s \in SmallSim!SetIndices : \A i, k \in SmallSim!Ways : \A j, l \in LargeSim!Ways :
        lines[s][i].valid /\ lines[s][k].valid /\ lines2[s][j].valid /\ lines2[s][l].valid
            /\ lines[s][i].tag = lines2[s][j].tag /\ lines[s][k].tag = lines2[s][l].tag
            /\ lines[s][i].lastUsed < lines[s][k].lastUsed
        => lines2[s][j].lastUsed < lines2[s][l].lastUsed

FewerHits == stats.loadHits <= stats2.loadHits /\ stats.storeHits <= stats2.storeHits

PairInv ==
    /\ BothCorrect
    /\ cfg.evict = "lru" => MoreFills /\ Included /\ SameOrder /\ FewerHits

-----------------------------------------------------------------------------
(* The simulator of CachePair is that of CacheSim *)

\* The simulator that the proofs of CacheSim are about is the one of CachePair.
LEMMA SmallIsSim ==
    /\ Small!Init <=> SmallSim!Init
    /\ \A c : Small!ShiftDefined(c) <=> SmallSim!ShiftDefined(c)
    /\ \A addr : (Small!Load(addr) <=> SmallSim!Load(addr)) /\ (Small!Store(addr) <=> SmallSim!Store(addr))
    /\ \A addr : Small!Hits(addr) = SmallSim!Hits(addr)
    /\ Small!OneLinePerBlock <=> SmallSim!OneLinePerBlock
    /\ Small!NothingLost <=> SmallSim!NothingLost
  <1>0. Small!Power = SmallSim!Power
    BY DEF Small!Power, SmallSim!Power
  <1>1. Small!Init <=> SmallSim!Init
    BY <1>0 DEF Small!Init, Small!Config, Small!Accepted, Small!IsPowerOfTwo, Small!SetIndices,
           Small!Ways, Small!NoLine, Small!NoStats, SmallSim!Init, SmallSim!Config,
           SmallSim!Accepted, SmallSim!IsPowerOfTwo, SmallSim!SetIndices, SmallSim!Ways,
           SmallSim!NoLine, SmallSim!NoStats
  <1>2. \A addr : Small!Hits(addr) = SmallSim!Hits(addr)
    BY <1>0 DEF Small!Log2u, Small!IndexOf, Small!TagOf, Small!TagShift, Small!Matching, Small!Hits, Small!Ways,
           SmallSim!Log2u, SmallSim!IndexOf, SmallSim!TagOf, SmallSim!TagShift, SmallSim!Matching, SmallSim!Hits,
           SmallSim!Ways
  <1>3. \A addr : (Small!Load(addr) <=> SmallSim!Load(addr)) /\ (Small!Store(addr) <=> SmallSim!Store(addr))
    BY <1>0 DEF Small!FindHit, Small!Stamp, Small!Candidates, Small!ChooseVictim, Small!HeldBlock,
           Small!BlockOf, Small!Count, Small!MustWriteBack, Small!Wrap, Small!WordCost, Small!BlockCost,
           Small!Fill, Small!LoadHit, Small!LoadMiss, Small!StoreHit, Small!StoreMiss,
           Small!StoreAround, Small!Load, Small!Store, Small!Log2u, Small!IndexOf,
           Small!TagOf, Small!TagShift, Small!Matching, Small!Hits, Small!Ways, Small!SetIndices,
           SmallSim!FindHit, SmallSim!Stamp, SmallSim!Candidates, SmallSim!ChooseVictim,
           SmallSim!HeldBlock, SmallSim!BlockOf, SmallSim!Count, SmallSim!MustWriteBack,
           SmallSim!Wrap, SmallSim!WordCost, SmallSim!BlockCost, SmallSim!Fill, SmallSim!LoadHit,
           SmallSim!LoadMiss, SmallSim!StoreHit, SmallSim!StoreMiss, SmallSim!StoreAround,
           SmallSim!Load, SmallSim!Store, SmallSim!Log2u, SmallSim!IndexOf, SmallSim!TagOf, SmallSim!TagShift,
           SmallSim!Matching, SmallSim!Hits, SmallSim!Ways, SmallSim!SetIndices
  <1>4. /\ Small!OneLinePerBlock <=> SmallSim!OneLinePerBlock
        /\ Small!NothingLost <=> SmallSim!NothingLost
    BY DEF Small!OneLinePerBlock, Small!NothingLost, Small!DirtyBlocks, Small!DirtyIn,
           Small!HeldBlock, Small!SetIndices, Small!Ways, SmallSim!OneLinePerBlock,
           SmallSim!NothingLost, SmallSim!DirtyBlocks, SmallSim!DirtyIn, SmallSim!HeldBlock,
           SmallSim!SetIndices, SmallSim!Ways
  <1>5. \A c : Small!ShiftDefined(c) <=> SmallSim!ShiftDefined(c)
    BY <1>0 DEF Small!ShiftDefined, Small!TagShift, Small!Log2u, SmallSim!ShiftDefined,
           SmallSim!TagShift, SmallSim!Log2u
  <1> QED BY <1>1, <1>2, <1>3, <1>4, <1>5

\* Each instance has its own Cardinality: they count alike, so they rank alike.
RankedHere(W, L, ev, n, s) ==
    LET held    == {i \in W : L[i].valid}
        Rank(i) == Small!Cardinality({j \in held : SmallSim!StampOf(ev, L[j]) <= SmallSim!StampOf(ev, L[i])})
    IN  [k \in 1..Small!Cardinality(held) |-> L[CHOOSE i \in held : Rank(i) = k].tag * n + s]

LEMMA RanksAgree ==
    ASSUME NEW W, NEW L, NEW ev, NEW n, NEW s
    PROVE  RankedHere(W, L, ev, n, s) = SmallSim!RankedBy(W, L, ev, n, s)
  <1> DEFINE V    == {i \in W : L[i].valid}
             A(i) == Small!Cardinality({j \in V : SmallSim!StampOf(ev, L[j]) <= SmallSim!StampOf(ev, L[i])})
             B(i) == SmallSim!Cardinality({j \in V : SmallSim!StampOf(ev, L[j]) <= SmallSim!StampOf(ev, L[i])})
             C(k) == CHOOSE i \in V : A(i) = k
             D(k) == CHOOSE i \in V : B(i) = k
  <1>1. \A S : Small!Cardinality(S) = SmallSim!Cardinality(S)
    BY DEF Small!Cardinality, SmallSim!Cardinality
  <1>2. \A i : A(i) = B(i)
    BY <1>1
  <1>3. ASSUME NEW k PROVE C(k) = D(k)
    <2> HIDE DEF A, B, V
    <2> QED BY <1>2
  <1>4. RankedHere(W, L, ev, n, s) = [k \in 1..Small!Cardinality(V) |-> L[C(k)].tag * n + s]
    BY DEF RankedHere
  <1>5. SmallSim!RankedBy(W, L, ev, n, s) = [k \in 1..SmallSim!Cardinality(V) |-> L[D(k)].tag * n + s]
    BY DEF SmallSim!RankedBy
  <1>6. Small!Cardinality(V) = SmallSim!Cardinality(V)
    BY <1>1
  <1> HIDE DEF C, D, V
  <1> QED BY <1>3, <1>4, <1>5, <1>6

\* The textbook cache that one implements is the one that the other does.
LEMMA PolicyIsSim ==
    /\ SmallSim!Policy!Init => Small!Policy!Init
    /\ SmallSim!Policy!Next => Small!Policy!Next
    /\ UNCHANGED SmallSim!Policy!vars => UNCHANGED Small!Policy!vars
  <1>1. /\ Small!SetIndices = SmallSim!SetIndices /\ Small!SetIndices' = SmallSim!SetIndices'
        /\ Small!Misses = SmallSim!Misses /\ Small!Misses' = SmallSim!Misses'
        /\ \A c : Small!BlockCost(c) = SmallSim!BlockCost(c)
        /\ Small!WordCost = SmallSim!WordCost /\ Small!Power = SmallSim!Power
    BY DEF Small!Power, SmallSim!Power, Small!Wrap, SmallSim!Wrap, Small!SetIndices, SmallSim!SetIndices, Small!Misses, SmallSim!Misses,
           Small!BlockCost, SmallSim!BlockCost, Small!WordCost, SmallSim!WordCost
  <1>2. {c \in Small!Config : Small!Accepted(c)} = {c \in SmallSim!Config : SmallSim!Accepted(c)}
    BY <1>1 DEF Small!Config, SmallSim!Config, Small!Accepted, SmallSim!Accepted,
           Small!IsPowerOfTwo, SmallSim!IsPowerOfTwo
  <1>3. ASSUME NEW s
        PROVE  Small!Ordered(s) = SmallSim!Ordered(s) /\ Small!Ordered(s)' = SmallSim!Ordered(s)'
    <2>1. Small!Ordered(s) = RankedHere(Small!Ways, lines[s], cfg.evict, cfg.sets, s)
      BY DEF Small!Ordered, Small!Stamp, Small!HeldBlock, RankedHere, SmallSim!StampOf
    <2>3. Small!Ordered(s)' = RankedHere(Small!Ways', lines'[s], cfg'.evict, cfg'.sets, s)
      BY DEF Small!Ordered, Small!Stamp, Small!HeldBlock, RankedHere, SmallSim!StampOf
    <2>2. Small!Ways = SmallSim!Ways /\ Small!Ways' = SmallSim!Ways'
      BY DEF Small!Ways, SmallSim!Ways
    <2> QED BY <2>1, <2>2, <2>3, RanksAgree, SmallSim!OrderedIsRanked
  <1>4. Small!DirtyBlocks = SmallSim!DirtyBlocks
    BY DEF Small!DirtyBlocks, SmallSim!DirtyBlocks, Small!DirtyIn, SmallSim!DirtyIn,
           Small!Ways, SmallSim!Ways, Small!HeldBlock, SmallSim!HeldBlock, Small!SetIndices,
           SmallSim!SetIndices
  <1>5. Small!DirtyBlocks' = SmallSim!DirtyBlocks'
    BY DEF Small!DirtyBlocks, SmallSim!DirtyBlocks, Small!DirtyIn, SmallSim!DirtyIn,
           Small!Ways, SmallSim!Ways, Small!HeldBlock, SmallSim!HeldBlock, Small!SetIndices,
           SmallSim!SetIndices
  <1>6. /\ [s \in Small!SetIndices |-> Small!Ordered(s)]
             = [s \in SmallSim!SetIndices |-> SmallSim!Ordered(s)]
        /\ [s \in Small!SetIndices |-> Small!Ordered(s)]'
             = [s \in SmallSim!SetIndices |-> SmallSim!Ordered(s)]'
    BY <1>1, <1>3
  <1>7. /\ \A q, b : Small!Policy!Used(q, b) = SmallSim!Policy!Used(q, b)
        /\ \A q, b : Small!Policy!Entered(q, b) = SmallSim!Policy!Entered(q, b)
        /\ \A q : Small!Policy!WrittenBack(q) = SmallSim!Policy!WrittenBack(q)
        /\ \A b : Small!Policy!Home(b) = SmallSim!Policy!Home(b)
        /\ \A q : Small!Policy!Contents(q) = SmallSim!Policy!Contents(q)
    BY <1>4 DEF Small!Policy!Used, SmallSim!Policy!Used, Small!Policy!Without,
       SmallSim!Policy!Without, Small!Policy!Entered, SmallSim!Policy!Entered,
       Small!Policy!Full, SmallSim!Policy!Full, Small!Policy!WrittenBack,
       SmallSim!Policy!WrittenBack, Small!Policy!Home, SmallSim!Policy!Home,
       Small!Policy!Contents, SmallSim!Policy!Contents
  <1>8. \A b : Small!Policy!Resident(b) <=> SmallSim!Policy!Resident(b)
    BY <1>6, <1>7 DEF Small!Policy!Resident, SmallSim!Policy!Resident
  <1>9. ASSUME NEW b, NEW store PROVE SmallSim!Policy!Hit(b, store) => Small!Policy!Hit(b, store)
    BY <1>1, <1>4, <1>5, <1>6, <1>7, <1>8 DEF Small!Policy!Hit, SmallSim!Policy!Hit
  <1>10. ASSUME NEW b, NEW store PROVE SmallSim!Policy!Miss(b, store) => Small!Policy!Miss(b, store)
    BY <1>1, <1>4, <1>5, <1>6, <1>7, <1>8 DEF Small!Policy!Miss, SmallSim!Policy!Miss
  <1>11. ASSUME NEW b PROVE SmallSim!Policy!Around(b) => Small!Policy!Around(b)
    BY <1>1, <1>4, <1>5, <1>6, <1>8 DEF Small!Policy!Around, SmallSim!Policy!Around
  <1>12. SmallSim!Policy!Next => Small!Policy!Next
    BY <1>9, <1>10, <1>11 DEF Small!Policy!Next, SmallSim!Policy!Next
  <1>13. SmallSim!Policy!Init => Small!Policy!Init
    BY <1>1, <1>2, <1>4, <1>6 DEF Small!Policy!Init, SmallSim!Policy!Init
  <1>14. UNCHANGED SmallSim!Policy!vars => UNCHANGED Small!Policy!vars
    BY <1>1, <1>4, <1>5, <1>6 DEF Small!Policy!vars, SmallSim!Policy!vars
  <1> QED BY <1>12, <1>13, <1>14

\* And so is the large one.
LEMMA LargeIsSim ==
    /\ Large!Init <=> LargeSim!Init
    /\ \A c : Large!ShiftDefined(c) <=> LargeSim!ShiftDefined(c)
    /\ \A addr : (Large!Load(addr) <=> LargeSim!Load(addr)) /\ (Large!Store(addr) <=> LargeSim!Store(addr))
    /\ \A addr : Large!Hits(addr) = LargeSim!Hits(addr)
  <1>0. Large!Power = LargeSim!Power
    BY DEF Large!Power, LargeSim!Power
  <1>1. Large!Init <=> LargeSim!Init
    BY <1>0 DEF Large!Init, Large!Config, Large!Accepted, Large!IsPowerOfTwo, Large!SetIndices,
           Large!Ways, Large!NoLine, Large!NoStats, LargeSim!Init, LargeSim!Config,
           LargeSim!Accepted, LargeSim!IsPowerOfTwo, LargeSim!SetIndices, LargeSim!Ways,
           LargeSim!NoLine, LargeSim!NoStats
  <1>2. \A addr : Large!Hits(addr) = LargeSim!Hits(addr)
    BY <1>0 DEF Large!Log2u, Large!IndexOf, Large!TagOf, Large!TagShift, Large!Matching, Large!Hits, Large!Ways,
           LargeSim!Log2u, LargeSim!IndexOf, LargeSim!TagOf, LargeSim!TagShift, LargeSim!Matching, LargeSim!Hits,
           LargeSim!Ways
  <1>3. \A addr : (Large!Load(addr) <=> LargeSim!Load(addr)) /\ (Large!Store(addr) <=> LargeSim!Store(addr))
    BY <1>0 DEF Large!FindHit, Large!Stamp, Large!Candidates, Large!ChooseVictim, Large!HeldBlock,
           Large!BlockOf, Large!Count, Large!MustWriteBack, Large!Wrap, Large!WordCost, Large!BlockCost,
           Large!Fill, Large!LoadHit, Large!LoadMiss, Large!StoreHit, Large!StoreMiss,
           Large!StoreAround, Large!Load, Large!Store, Large!Log2u, Large!IndexOf,
           Large!TagOf, Large!TagShift, Large!Matching, Large!Hits, Large!Ways, Large!SetIndices,
           LargeSim!FindHit, LargeSim!Stamp, LargeSim!Candidates, LargeSim!ChooseVictim,
           LargeSim!HeldBlock, LargeSim!BlockOf, LargeSim!Count, LargeSim!MustWriteBack,
           LargeSim!Wrap, LargeSim!WordCost, LargeSim!BlockCost, LargeSim!Fill, LargeSim!LoadHit,
           LargeSim!LoadMiss, LargeSim!StoreHit, LargeSim!StoreMiss, LargeSim!StoreAround,
           LargeSim!Load, LargeSim!Store, LargeSim!Log2u, LargeSim!IndexOf, LargeSim!TagOf, LargeSim!TagShift,
           LargeSim!Matching, LargeSim!Hits, LargeSim!Ways, LargeSim!SetIndices
  <1>4. \A c : Large!ShiftDefined(c) <=> LargeSim!ShiftDefined(c)
    BY <1>0 DEF Large!ShiftDefined, Large!TagShift, Large!Log2u, LargeSim!ShiftDefined,
           LargeSim!TagShift, LargeSim!Log2u
  <1> QED BY <1>1, <1>2, <1>3, <1>4

\* What CacheSimProofs assumes of the arguments.
LEMMA BothArguments == SmallSim!Arguments /\ LargeSim!Arguments
  BY PairAssumption DEF SmallSim!Arguments, LargeSim!Arguments

\* The two caches divide an address in the same way.
LEMMA SameShape ==
    ASSUME BothCorrect
    PROVE  /\ LargeSim!SetIndices = SmallSim!SetIndices
           /\ SmallSim!Ways \subseteq LargeSim!Ways
           /\ \A addr : /\ LargeSim!IndexOf(addr) = SmallSim!IndexOf(addr)
                        /\ LargeSim!TagOf(addr) = SmallSim!TagOf(addr)
           /\ cfg2.ways >= cfg.ways /\ cfg2.ways \in Nat /\ cfg.ways \in Nat
           /\ cfg2.evict = cfg.evict /\ cfg2.writeAllocate = cfg.writeAllocate
  <1>1. cfg \in SmallSim!Config
    BY DEF BothCorrect, SmallSim!Inv, SmallSim!Types
  <1>2. /\ cfg2.sets = cfg.sets /\ cfg2.blockBytes = cfg.blockBytes
        /\ cfg2.evict = cfg.evict /\ cfg2.writeAllocate = cfg.writeAllocate
        /\ cfg2.ways = MoreWays /\ cfg.ways = FewWays
    BY <1>1 DEF BothCorrect, SmallSim!Config
  <1>3. LargeSim!SetIndices = SmallSim!SetIndices /\ SmallSim!Ways \subseteq LargeSim!Ways
    BY <1>2, PairAssumption DEF LargeSim!SetIndices, SmallSim!SetIndices, SmallSim!Ways,
       LargeSim!Ways
  <1>4. \A addr : /\ LargeSim!IndexOf(addr) = SmallSim!IndexOf(addr)
                  /\ LargeSim!TagOf(addr) = SmallSim!TagOf(addr)
    <2>1. LargeSim!Power = SmallSim!Power
      BY DEF LargeSim!Power, SmallSim!Power
    <2> QED BY <1>2, <2>1 DEF LargeSim!IndexOf, SmallSim!IndexOf, LargeSim!TagOf,
            SmallSim!TagOf, LargeSim!TagShift, SmallSim!TagShift, LargeSim!Log2u,
            SmallSim!Log2u
  <1> QED BY <1>2, <1>3, <1>4, PairAssumption

-----------------------------------------------------------------------------
(* The blocks in both caches *)

\* What the invariants say of the two stamps and tags of a set.
LEMMA Stamps ==
    ASSUME BothCorrect
    PROVE  /\ accessTick \in Nat /\ accessTick2 \in Nat
           /\ \A s \in SmallSim!SetIndices :
                /\ \A i \in SmallSim!Ways : lines[s][i].lastUsed \in Nat
                /\ \A i \in LargeSim!Ways : lines2[s][i].lastUsed \in Nat
                /\ \A i \in SmallSim!Ways : lines[s][i].valid =>
                      lines[s][i].lastUsed <= accessTick
                /\ \A i \in LargeSim!Ways : lines2[s][i].valid =>
                      lines2[s][i].lastUsed <= accessTick2
                /\ \A i, k \in SmallSim!Ways : lines[s][i].valid /\ lines[s][k].valid =>
                      /\ lines[s][i].tag = lines[s][k].tag => i = k
                      /\ lines[s][i].lastUsed = lines[s][k].lastUsed => i = k
                /\ \A i, k \in LargeSim!Ways : lines2[s][i].valid /\ lines2[s][k].valid =>
                      (lines2[s][i].tag = lines2[s][k].tag => i = k)
  <1>1. LargeSim!SetIndices = SmallSim!SetIndices
    BY SameShape
  <1>2. SmallSim!Types /\ SmallSim!Stamped /\ SmallSim!OneLinePerBlock
    BY DEF BothCorrect, SmallSim!Inv
  <1>3. LargeSim!Types /\ LargeSim!Stamped /\ LargeSim!OneLinePerBlock
    BY DEF BothCorrect, LargeSim!Inv
  <1>4. /\ accessTick \in Nat
        /\ \A s \in SmallSim!SetIndices : \A i \in SmallSim!Ways : lines[s][i].lastUsed \in Nat
    BY <1>2 DEF SmallSim!Types, SmallSim!Line
  <1>5. /\ accessTick2 \in Nat
        /\ \A s \in SmallSim!SetIndices : \A i \in LargeSim!Ways : lines2[s][i].lastUsed \in Nat
    BY <1>1, <1>3 DEF LargeSim!Types, LargeSim!Line
  <1> QED BY <1>1, <1>2, <1>3, <1>4, <1>5
          DEF SmallSim!Stamped, LargeSim!Stamped, SmallSim!OneLinePerBlock,
              LargeSim!OneLinePerBlock

\* An access leaves the block with tag t in one line, with the newest stamp.
SmallTouch(s, i, t) ==
    /\ SmallSim!OnlyLine(s, i)
    /\ lines'[s][i].valid /\ lines'[s][i].tag = t /\ lines'[s][i].lastUsed = accessTick + 1
LargeTouch(s, j, t) ==
    /\ LargeSim!OnlyLine(s, j)
    /\ lines2'[s][j].valid /\ lines2'[s][j].tag = t /\ lines2'[s][j].lastUsed = accessTick2 + 1

\* When the line that the large cache gives up is of no block that the small
\* one keeps, both hold the block accessed as their newest.
LEMMA BothTouch ==
    ASSUME BothCorrect, BothCorrect', UNCHANGED <<cfg, cfg2>>, Included, SameOrder,
           NEW s \in SmallSim!SetIndices, NEW i \in SmallSim!Ways, NEW j \in LargeSim!Ways, NEW t,
           SmallTouch(s, i, t), LargeTouch(s, j, t),
           \A k \in SmallSim!Ways : \A l \in LargeSim!Ways :
              k # i /\ lines[s][k].valid /\ lines2[s][l].valid /\ lines[s][k].tag = lines2[s][l].tag
                 => l # j
    PROVE  Included' /\ SameOrder'
  <1>1. /\ SmallSim!SetIndices' = SmallSim!SetIndices
        /\ SmallSim!Ways' = SmallSim!Ways /\ LargeSim!Ways' = LargeSim!Ways
    BY DEF SmallSim!SetIndices, SmallSim!Ways, LargeSim!Ways
  <1>2. LargeSim!SetIndices = SmallSim!SetIndices
    BY SameShape
  <1>3. /\ \A k, m \in SmallSim!Ways : lines'[s][k].valid /\ lines'[s][m].valid
                                         /\ lines'[s][k].tag = lines'[s][m].tag => k = m
        /\ \A l, n \in LargeSim!Ways : lines2'[s][l].valid /\ lines2'[s][n].valid
                                         /\ lines2'[s][l].tag = lines2'[s][n].tag => l = n
    <2>1. SmallSim!OneLinePerBlock' /\ LargeSim!OneLinePerBlock'
      BY DEF BothCorrect, SmallSim!Inv, LargeSim!Inv
    <2>2. LargeSim!SetIndices' = LargeSim!SetIndices
      BY DEF LargeSim!SetIndices
    <2> QED BY <1>1, <1>2, <2>1, <2>2 DEF SmallSim!OneLinePerBlock, LargeSim!OneLinePerBlock
  <1>4. Included'
    BY <1>1, <1>2 DEF Included, SmallTouch, LargeTouch, SmallSim!OnlyLine, LargeSim!OnlyLine
  <1>5. SameOrder'
    <2> SUFFICES ASSUME NEW p \in SmallSim!SetIndices,
                        NEW k \in SmallSim!Ways, NEW m \in SmallSim!Ways,
                        NEW l \in LargeSim!Ways, NEW n \in LargeSim!Ways,
                        lines'[p][k].valid, lines'[p][m].valid,
                        lines2'[p][l].valid, lines2'[p][n].valid,
                        lines'[p][k].tag = lines2'[p][l].tag,
                        lines'[p][m].tag = lines2'[p][n].tag,
                        lines'[p][k].lastUsed < lines'[p][m].lastUsed
                 PROVE  lines2'[p][l].lastUsed < lines2'[p][n].lastUsed
      BY <1>1 DEF SameOrder
    <2>1. CASE p # s
      BY <1>2, <2>1 DEF SameOrder, SmallTouch, LargeTouch, SmallSim!OnlyLine, LargeSim!OnlyLine
    <2>2. CASE p = s /\ m = i
      <3>1. n = j
        BY <1>3, <2>2 DEF SmallTouch, LargeTouch
      <3>2. k # i
        BY <2>2, Stamps DEF SmallTouch
      <3>3. l # j
        BY <1>3, <2>2, <3>2 DEF SmallTouch, LargeTouch
      <3> QED BY <1>2, <2>2, <3>1, <3>3, Stamps DEF LargeTouch, LargeSim!OnlyLine
    <2>3. CASE p = s /\ m # i
      <3>1. k # i
        BY <2>3, Stamps DEF SmallTouch, SmallSim!OnlyLine
      <3>2. l # j /\ n # j
        BY <1>3, <2>3, <3>1 DEF SmallTouch, LargeTouch
      <3> QED BY <1>2, <2>3, <3>1, <3>2
              DEF SameOrder, SmallTouch, LargeTouch, SmallSim!OnlyLine, LargeSim!OnlyLine
    <2> QED BY <2>1, <2>2, <2>3
  <1> QED BY <1>4, <1>5

\* When only the large cache has the block, the small one does not notice.
LEMMA LargeTouchAlone ==
    ASSUME BothCorrect, UNCHANGED <<cfg, cfg2, lines>>, Included, SameOrder,
           NEW s \in SmallSim!SetIndices, NEW j \in LargeSim!Ways, NEW t, LargeTouch(s, j, t),
           lines2[s][j].valid, lines2[s][j].tag = t,
           \A i \in SmallSim!Ways : ~(lines[s][i].valid /\ lines[s][i].tag = t)
    PROVE  Included' /\ SameOrder'
  <1>1. /\ SmallSim!SetIndices' = SmallSim!SetIndices
        /\ SmallSim!Ways' = SmallSim!Ways /\ LargeSim!Ways' = LargeSim!Ways
        /\ LargeSim!SetIndices = SmallSim!SetIndices
    BY SameShape DEF SmallSim!SetIndices, SmallSim!Ways, LargeSim!Ways
  <1>2. Included'
    BY <1>1 DEF Included, LargeTouch, LargeSim!OnlyLine
  <1>3. SameOrder'
    <2> SUFFICES ASSUME NEW p \in SmallSim!SetIndices,
                        NEW k \in SmallSim!Ways, NEW m \in SmallSim!Ways,
                        NEW l \in LargeSim!Ways, NEW n \in LargeSim!Ways,
                        lines[p][k].valid, lines[p][m].valid,
                        lines2'[p][l].valid, lines2'[p][n].valid,
                        lines[p][k].tag = lines2'[p][l].tag,
                        lines[p][m].tag = lines2'[p][n].tag,
                        lines[p][k].lastUsed < lines[p][m].lastUsed
                 PROVE  lines2'[p][l].lastUsed < lines2'[p][n].lastUsed
      BY <1>1 DEF SameOrder
    <2>1. ~(p = s /\ l = j) /\ ~(p = s /\ n = j)
      BY DEF LargeTouch
    <2> QED BY <1>1, <2>1 DEF SameOrder, LargeTouch, LargeSim!OnlyLine
  <1> QED BY <1>2, <1>3

-----------------------------------------------------------------------------
(* One access to both caches *)

\* What the small cache finds, the large one finds.
LEMMA HitsIncluded ==
    ASSUME BothCorrect, Included, NEW addr \in Nat, SmallSim!Hits(addr) # {}
    PROVE  LargeSim!Hits(addr) # {}
  <1>1. SmallSim!IndexOf(addr) \in SmallSim!SetIndices
    BY BothArguments, SmallSim!Addressing DEF BothCorrect, SmallSim!Inv
  <1> QED BY <1>1, SameShape
          DEF Included, SmallSim!Hits, LargeSim!Hits, SmallSim!Matching, LargeSim!Matching

\* A full large cache gives up a block that the small one gives up, or has
\* given up before.
LEMMA VictimIsNotKept ==
    ASSUME BothCorrect, cfg.evict = "lru", MoreFills, Included, SameOrder,
           NEW s \in SmallSim!SetIndices,
           NEW k \in SmallSim!Ways, NEW l \in LargeSim!Ways,
           k # SmallSim!ChooseVictim(s), lines[s][k].valid, lines2[s][l].valid,
           lines[s][k].tag = lines2[s][l].tag
    PROVE  l # LargeSim!ChooseVictim(s)
  <1> DEFINE i == SmallSim!ChooseVictim(s)
             j == LargeSim!ChooseVictim(s)
  <1>1. /\ SmallSim!Arguments /\ SmallSim!Types /\ SmallSim!FilledInOrder
        /\ LargeSim!Arguments /\ LargeSim!Types /\ LargeSim!FilledInOrder
        /\ s \in LargeSim!SetIndices
    BY BothArguments, SameShape DEF BothCorrect, SmallSim!Inv, LargeSim!Inv
  <1>2. i \in SmallSim!Ways /\ j \in LargeSim!Ways
    BY <1>1, SmallSim!VictimLine, LargeSim!VictimLine
  <1>3. CASE nextFifoOrdinal2[s] < cfg2.ways /\ j = nextFifoOrdinal2[s]
    <2>1. nextFifoOrdinal2[s] \in Nat
      BY <1>1 DEF LargeSim!Types
    <2>2. ~lines2[s][j].valid
      BY <1>1, <1>2, <1>3, <2>1 DEF LargeSim!FilledInOrder
    <2> QED BY <2>2
  <1>4. CASE /\ nextFifoOrdinal2[s] >= cfg2.ways
             /\ \A n \in LargeSim!Ways :
                   LargeSim!Stamp(lines2[s][j]) <= LargeSim!Stamp(lines2[s][n])
    <2>1. nextFifoOrdinal[s] >= cfg.ways
      <3>1. nextFifoOrdinal[s] \in Nat /\ nextFifoOrdinal2[s] \in Nat
        BY <1>1 DEF SmallSim!Types, LargeSim!Types
      <3>2. nextFifoOrdinal2[s] <= nextFifoOrdinal[s]
        BY DEF MoreFills
      <3> QED BY <1>4, <3>1, <3>2, SameShape
    <2>2. /\ \A n \in SmallSim!Ways : lines[s][n].valid
          /\ \A n \in SmallSim!Ways :
                   SmallSim!Stamp(lines[s][i]) <= SmallSim!Stamp(lines[s][n])
      <3>1. nextFifoOrdinal[s] \in Nat
        BY <1>1 DEF SmallSim!Types
      <3> QED BY <1>1, <2>1, <3>1, SameShape, SmallSim!VictimIs
    <2>3. lines[s][i].lastUsed < lines[s][k].lastUsed
      <3>1. lines[s][i].lastUsed <= lines[s][k].lastUsed
        BY <2>2 DEF SmallSim!Stamp
      <3>2. lines[s][i].lastUsed # lines[s][k].lastUsed
        BY <1>2, <2>2, Stamps
      <3> QED BY <1>2, <3>1, <3>2, Stamps
    <2>4. PICK n \in LargeSim!Ways : lines2[s][n].valid /\ lines2[s][n].tag = lines[s][i].tag
      BY <1>2, <2>2 DEF Included
    <2>5. lines2[s][n].lastUsed < lines2[s][l].lastUsed
      BY <1>2, <2>2, <2>3, <2>4 DEF SameOrder
    <2>6. lines2[s][j].lastUsed <= lines2[s][n].lastUsed
      BY <1>4, SameShape DEF LargeSim!Stamp
    <2> QED BY <1>2, <2>5, <2>6, Stamps
  <1> QED BY <1>1, <1>3, <1>4, LargeSim!VictimIs

\* The load or the store of both caches.
BothAccess(addr) ==
    \/ SmallSim!Load(addr) /\ LargeSim!Load(addr)
    \/ SmallSim!Store(addr) /\ LargeSim!Store(addr)

\* Each cache stays correct.
LEMMA CorrectStep ==
    ASSUME BothCorrect, NEW addr \in Nat, BothAccess(addr)
    PROVE  BothCorrect' /\ UNCHANGED <<cfg, cfg2>>
  <1>1. SmallSim!Access(addr) /\ LargeSim!Access(addr)
    BY DEF BothAccess, SmallSim!Access, LargeSim!Access
  <1>2. SmallSim!Inv' /\ LargeSim!Inv'
    BY <1>1, BothArguments, SmallSim!InvStep, LargeSim!InvStep DEF BothCorrect
  <1>3. cfg' = cfg /\ cfg2' = cfg2
    BY <1>1, SmallSim!ConfigStays, LargeSim!ConfigStays
  <1> QED BY <1>2, <1>3 DEF BothCorrect

\* The lines of the small cache: a hit, a fill, or a store around it.
SmallHit(addr)  == SmallSim!LoadHit(addr) \/ SmallSim!StoreHit(addr)
SmallFill(addr) == /\ SmallSim!Hits(addr) = {} /\ cfg' = cfg
                   /\ \E store \in BOOLEAN : SmallSim!Fill(addr, store)
LargeHit(addr)  == LargeSim!LoadHit(addr) \/ LargeSim!StoreHit(addr)
LargeFill(addr) == /\ LargeSim!Hits(addr) = {} /\ cfg2' = cfg2
                   /\ \E store \in BOOLEAN : LargeSim!Fill(addr, store)

\* The two caches never part the other way: a hit in the small one only.
LEMMA StepCases ==
    ASSUME BothCorrect, Included, NEW addr \in Nat, BothAccess(addr)
    PROVE  \/ SmallHit(addr) /\ LargeHit(addr)
           \/ SmallFill(addr) /\ LargeHit(addr)
           \/ SmallFill(addr) /\ LargeFill(addr)
           \/ SmallSim!StoreAround(addr) /\ LargeHit(addr)
           \/ SmallSim!StoreAround(addr) /\ LargeSim!StoreAround(addr)
  <1>1. SmallSim!Hits(addr) # {} => LargeSim!Hits(addr) # {}
    BY HitsIncluded
  <1>2. cfg2.writeAllocate = cfg.writeAllocate
    BY SameShape
  <1>3. /\ SmallSim!LoadHit(addr) \/ SmallSim!StoreHit(addr) =>
             SmallHit(addr) /\ SmallSim!Hits(addr) # {}
        /\ SmallSim!LoadMiss(addr) \/ SmallSim!StoreMiss(addr) => SmallFill(addr)
        /\ SmallSim!StoreMiss(addr) => cfg.writeAllocate
        /\ SmallSim!StoreAround(addr) => ~cfg.writeAllocate
    BY DEF SmallHit, SmallFill, SmallSim!LoadHit, SmallSim!StoreHit, SmallSim!LoadMiss,
           SmallSim!StoreMiss, SmallSim!StoreAround
  <1>4. /\ LargeSim!LoadHit(addr) \/ LargeSim!StoreHit(addr) => LargeHit(addr)
        /\ LargeSim!LoadMiss(addr) \/ LargeSim!StoreMiss(addr) =>
             LargeFill(addr) /\ LargeSim!Hits(addr) = {}
        /\ LargeSim!StoreMiss(addr) => cfg2.writeAllocate
        /\ LargeSim!StoreAround(addr) => ~cfg2.writeAllocate /\ LargeSim!Hits(addr) = {}
    BY DEF LargeHit, LargeFill, LargeSim!LoadMiss, LargeSim!StoreMiss, LargeSim!StoreAround
  <1>5. CASE SmallSim!Load(addr) /\ LargeSim!Load(addr)
    BY <1>1, <1>3, <1>4, <1>5 DEF SmallSim!Load, LargeSim!Load
  <1>6. CASE SmallSim!Store(addr) /\ LargeSim!Store(addr)
    BY <1>1, <1>2, <1>3, <1>4, <1>6 DEF SmallSim!Store, LargeSim!Store
  <1> QED BY <1>5, <1>6 DEF BothAccess

\* What a hit does in the terms of BothTouch.
LEMMA SmallHitTouches ==
    ASSUME BothCorrect, NEW addr \in Nat, SmallHit(addr),
           NEW s, s = SmallSim!IndexOf(addr), NEW t, t = SmallSim!TagOf(addr)
    PROVE  \E i \in SmallSim!Ways : /\ SmallTouch(s, i, t)
                                    /\ lines[s][i].valid /\ lines[s][i].tag = t
                                    /\ UNCHANGED nextFifoOrdinal
  <1>1. SmallSim!Arguments /\ SmallSim!Types
    BY BothArguments DEF BothCorrect, SmallSim!Inv
  <1> QED BY <1>1, SmallSim!HitStep DEF SmallHit, SmallTouch

\* A fill of the small cache replaces its victim.
LEMMA SmallFillTouches ==
    ASSUME BothCorrect, NEW addr \in Nat, SmallFill(addr),
           NEW s, s = SmallSim!IndexOf(addr), NEW t, t = SmallSim!TagOf(addr)
    PROVE  \E i \in SmallSim!Ways : /\ i = SmallSim!ChooseVictim(s) /\ SmallTouch(s, i, t)
                                    /\ nextFifoOrdinal' = [nextFifoOrdinal EXCEPT ![s] = @ + 1]
  <1>1. SmallSim!Arguments /\ SmallSim!Types
    BY BothArguments DEF BothCorrect, SmallSim!Inv
  <1>2. PICK store \in BOOLEAN : SmallSim!Fill(addr, store)
    BY DEF SmallFill
  <1>3. cfg' = cfg
    BY DEF SmallFill
  <1> QED BY <1>1, <1>2, <1>3, SmallSim!FillStep DEF SmallTouch

\* The same of the large cache.
LEMMA LargeHitTouches ==
    ASSUME BothCorrect, NEW addr \in Nat, LargeHit(addr),
           NEW s, s = LargeSim!IndexOf(addr), NEW t, t = LargeSim!TagOf(addr)
    PROVE  \E j \in LargeSim!Ways : /\ LargeTouch(s, j, t)
                                    /\ lines2[s][j].valid /\ lines2[s][j].tag = t
                                    /\ UNCHANGED nextFifoOrdinal2
  <1>1. LargeSim!Arguments /\ LargeSim!Types
    BY BothArguments DEF BothCorrect, LargeSim!Inv
  <1> QED BY <1>1, LargeSim!HitStep DEF LargeHit, LargeTouch

\* The same of the large cache.
LEMMA LargeFillTouches ==
    ASSUME BothCorrect, NEW addr \in Nat, LargeFill(addr),
           NEW s, s = LargeSim!IndexOf(addr), NEW t, t = LargeSim!TagOf(addr)
    PROVE  \E j \in LargeSim!Ways : /\ j = LargeSim!ChooseVictim(s) /\ LargeTouch(s, j, t)
                                    /\ nextFifoOrdinal2' = [nextFifoOrdinal2 EXCEPT ![s] = @ + 1]
  <1>1. LargeSim!Arguments /\ LargeSim!Types
    BY BothArguments DEF BothCorrect, LargeSim!Inv
  <1>2. PICK store \in BOOLEAN : LargeSim!Fill(addr, store)
    BY DEF LargeFill
  <1>3. cfg2' = cfg2
    BY DEF LargeFill
  <1> QED BY <1>1, <1>2, <1>3, LargeSim!FillStep DEF LargeTouch

\* The blocks stay included and in order.
LEMMA IncludedStep ==
    ASSUME BothCorrect, cfg.evict = "lru", MoreFills, Included, SameOrder,
           NEW addr \in Nat, BothAccess(addr)
    PROVE  MoreFills' /\ Included' /\ SameOrder'
  <1>1. BothCorrect' /\ UNCHANGED <<cfg, cfg2>>
    BY CorrectStep
  <1>2. PICK s \in SmallSim!SetIndices : s = SmallSim!IndexOf(addr) /\ s = LargeSim!IndexOf(addr)
    <2>1. SmallSim!IndexOf(addr) \in SmallSim!SetIndices
      BY BothArguments, SmallSim!Addressing DEF BothCorrect, SmallSim!Inv
    <2> QED BY <2>1, SameShape
  <1>3. PICK t : t = SmallSim!TagOf(addr) /\ t = LargeSim!TagOf(addr)
    BY SameShape
  <1>4. SmallSim!SetIndices' = SmallSim!SetIndices /\ LargeSim!SetIndices = SmallSim!SetIndices
    BY <1>1, SameShape DEF SmallSim!SetIndices
  <1>5. /\ \A p \in SmallSim!SetIndices : nextFifoOrdinal[p] \in Nat /\ nextFifoOrdinal2[p] \in Nat
        /\ nextFifoOrdinal \in [SmallSim!SetIndices -> Nat]
        /\ nextFifoOrdinal2 \in [SmallSim!SetIndices -> Nat]
    BY <1>4 DEF BothCorrect, SmallSim!Inv, SmallSim!Types, LargeSim!Inv, LargeSim!Types
  <1>6. CASE SmallHit(addr) /\ LargeHit(addr)
    <2>1. PICK i \in SmallSim!Ways :
              /\ SmallTouch(s, i, t) /\ lines[s][i].valid /\ lines[s][i].tag = t
              /\ UNCHANGED nextFifoOrdinal
      BY <1>2, <1>3, <1>6, SmallHitTouches
    <2>2. PICK j \in LargeSim!Ways :
              /\ LargeTouch(s, j, t) /\ lines2[s][j].valid /\ lines2[s][j].tag = t
              /\ UNCHANGED nextFifoOrdinal2
      BY <1>2, <1>3, <1>6, LargeHitTouches
    <2>3. \A k \in SmallSim!Ways : lines[s][k].valid /\ lines[s][k].tag = t => k = i
      BY <2>1, Stamps
    <2>4. Included' /\ SameOrder'
      BY <1>1, <2>1, <2>2, <2>3, BothTouch
    <2> QED BY <1>4, <2>1, <2>2, <2>4 DEF MoreFills
  <1>7. CASE SmallFill(addr) /\ LargeHit(addr)
    <2>0. \A k \in SmallSim!Ways : ~(lines[s][k].valid /\ lines[s][k].tag = t)
      BY <1>2, <1>3, <1>7 DEF SmallFill, SmallSim!Hits, SmallSim!Matching
    <2>1. PICK i \in SmallSim!Ways :
              /\ i = SmallSim!ChooseVictim(s) /\ SmallTouch(s, i, t)
              /\ nextFifoOrdinal' = [nextFifoOrdinal EXCEPT ![s] = @ + 1]
      BY <1>2, <1>3, <1>7, SmallFillTouches
    <2>2. PICK j \in LargeSim!Ways :
              /\ LargeTouch(s, j, t) /\ lines2[s][j].valid /\ lines2[s][j].tag = t
              /\ UNCHANGED nextFifoOrdinal2
      BY <1>2, <1>3, <1>7, LargeHitTouches
    <2>3. Included' /\ SameOrder'
      BY <1>1, <2>0, <2>1, <2>2, BothTouch
    <2>4. MoreFills'
      BY <1>4, <1>5, <2>1, <2>2 DEF MoreFills
    <2> QED BY <2>3, <2>4
  <1>8. CASE SmallFill(addr) /\ LargeFill(addr)
    <2>1. PICK i \in SmallSim!Ways :
              /\ i = SmallSim!ChooseVictim(s) /\ SmallTouch(s, i, t)
              /\ nextFifoOrdinal' = [nextFifoOrdinal EXCEPT ![s] = @ + 1]
      BY <1>2, <1>3, <1>8, SmallFillTouches
    <2>2. PICK j \in LargeSim!Ways :
              /\ j = LargeSim!ChooseVictim(s) /\ LargeTouch(s, j, t)
              /\ nextFifoOrdinal2' = [nextFifoOrdinal2 EXCEPT ![s] = @ + 1]
      BY <1>2, <1>3, <1>8, LargeFillTouches
    <2>3. \A k \in SmallSim!Ways : \A l \in LargeSim!Ways :
             k # i /\ lines[s][k].valid /\ lines2[s][l].valid /\ lines[s][k].tag = lines2[s][l].tag
                => l # j
      BY <2>1, <2>2, VictimIsNotKept
    <2>4. Included' /\ SameOrder'
      BY <1>1, <2>1, <2>2, <2>3, BothTouch
    <2>5. MoreFills'
      BY <1>4, <1>5, <2>1, <2>2 DEF MoreFills
    <2> QED BY <2>4, <2>5
  <1>9. CASE SmallSim!StoreAround(addr) /\ LargeHit(addr)
    <2>1. /\ UNCHANGED <<lines, nextFifoOrdinal>>
          /\ \A i \in SmallSim!Ways : ~(lines[s][i].valid /\ lines[s][i].tag = t)
      BY <1>2, <1>3, <1>9 DEF SmallSim!StoreAround, SmallSim!Hits, SmallSim!Matching
    <2>2. PICK j \in LargeSim!Ways :
              /\ LargeTouch(s, j, t) /\ lines2[s][j].valid /\ lines2[s][j].tag = t
              /\ UNCHANGED nextFifoOrdinal2
      BY <1>2, <1>3, <1>9, LargeHitTouches
    <2>3. Included' /\ SameOrder'
      BY <1>1, <2>1, <2>2, LargeTouchAlone
    <2> QED BY <1>4, <2>1, <2>2, <2>3 DEF MoreFills
  <1>10. CASE SmallSim!StoreAround(addr) /\ LargeSim!StoreAround(addr)
    BY <1>1, <1>10 DEF SmallSim!StoreAround, LargeSim!StoreAround, MoreFills, Included,
       SameOrder, SmallSim!SetIndices, SmallSim!Ways, LargeSim!Ways
  <1> QED BY <1>6, <1>7, <1>8, <1>9, <1>10, StepCases

\* The large cache has counted at least as many hits.
LEMMA FewerHitsStep ==
    ASSUME BothCorrect, Included, FewerHits, NEW addr \in Nat, BothAccess(addr)
    PROVE  FewerHits'
  <1>1. stats \in SmallSim!Counters /\ stats2 \in LargeSim!Counters
    BY DEF BothCorrect, SmallSim!Inv, SmallSim!Types, LargeSim!Inv, LargeSim!Types
  <1>2. /\ stats.loadHits \in Nat /\ stats.storeHits \in Nat
        /\ stats2.loadHits \in Nat /\ stats2.storeHits \in Nat
    BY <1>1 DEF SmallSim!Counters, LargeSim!Counters
  <1>3. SmallSim!Hits(addr) # {} => LargeSim!Hits(addr) # {}
    BY HitsIncluded
  <1> QED BY <1>1, <1>2, <1>3, SmallSim!HitCounts, LargeSim!HitCounts DEF BothAccess, FewerHits

-----------------------------------------------------------------------------
(* The theorems *)

\* PairInv holds in every reachable state.
LEMMA PairInvHolds == Spec => []PairInv
  <1>1. Init => PairInv
    <2> SUFFICES ASSUME Init PROVE PairInv
      OBVIOUS
    <2>1. SmallSim!Init /\ LargeSim!Init
      BY SmallIsSim, LargeIsSim DEF Init
    <2>2. SmallSim!ShiftDefined(cfg) /\ LargeSim!ShiftDefined(cfg2)
      <3>1. cfg2.sets = cfg.sets /\ cfg2.blockBytes = cfg.blockBytes
        BY <2>1 DEF Init, SmallSim!Init, SmallSim!Config
      <3>2. LargeSim!Power = SmallSim!Power
        BY DEF LargeSim!Power, SmallSim!Power
      <3>3. LargeSim!TagShift(cfg2) = SmallSim!TagShift(cfg)
        BY <3>1, <3>2 DEF LargeSim!TagShift, SmallSim!TagShift, LargeSim!Log2u,
           SmallSim!Log2u
      <3>4. SmallSim!ShiftDefined(cfg)
        BY SmallIsSim DEF Init
      <3> QED BY <3>3, <3>4 DEF LargeSim!ShiftDefined, SmallSim!ShiftDefined
    <2>3. SmallSim!Inv /\ LargeSim!Inv
      BY <2>1, <2>2, BothArguments, SmallSim!InitInv, LargeSim!InitInv
    <2>4. cfg.ways = FewWays
      BY <2>1 DEF SmallSim!Init, SmallSim!Config
    <2>5. BothCorrect
      BY <2>3, <2>4 DEF Init, BothCorrect
    <2>6. \A s \in SmallSim!SetIndices : /\ nextFifoOrdinal[s] = 0 /\ nextFifoOrdinal2[s] = 0
                                         /\ \A i \in SmallSim!Ways : ~lines[s][i].valid
      BY <2>1, <2>5, SameShape DEF SmallSim!Init, LargeSim!Init, SmallSim!NoLine
    <2>7. FewerHits
      BY <2>1 DEF SmallSim!Init, LargeSim!Init, SmallSim!NoStats, LargeSim!NoStats, FewerHits
    <2> QED BY <2>5, <2>6, <2>7 DEF PairInv, MoreFills, Included, SameOrder
  <1>2. PairInv /\ [Next]_vars => PairInv'
    <2> SUFFICES ASSUME PairInv, [Next]_vars PROVE PairInv'
      OBVIOUS
    <2>1. ASSUME Next PROVE PairInv'
      <3>1. cfg \in Small!Config
        BY DEF PairInv, BothCorrect, SmallSim!Inv, SmallSim!Types, SmallSim!Config, Small!Config
      <3>2. PICK addr \in Nat : BothAccess(addr)
        BY <2>1, <3>1, PairAssumption, SmallIsSim, LargeIsSim DEF Next, BothAccess
      <3>3. BothCorrect' /\ UNCHANGED <<cfg, cfg2>>
        BY <3>2, CorrectStep DEF PairInv
      <3>4. cfg.evict = "lru" => MoreFills' /\ Included' /\ SameOrder' /\ FewerHits'
        BY <3>2, IncludedStep, FewerHitsStep DEF PairInv
      <3> QED BY <3>3, <3>4 DEF PairInv
    <2>2. CASE UNCHANGED vars
      <3>1. UNCHANGED SmallSim!vars /\ UNCHANGED LargeSim!vars
        BY <2>2 DEF vars, SmallSim!vars, LargeSim!vars
      <3>2. BothCorrect'
        BY <2>2, <3>1, SmallSim!InvStutter, LargeSim!InvStutter DEF PairInv, BothCorrect, vars
      <3> QED BY <2>2, <3>2 DEF vars, PairInv, MoreFills, Included, SameOrder, FewerHits,
              SmallSim!SetIndices, SmallSim!Ways, LargeSim!Ways
    <2> QED BY <2>1, <2>2
  <1> QED BY <1>1, <1>2, PTL DEF Spec

\* load and store never put a block in a second line of the cache, whatever the
\* trace, for the arguments of the command line that parseConfig accepts and that
\* leave the tag at least one bit.
THEOREM EachBlockOnce == Spec => []OneLinePerBlock
  <1>1. PairInv => OneLinePerBlock
    BY SmallIsSim DEF PairInv, BothCorrect, SmallSim!Inv, OneLinePerBlock
  <1> QED BY <1>1, PairInvHolds, PTL

\* A store that is not in memory yet is in a dirty line: no eviction forgets to
\* write it back, and none is left under write-through.
THEOREM StoresAreKept == Spec => []NothingLost
  <1>1. PairInv => NothingLost
    BY SmallIsSim DEF PairInv, BothCorrect, SmallSim!Inv, NothingLost
  <1> QED BY <1>1, PairInvHolds, PTL

\* Lines, tags, time stamps, dirty bits and the cycle counter implement the
\* textbook LRU or FIFO cache: every access finds, brings in, evicts and writes
\* back the blocks that it does, and costs the same up to what a word holds; again
\* for the arguments that leave the tag a bit.
THEOREM SimulatorIsTextbook == Spec => ImplementsPolicy
  <1>1. Init => Small!Policy!Init
    BY SmallIsSim, PolicyIsSim, BothArguments, SmallSim!InitImplements DEF Init
  <1>2. PairInv /\ [Next]_vars => [Small!Policy!Next]_(Small!Policy!vars)
    <2> SUFFICES ASSUME PairInv, [Next]_vars PROVE Small!Policy!Next \/ UNCHANGED Small!Policy!vars
      OBVIOUS
    <2>1. CASE Next
      <3>1. cfg \in Small!Config
        BY DEF PairInv, BothCorrect, SmallSim!Inv, SmallSim!Types, SmallSim!Config, Small!Config
      <3>2. PICK addr \in Addrs : SmallSim!Access(addr)
        BY <2>1, <3>1, PairAssumption, SmallIsSim DEF Next, SmallSim!Access
      <3>3. SmallSim!Arguments /\ SmallSim!Inv
        BY BothArguments DEF PairInv, BothCorrect
      <3>4. SmallSim!Policy!Next
        BY <3>2, <3>3, SmallSim!AccessImplements
      <3> QED BY <3>4, PolicyIsSim
    <2>2. CASE UNCHANGED vars
      <3>1. UNCHANGED SmallSim!vars
        BY <2>2 DEF vars, SmallSim!vars
      <3> QED BY <3>1, SmallSim!StutterImplements, PolicyIsSim
    <2> QED BY <2>1, <2>2
  <1> QED BY <1>1, <1>2, PairInvHolds, PTL
          DEF Spec, ImplementsPolicy, Small!ImplementsPolicy, Small!Policy!Spec

\* Under LRU more lines in each set never cost a hit on any trace.
THEOREM LargerIsBetter == Spec => []MoreIsBetter
  <1>1. PairInv => MoreIsBetter
    <2> SUFFICES ASSUME PairInv, cfg.evict = "lru" PROVE
            /\ \A addr \in Addrs : Small!Hits(addr) # {} => Large!Hits(addr) # {}
            /\ stats.loadHits <= stats2.loadHits
            /\ stats.storeHits <= stats2.storeHits
      BY DEF MoreIsBetter
    <2>1. \A addr \in Addrs : addr \in Nat
      BY PairAssumption
    <2>2. \A addr \in Addrs : SmallSim!Hits(addr) # {} => LargeSim!Hits(addr) # {}
      BY <2>1, HitsIncluded DEF PairInv
    <2> QED BY <2>2, SmallIsSim, LargeIsSim DEF PairInv, FewerHits
  <1> QED BY <1>1, PairInvHolds, PTL
=============================================================================
