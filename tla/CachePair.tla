----------------------------- MODULE CachePair -----------------------------
(***************************************************************************)
(* Two runs of the simulator of csf_assign03 on the same trace: the second *)
(* with more lines in each set and all else equal.  The first is checked   *)
(* by the properties of CacheSim, both together by MoreIsBetter.  The      *)
(* shift that cuts off the tag is defined here; CacheSim alone also runs   *)
(* the caches for which it is not.                                         *)
(***************************************************************************)
EXTENDS Naturals, FiniteSets

CONSTANTS
    Bits, Addrs, SetCounts, BlockSizes, MaxAccesses,
    FewWays, MoreWays,  \* the two numbers of blocks per set
    Chosen(_),          \* the configurations to run, and for each of them
    Uses(_), Length(_)  \*   the addresses in the trace and its length

VARIABLES
    cfg, lines, nextFifoOrdinal, accessTick, stats, cycles, stale,
    cfg2, lines2, nextFifoOrdinal2, accessTick2, stats2, cycles2, stale2

vars == <<cfg, lines, nextFifoOrdinal, accessTick, stats, cycles, stale,
          cfg2, lines2, nextFifoOrdinal2, accessTick2, stats2, cycles2, stale2>>

Small == INSTANCE CacheSim WITH WayCounts <- {FewWays}
Large == INSTANCE CacheSim WITH
    WayCounts <- {MoreWays}, cfg <- cfg2, lines <- lines2,
    nextFifoOrdinal <- nextFifoOrdinal2, accessTick <- accessTick2,
    stats <- stats2, cycles <- cycles2, stale <- stale2

ASSUME PairAssumption ==
    /\ Bits \in Nat \ {0}
    /\ Addrs \subseteq Nat /\ SetCounts \subseteq Nat /\ BlockSizes \subseteq Nat
    /\ FewWays \in Nat /\ MoreWays \in Nat /\ FewWays <= MoreWays
    /\ \A c \in Small!Config : Uses(c) \subseteq Addrs

Init ==
    /\ Small!Init /\ Small!ShiftDefined(cfg) /\ Chosen(cfg)
    /\ Large!Init /\ cfg2 = [cfg EXCEPT !.ways = MoreWays]

Next ==
    /\ Small!TraceLeft
    /\ Small!Accesses < Length(cfg)
    /\ \E addr \in Uses(cfg) :
          \/ Small!Load(addr) /\ Large!Load(addr)
          \/ Small!Store(addr) /\ Large!Store(addr)

Spec == Init /\ [][Next]_vars

\* No block is in the cache twice, although load and store look up the tag and
\* choose the line to fill in separate passes over the set.
OneLinePerBlock == Small!OneLinePerBlock

\* No store is lost: a block whose last store has not reached memory is in a
\* dirty line, and under write-through there is none.
NothingLost == Small!NothingLost

\* Lines, tags, time stamps and cycle counter implement the textbook cache.
ImplementsPolicy == Small!ImplementsPolicy

\* Under LRU more lines never cost a hit: whatever the small cache holds, the
\* large one holds too, and it has counted at least as many hits.  Without
\* write-allocate a store that misses leaves the lines of the small one alone.
MoreIsBetter ==
    cfg.evict = "lru" =>
        /\ \A addr \in Addrs : Small!Hits(addr) # {} => Large!Hits(addr) # {}
        /\ stats.loadHits <= stats2.loadHits
        /\ stats.storeHits <= stats2.storeHits
=============================================================================
