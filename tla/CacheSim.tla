------------------------------ MODULE CacheSim ------------------------------
(***************************************************************************)
(* The cache simulator of csf_assign03/main.cpp: sets of lines with a tag, *)
(* a dirty bit and two time stamps, and the statistics it prints.  One     *)
(* action is one path through load or store.  Lines of the trace that do   *)
(* not parse, or name another operation, change nothing.                   *)
(*                                                                         *)
(* Words are Bits wide, 64 in the code.  The cycles wrap there, as one     *)
(* access may cost as much as a word holds; the counters that rise by one  *)
(* do not wrap here: a trace of 2^64 accesses cannot be run.               *)
(***************************************************************************)
EXTENDS Naturals, FiniteSets

CONSTANTS
    Bits,           \* width of uint64_t
    Addrs,          \* addresses in the trace
    SetCounts,      \* command line arguments: numbers of sets,
    WayCounts,      \*   of blocks per set,
    BlockSizes,     \*   of bytes per block
    MaxAccesses     \* bound: length of the trace

VARIABLES
    cfg,            \* Config
    lines,          \* Set::lines of every set
    nextFifoOrdinal,\* Set::nextFifoOrdinal of every set
    accessTick,     \* Cache::accessTick
    stats,          \* the six counters
    cycles,         \* Cache::cycles
    stale           \* history: blocks whose last store is not in memory yet

vars == <<cfg, lines, nextFifoOrdinal, accessTick, stats, cycles, stale>>

\* 1 shifted left by k.
Power[k \in 0..Bits] == IF k = 0 THEN 1 ELSE 2 * Power[k - 1]

Wrap(n)         == n % Power[Bits]
IsPowerOfTwo(x) == \E k \in 0..(Bits - 1) : x = Power[k]
Log2u(x)        == CHOOSE k \in 0..(Bits - 1) : x = Power[k]

Config == [sets : SetCounts, ways : WayCounts, blockBytes : BlockSizes,
           writeAllocate : BOOLEAN, writeThrough : BOOLEAN,
           evict : {"lru", "fifo"}]

\* The configurations that parseConfig accepts.
Accepted(c) ==
    /\ IsPowerOfTwo(c.sets) /\ IsPowerOfTwo(c.ways) /\ IsPowerOfTwo(c.blockBytes)
    /\ c.blockBytes >= 4
    /\ c.writeAllocate \/ c.writeThrough

SetIndices == 0..(cfg.sets - 1)
Ways       == 0..(cfg.ways - 1)
NoLine     == [valid |-> FALSE, dirty |-> FALSE, tag |-> 0, lastUsed |-> 0,
               fifoOrdinal |-> 0]
NoStats    == [totalLoads |-> 0, totalStores |-> 0, loadHits |-> 0,
               loadMisses |-> 0, storeHits |-> 0, storeMisses |-> 0]

-----------------------------------------------------------------------------
(* Mistakes the code could have made.  No definition uses them: each property  *)
(* below is violated when one replaces the definition it is named after.      *)

\* The loop of findHit stops before the last line.
Matching_SkipsLast(s, tag) ==
    {i \in Ways \ {cfg.ways - 1} : lines[s][i].valid /\ lines[s][i].tag = tag}

\* The eviction compares the other stamp.
Stamp_Swapped(ln) == IF cfg.evict = "lru" THEN ln.fifoOrdinal ELSE ln.lastUsed

-----------------------------------------------------------------------------
\* offBits + idxBits.  C++ defines the shift by it only when it is less than
\* the width of a word.
TagShift(c)     == Log2u(c.blockBytes) + Log2u(c.sets)
ShiftDefined(c) == TagShift(c) < Bits

\* A mask of sets - 1 keeps the remainder by sets, a power of two.  Of the count
\* of a shift the machines that the code is built for take what is left by the
\* width.
IndexOf(addr) == (addr \div Power[Log2u(cfg.blockBytes)]) % cfg.sets
TagOf(addr)   == addr \div Power[TagShift(cfg) % Bits]

WordCost     == 100
BlockCost(c) == Wrap(100 * (c.blockBytes \div 4))

\* The lines of set s that hold the tag.
Matching(s, tag) == {i \in Ways : lines[s][i].valid /\ lines[s][i].tag = tag}
Hits(addr)       == Matching(IndexOf(addr), TagOf(addr))
FindHit(addr)    == CHOOSE i \in Hits(addr) : \A j \in Hits(addr) : i <= j

Stamp(ln) == IF cfg.evict = "lru" THEN ln.lastUsed ELSE ln.fifoOrdinal

\* A free line of set s, or the one with the least stamp; the first of them.
Candidates(s) ==
    LET free == {i \in Ways : ~lines[s][i].valid}
    IN  IF free # {} THEN free
        ELSE {i \in Ways : \A j \in Ways : Stamp(lines[s][i]) <= Stamp(lines[s][j])}

ChooseVictim(s) == CHOOSE i \in Candidates(s) : \A j \in Candidates(s) : i <= j

\* The number of the block that a line of set s holds, and of an address.
HeldBlock(s, ln) == ln.tag * cfg.sets + s
BlockOf(addr)    == addr \div cfg.blockBytes

Count(f, g) == [stats EXCEPT ![f] = @ + 1, ![g] = @ + 1]

-----------------------------------------------------------------------------
(* Mistakes in the operations *)

\* The test of the write policy before a write-back is the wrong way round.
MustWriteBack_Inverted(s, i) ==
    lines[s][i].valid /\ lines[s][i].dirty /\ cfg.writeThrough

\* A hit does not renew the stamp.
LoadHit_NoStamp(addr) ==
    /\ Hits(addr) # {}
    /\ stats' = Count("totalLoads", "loadHits")
    /\ cycles' = Wrap(cycles + 1)
    /\ accessTick' = accessTick + 1
    /\ UNCHANGED <<cfg, lines, nextFifoOrdinal, stale>>

-----------------------------------------------------------------------------
Init ==
    /\ cfg \in {c \in Config : Accepted(c)}
    /\ lines = [s \in SetIndices |-> [i \in Ways |-> NoLine]]
    /\ nextFifoOrdinal = [s \in SetIndices |-> 0]
    /\ accessTick = 0
    /\ stats = NoStats
    /\ cycles = 0
    /\ stale = {}

\* Whether evicting line i of set s writes its block to memory.
MustWriteBack(s, i) ==
    lines[s][i].valid /\ lines[s][i].dirty /\ ~cfg.writeThrough

\* fillBlock and the access that follows it, a store or a load.
Fill(addr, store) ==
    LET s == IndexOf(addr)
        v == ChooseVictim(s)
        back == MustWriteBack(s, v)
    IN  /\ lines' = [lines EXCEPT ![s][v] =
                       [valid |-> TRUE, dirty |-> store /\ ~cfg.writeThrough,
                        tag |-> TagOf(addr), lastUsed |-> accessTick + 1,
                        fifoOrdinal |-> nextFifoOrdinal[s]]]
        /\ nextFifoOrdinal' = [nextFifoOrdinal EXCEPT ![s] = @ + 1]
        /\ accessTick' = accessTick + 1
        /\ cycles' = Wrap(cycles + (IF back THEN BlockCost(cfg) ELSE 0)
                          + BlockCost(cfg) + 1
                          + (IF store /\ cfg.writeThrough THEN WordCost ELSE 0))
        /\ stale' = (IF back THEN stale \ {HeldBlock(s, lines[s][v])} ELSE stale)
                    \cup (IF store /\ ~cfg.writeThrough THEN {BlockOf(addr)} ELSE {})

LoadHit(addr) ==
    /\ Hits(addr) # {}
    /\ stats' = Count("totalLoads", "loadHits")
    /\ cycles' = Wrap(cycles + 1)
    /\ accessTick' = accessTick + 1
    /\ lines' = [lines EXCEPT ![IndexOf(addr)][FindHit(addr)].lastUsed =
                   accessTick + 1]
    /\ UNCHANGED <<cfg, nextFifoOrdinal, stale>>

LoadMiss(addr) ==
    /\ Hits(addr) = {}
    /\ stats' = Count("totalLoads", "loadMisses")
    /\ Fill(addr, FALSE)
    /\ UNCHANGED cfg

StoreHit(addr) ==
    /\ Hits(addr) # {}
    /\ stats' = Count("totalStores", "storeHits")
    /\ cycles' = Wrap(cycles + 1 + IF cfg.writeThrough THEN WordCost ELSE 0)
    /\ accessTick' = accessTick + 1
    /\ lines' = [lines EXCEPT
                   ![IndexOf(addr)][FindHit(addr)].dirty = @ \/ ~cfg.writeThrough,
                   ![IndexOf(addr)][FindHit(addr)].lastUsed = accessTick + 1]
    /\ stale' = IF cfg.writeThrough THEN stale ELSE stale \cup {BlockOf(addr)}
    /\ UNCHANGED <<cfg, nextFifoOrdinal>>

StoreMiss(addr) ==
    /\ Hits(addr) = {}
    /\ cfg.writeAllocate
    /\ stats' = Count("totalStores", "storeMisses")
    /\ Fill(addr, TRUE)
    /\ UNCHANGED cfg

\* No write-allocate: the word goes to memory only.
StoreAround(addr) ==
    /\ Hits(addr) = {}
    /\ ~cfg.writeAllocate
    /\ stats' = Count("totalStores", "storeMisses")
    /\ cycles' = Wrap(cycles + WordCost)
    /\ UNCHANGED <<cfg, lines, nextFifoOrdinal, accessTick, stale>>

Load(addr)  == LoadHit(addr) \/ LoadMiss(addr)
Store(addr) == StoreHit(addr) \/ StoreMiss(addr) \/ StoreAround(addr)

TraceLeft == stats.totalLoads + stats.totalStores < MaxAccesses

Next == TraceLeft /\ \E addr \in Addrs : Load(addr) \/ Store(addr)

Spec == Init /\ [][Next]_vars

-----------------------------------------------------------------------------
(* Safety *)

\* No block is in the cache twice, although load and store look up the tag and
\* choose the line to fill in separate passes over the set.
OneLinePerBlock ==
    \A s \in SetIndices : \A i, j \in Ways :
        lines[s][i].valid /\ lines[s][j].valid /\ lines[s][i].tag = lines[s][j].tag
            => i = j

DirtyIn(s)  == {HeldBlock(s, lines[s][i]) :
                   i \in {j \in Ways : lines[s][j].valid /\ lines[s][j].dirty}}
DirtyBlocks == UNION {DirtyIn(s) : s \in SetIndices}

\* No store is lost: a block whose last store has not reached memory is in a
\* dirty line, and under write-through there is none.
NothingLost ==
    /\ stale = DirtyBlocks
    /\ cfg.writeThrough => stale = {}

Accesses == stats.totalLoads + stats.totalStores
Misses   == stats.loadMisses + stats.storeMisses

-----------------------------------------------------------------------------
(* Refinement *)

\* The blocks of set s by stamp, the oldest first.
Ordered(s) ==
    LET held    == {i \in Ways : lines[s][i].valid}
        Rank(i) == Cardinality({j \in held :
                      Stamp(lines[s][j]) <= Stamp(lines[s][i])})
    IN  [k \in 1..Cardinality(held) |->
            HeldBlock(s, lines[s][CHOOSE i \in held : Rank(i) = k])]

Policy == INSTANCE CachePolicy WITH
    Blocks  <- {a \div k : a \in Addrs, k \in BlockSizes},
    Configs <- {c \in Config : Accepted(c)},
    Modulus <- Power[Bits],
    config  <- cfg,
    order   <- [s \in SetIndices |-> Ordered(s)],
    dirty   <- DirtyBlocks,
    hits    <- stats.loadHits + stats.storeHits,
    misses  <- Misses,
    spent   <- cycles

\* Lines, tags, time stamps and cycle counter implement the textbook cache.
ImplementsPolicy == Policy!Spec

-----------------------------------------------------------------------------
(* What README.txt says and main.cpp does not do.                            *)

\* "the simulator now handles every valid cache config and policy combination
\* correctly": whatever parseConfig accepts, the largest blocks included, an
\* address is found exactly when the others of its block are.
FindsWholeBlocks ==
    \A a, b \in Addrs : BlockOf(a) = BlockOf(b) => (Hits(a) = {} <=> Hits(b) = {})
=============================================================================
