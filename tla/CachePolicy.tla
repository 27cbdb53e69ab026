---------------------------- MODULE CachePolicy ----------------------------
(***************************************************************************)
(* What a set-associative cache is, in the words of a textbook: a set is a *)
(* list of the blocks it holds, the next one to be evicted first.  Under   *)
(* LRU a block goes to the end of its list on every use, under FIFO only   *)
(* when it comes in.  No lines, tags or time stamps.                       *)
(***************************************************************************)
EXTENDS Naturals, Sequences

CONSTANTS
    Blocks,     \* block numbers
    Configs,    \* records with sets, ways, blockBytes, writeAllocate,
                \* writeThrough and evict
    WordCost,   \* cycles that memory takes for a word
    BlockCost(_), \* cycles that memory takes for a block of a configuration
    Modulus     \* where the count of cycles starts again

VARIABLES
    config,     \* what the simulator was started with
    order,      \* the list of each set
    dirty,      \* blocks that memory has an old copy of
    hits,       \* accesses that found their block
    misses,     \* accesses that did not
    spent       \* cycles

vars == <<config, order, dirty, hits, misses, spent>>

Home(b)     == b % config.sets
Contents(q) == {q[i] : i \in DOMAIN q}
Resident(b) == b \in Contents(order[Home(b)])
Full(q)     == Len(q) = config.ways

\* The list q without its element number k.
Without(q, k) == SubSeq(q, 1, k - 1) \o SubSeq(q, k + 1, Len(q))

\* The list q after b, which is in it, is used.
Used(q, b) ==
    IF config.evict = "lru"
    THEN Append(Without(q, CHOOSE k \in DOMAIN q : q[k] = b), b)
    ELSE q

\* The list q after b has come in.
Entered(q, b) == Append(IF Full(q) THEN Tail(q) ELSE q, b)

\* The blocks that have to be written to memory when one comes in to q.
WrittenBack(q) == IF Full(q) THEN {Head(q)} \cap dirty ELSE {}

Init ==
    /\ config \in Configs
    /\ order = [s \in 0..(config.sets - 1) |-> <<>>]
    /\ dirty = {}
    /\ hits = 0
    /\ misses = 0
    /\ spent = 0

\* An access that finds its block: one cycle, and a store goes to memory too
\* or leaves memory with an old copy.
Hit(b, store) ==
    /\ Resident(b)
    /\ order' = [order EXCEPT ![Home(b)] = Used(@, b)]
    /\ dirty' = IF store /\ ~config.writeThrough THEN dirty \cup {b} ELSE dirty
    /\ spent' = (spent + 1 + IF store /\ config.writeThrough THEN WordCost ELSE 0)
                 % Modulus
    /\ hits' = hits + 1
    /\ UNCHANGED <<config, misses>>

\* One that does not but brings it in: the same after the transfers.
Miss(b, store) ==
    LET q    == order[Home(b)]
        back == WrittenBack(q)
    IN  /\ ~Resident(b)
        /\ store => config.writeAllocate
        /\ order' = [order EXCEPT ![Home(b)] = Entered(q, b)]
        /\ dirty' = (dirty \ back)
                    \cup (IF store /\ ~config.writeThrough THEN {b} ELSE {})
        /\ spent' = (spent + 1 + BlockCost(config)
                     + (IF back # {} THEN BlockCost(config) ELSE 0)
                     + (IF store /\ config.writeThrough THEN WordCost ELSE 0))
                    % Modulus
        /\ misses' = misses + 1
        /\ UNCHANGED <<config, hits>>

\* A store that goes around the cache.
Around(b) ==
    /\ ~Resident(b)
    /\ ~config.writeAllocate
    /\ spent' = (spent + WordCost) % Modulus
    /\ misses' = misses + 1
    /\ UNCHANGED <<config, order, dirty, hits>>

Next ==
    \E b \in Blocks :
        Around(b) \/ \E store \in BOOLEAN : Hit(b, store) \/ Miss(b, store)

Spec == Init /\ [][Next]_vars
=============================================================================
