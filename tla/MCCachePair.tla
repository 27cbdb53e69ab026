---------------------------- MODULE MCCachePair ----------------------------
(* An instance of CachePair for TLC. *)
EXTENDS CachePair

\* Five blocks in one set under LRU need traces of six accesses to make the
\* larger cache evict a line that the smaller one could still hold; the other
\* policies show in five accesses to four blocks, three of them in one set and
\* one of them with two words.  Two sets of the largest blocks leave a tag of one
\* bit, and a block costs more cycles than a word holds.
MCChosen(c) ==
    \/ c.sets = 1 /\ c.blockBytes = 4 /\ c.evict = "lru" /\ ~c.writeAllocate
    \/ c.sets > 1 /\ c.blockBytes > 4

MCUses(c) ==
    CASE c.sets = 1       -> {0, 4, 8, 12, 16}
      [] c.blockBytes = 8 -> {0, 4, 8, 16, 32}
      [] OTHER            -> {0, 4, 256, 512, 768}

MCLength(c) ==
    CASE c.sets = 1       -> 6
      [] c.blockBytes = 8 -> 5
      [] OTHER            -> 4
=============================================================================
