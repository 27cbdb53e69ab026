\* Two sets of blocks of half the memory: as many offset and index bits as a
\* word has.
SPECIFICATION Spec
CONSTANTS
    Bits = 10
    Addrs = {0, 4, 512}
    SetCounts = {1, 2}
    WayCounts = {1}
    BlockSizes = {4, 512}
    MaxAccesses = 2
INVARIANT FindsWholeBlocks
CHECK_DEADLOCK FALSE
