\* Two and four lines in each set, side by side.  Words are so narrow that the
\* cycles wrap.
SPECIFICATION Spec
CONSTANTS
    Bits = 10
    Addrs = {0, 4, 8, 12, 16, 32, 256, 512, 768}
    SetCounts = {1, 2, 3}
    BlockSizes = {4, 8, 256}
    FewWays = 2
    MoreWays = 4
    MaxAccesses = 6
    Chosen <- MCChosen
    Uses <- MCUses
    Length <- MCLength
INVARIANTS OneLinePerBlock NothingLost MoreIsBetter
PROPERTY ImplementsPolicy
CHECK_DEADLOCK FALSE
