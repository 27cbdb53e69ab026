\* Two messages through small buffers, the kernel's smaller than a line.
SPECIFICATION FairSpec
CONSTANTS
    Newline = "nl"
    Return = "cr"
    Colon = "colon"
    Nul = "nul"
    Messages <- MCMessages
    MaxSends = 2
    BufLen = 6
    RioSize = 3
    KernelSize = 3
INVARIANTS TypeOK PlainMessagesArrive
PROPERTIES ImplementsPieceStream EveryLineArrives
CHECK_DEADLOCK FALSE
