SPECIFICATION FairSpec
CONSTANTS
    FileSizes = {0, 4, 24, 32}
    Values = {1, 2, 3}
    Junk = {0}
    Thresholds = {0, 2}
    MaxFaults = 2
INVARIANTS TypeOK ExitStatusIsTrue SplitHolds NothingLeftBehind
CHECK_DEADLOCK FALSE
PROPERTY Terminates
