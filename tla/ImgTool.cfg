SPECIFICATION FairSpec
CONSTANTS
    Inputs <- MCInputs
    Olds <- MCOlds
    LittleEndian = TRUE
INVARIANTS
    ReadsWhatItHolds
    WritesWhatItMade
PROPERTIES
    ImplementsImageTool
    RunEnds
CHECK_DEADLOCK FALSE
