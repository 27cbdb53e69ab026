SPECIFICATION Spec
CONSTANTS
    FileSizes = {16, 24, 32}
    Values = {1, 2, 3}
    Junk = {0}
    Thresholds = {0, 2}
    MaxFaults = 0
PROPERTY SwapsInArray
CHECK_DEADLOCK FALSE
