\* Parts of two binary digits: every pair of numbers of MCGiven, or every text
\* of MCTexts, and every two calls.
SPECIFICATION Spec
CONSTANTS
    x = x
    y = y
    z = z
    Objects = {x, y, z}
    Fresh = {z}
    Radix = 2
    Digits = 2
    Given <- MCGiven
    Texts <- MCTexts
    MaxCalls = 2
SYMMETRY Symmetry
PROPERTIES ImplementsIntegers SignedZeroIsLoss PrintsCanonical
CHECK_DEADLOCK FALSE
