SPECIFICATION Spec
CONSTANTS
    Senders = {"s1"}
    Receivers = {"r1"}
    Names <- MCNames
    Typed <- MCTyped
    Rooms <- MCRooms
    Size <- MCSize
    Nul <- MCNul
    Return <- MCReturn
    Breaks = {0, 1}
    MaxLen = 255
INVARIANT EncodedFits
CHECK_DEADLOCK FALSE
