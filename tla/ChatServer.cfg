\* A sender that changes rooms and a receiver in either: broadcast, delivery and
\* clean-up, with and without clients that read.
SPECIFICATION FairSpec
CONSTANTS
    Workers = {s1, r1}
    Senders = {s1}
    Receivers = {r1}
    Names = {a, b}
    MaxSends = 2
    Nil = Nil
INVARIANTS
    TypeOK
    LocksHeld
    OneRoomPerName
    NoUseAfterFree
    RoomOrder
PROPERTIES
    ImplementsChatRooms
    ImplementsQueues
    BroadcastEnds
    EveryMemberHears
    GoneReceiverIsRemoved
