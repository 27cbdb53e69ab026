\* One queue shared by two producers and two consumers.
SPECIFICATION FairSpec
CONSTANTS
    Producers = {p1, p2}
    Consumers = {c1, c2}
    Msg = {m1, m2, m3}
    Nil = Nil
INVARIANTS
    SemaphoreCounts
    ClaimIsHonoured
PROPERTIES
    ImplementsAtomicQueue
    EveryMessageTaken
    CallsReturn
