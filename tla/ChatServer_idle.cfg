\* README.txt: a receiver that disconnects is removed.
SPECIFICATION FairSpec
CONSTANTS
    Workers = {s1, r1}
    Senders = {s1}
    Receivers = {r1}
    Names = {a}
    MaxSends = 2
    Nil = Nil
PROPERTIES
    DisconnectedIsRemoved
