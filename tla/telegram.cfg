SPECIFICATION FairSpec
CONSTANTS
    a = a
    b = b
    Silent <- MCSilent
    Bots = {a, b}
    NoBot = none
    RingSize = 2
    SaveStep = 2
    RespMax = 2
    MaxSent <- MCSent
    MaxBoots = 1
    MaxLinks = 2
    MaxChanges = 1
INVARIANTS
    PushedInOrder
    NothingSkipped
    SetbackIsSmall
    RingSuffices
PROPERTIES
    CatchesUp
CHECK_DEADLOCK FALSE
