SPECIFICATION FairSpec
CONSTANTS
    r1 = r1
    r2 = r2
    Reqs = {r1, r2}
    Routed = {r1}
    NoReq = NoReq
    MaxWire = 3
INVARIANTS
    CleanRequestGetsItsAnswer
    NoticeOnce
PROPERTIES
    ServedOneByOne
    AcceptedIsTold
