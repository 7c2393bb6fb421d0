SPECIFICATION Spec
CONSTANTS
    r1 = r1
    r2 = r2
    Reqs = {r1, r2}
    Routed = {r1, r2}
    NoReq = NoReq
    MaxWire = 2
INVARIANTS
    OneQuestionOneAnswer
