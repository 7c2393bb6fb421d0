SPECIFICATION FairSpec
CONSTANTS
    p = p
    q = q
    both = both
    lone = lone
    tooBig = tooBig
    note = note
    numbered = numbered
    flat = flat
    hello = hello
    NoReq = NoReq
    NTools = 4
    Builtins = 2
    GroupEnd <- MCGroupEnd
    Size <- MCSize
    PageMax = 4
    Linux = TRUE
    Def <- MCDef
    NoVal = NoVal
    Reqs = {both, lone, tooBig, numbered, flat, note, hello}
    Scale = 2
    IntMax = 100
    Req <- MCReq
    MaxLists = 1
CONSTRAINT InTurn
INVARIANTS
    PagesAreTheTools
    AnsweredOnce
    ReportedOnce
    ArgumentsAreOwn
PROPERTIES
    AnsweredInOrder
    CallsAreAnswered
    ListingEnds
CHECK_DEADLOCK FALSE
