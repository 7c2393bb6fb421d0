SPECIFICATION FairSpec
CONSTANTS
    c1 = c1
    c2 = c2
    c3 = c3
    f1 = f1
    f2 = f2
    Conns = {c1, c2, c3}
    NoConn = NoConn
    Listen = Listen
    Fds = {f1, f2}
    Names = {f1}
    Known = {c1, c2}
    MaxItems <- MCItems
    MaxClients = 2
    QueueLen = 1
INVARIANTS
    NothingSkipped
    KnownOnly
    OwnReply
PROPERTIES
    SessionsInOrder
    RepliesLeave
    ItemsAreRead
CONSTRAINT Company
