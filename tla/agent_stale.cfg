SPECIFICATION Spec
CONSTANTS
    m1 = m1
    m2 = m2
    m3 = m3
    telegram = telegram
    ws = ws
    alice = alice
    bob = bob
    Msgs = {m1, m2}
    Channel = {telegram, ws}
    Chat = {alice, bob}
    Route <- MCRoute
    NoRoute = NoRoute
    ModeChannel = telegram
    SavedChat = alice
    NoChat = NoChat
    NoMsg = NoMsg
    Voice = Voice
    QueueLen = 2
    MaxIter = 2
    MaxVoice = 0
INVARIANTS
    StaleNeverForwarded
CHECK_DEADLOCK FALSE
