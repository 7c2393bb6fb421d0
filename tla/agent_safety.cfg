SPECIFICATION Spec
CONSTANTS
    m1 = m1
    m2 = m2
    m3 = m3
    telegram = telegram
    ws = ws
    alice = alice
    bob = bob
    Msgs = {m2, m3}
    Channel = {telegram, ws}
    Chat = {alice, bob}
    Route <- MCRoute
    NoRoute = NoRoute
    ModeChannel = telegram
    SavedChat = alice
    NoChat = NoChat
    NoMsg = NoMsg
    Voice = Voice
    QueueLen = 1
    MaxIter = 2
    MaxVoice = 1
INVARIANTS
    CleanTurnAnswersItsChat
    CleanWakeIsOwnEnd
    CleanEndHasSuccesses
    CleanTurnOwnsItsState
CHECK_DEADLOCK FALSE
