CONSTANTS
    m1 = m1
    m2 = m2
    h1 = h1
    h2 = h2
    Handlers = {h1, h2}
    Messages <- TwoMessages
    HandlersFor <- TwoMessagesHandlers
    Relays = {r1, r2}
    Tokens = {1, 2, 3, 4, 5, 6, 7}
    BatchSize = 2
    LeaseDuration = 2
    Calls <- TwoMessagesCalls
    Backoffs = {1}
    MaxFaults = 1
    NULL = NULL
    NoRow = NoRow
SPECIFICATION BacklogSpec
PROPERTIES BacklogSettles ShutdownCompletes LostLeaseCancels
CHECK_DEADLOCK FALSE
