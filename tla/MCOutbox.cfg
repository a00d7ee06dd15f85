CONSTANTS
    m1 = m1
    m2 = m2
    h1 = h1
    h2 = h2
    Handlers = {h1, h2}
    Messages <- OneMessage
    HandlersFor <- OneMessageHandlers
    Relays = {r1, r2}
    Tokens = {1, 2, 3, 4, 5, 6, 7}
    BatchSize = 1
    LeaseDuration = 2
    Calls <- OneMessageCalls
    Backoffs = {1}
    MaxFaults = 2
    NULL = NULL
    NoRow = NoRow
SPECIFICATION Spec
INVARIANTS TypeOK SnapshotFresh
PROPERTIES ImplementsLeasedQueue LeaseStillAfterStop
SYMMETRY RelaySymmetry
CHECK_DEADLOCK FALSE
