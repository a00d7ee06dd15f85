CONSTANTS
    j1 = j1
    j2 = j2
    Jobs <- TwoJobs
    Unhandled = {j2}
    Workers = {w1, w2}
    Tokens = {1, 2, 3, 4, 5, 6, 7}
    BatchSize = 2
    LeaseDuration = 2
    Calls <- TwoJobsCalls
    Delays = {0}
    Backoffs = {1}
    DefaultMaxAttempts = 2
    MaxAge = 0
    MaxFaults = 1
    Infinity = Infinity
    NULL = NULL
    NoRow = NoRow
SPECIFICATION BacklogSpec
INVARIANT SingleOwner
PROPERTIES LeaseRespected BacklogSettles ShutdownCompletes LostLeaseCancels
CHECK_DEADLOCK FALSE
