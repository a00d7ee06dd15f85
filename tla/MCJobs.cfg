CONSTANTS
    j1 = j1
    j2 = j2
    Jobs <- OneJob
    Unhandled = {}
    Workers = {w1, w2}
    Tokens = {1, 2, 3, 4, 5, 6, 7}
    BatchSize = 1
    LeaseDuration = 2
    Calls <- OneJobCalls
    Delays = {0}
    Backoffs = {1}
    DefaultMaxAttempts = 2
    MaxAge = 0
    MaxFaults = 2
    Infinity = Infinity
    NULL = NULL
    NoRow = NoRow
SPECIFICATION Spec
INVARIANTS TypeOK SnapshotFresh FailedExhausted
PROPERTIES AttemptStep AckedOnlyAfterSuccess
SYMMETRY WorkerSymmetry
