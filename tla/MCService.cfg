CONSTANTS
    Names = {n1}
    Requests = {q1, q2}
    MaxGeneration = 3
    Absent = Absent
    r1 = r1
    r2 = r2
    r3 = r3
    r4 = r4
    c1 = c1
    c2 = c2
    Runners = {r1, r2, r3, r4}
    Versions = {1, 2, 1000}
    Checksums = {c1, c2}
    Files <- MCFiles
    MaxFaults = 2
    Nothing = Nothing
SPECIFICATION Spec
INVARIANTS SingleFlight ResultsOfRegistered ReadyMeansChecked
INVARIANTS AppliedOnce SuccessComplete FailureExplained
PROPERTIES ProbesEnd AppliedInOrder ApplyEnds
CHECK_DEADLOCK FALSE
