CONSTANTS
    m1 = m1
    w1 = w1
    w2 = w2
    Callers = {g1, g2}
    Modules = {m1}
    Workers = {w1, w2}
    ModuleWorkers <- MCModuleWorkers
    Profiles = {"http+worker", "http-only", "worker-only"}
    Nobody = Nobody
    MaxAttempts = 2
    MaxDepth = 3
    MaxWrites = 4
    Tables = {"orders", "migrations"}
    Ignored = {"migrations"}
    ColumnDefs <- MCColumnDefs
    Defs = {a, b}
    Words = {a, b}
    LabelLists <- MCLabelLists
    Zero = Zero
    Catalogues <- MCCatalogues
    MaxDdl = 2
    None = None
    a = a
    b = b
    EventTypes = {"created", "*"}
    EventHandlers <- MCEventHandlers
    EventRelays = {r1, r2}
    MaxAccepted = 3
    JobNames = {n1, n2}
    JobHandlers = {h1, h2}
    NoHandler = NoHandler
    MaxSends = 2
    ClientRequests <- MCClientRequests
    MaxHops = 3
    MaxHeaderBytes = 13
SPECIFICATION Spec
INVARIANTS ModulesDistinct NoReportDropped CleanReturn UnfinishedNamed
INVARIANTS OneAttemptCommitted ResultHonest NestedUndone
INVARIANTS DriftDetected PartsTrue
INVARIANTS AcceptedHandlersRun SendHonest NearestUntrustedHop
PROPERTIES RunReturns SendEnds
CHECK_DEADLOCK FALSE
