SPECIFICATION SearchSpec
CONSTANTS
    f = f
    g = g
    x = x
    y = y
    a = a
    b = b
    Doc <- MCDoc
    Text = {x, y}
    Commit = {a, b}
    Sections <- MCSections
    NoCommit = NoCommit
    Branch = Branch
    BatchSize = 1
    Concurrency = 2
    UpsertSize = 2
    MaxRuns = 2
    MaxFaults = 1
    TopK = 2
    Candidates = 1
    RerankCandidates = 2
    MaxSubqueries = 2
    FusionK = 1
INVARIANTS IndexTrue IndexCurrent RerunsPayOnce ServedTrue FairlyFused
CHECK_DEADLOCK FALSE
