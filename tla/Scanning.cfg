\* Two coordinators, one crash and two suspensions, calls and scans that fail; two
\* processes over two repositories; and the content of one of them.
SPECIFICATION ScanningSpec
CONSTANTS
    scan1 = scan1
    scan2 = scan2
    net1 = net1
    net2 = net2
    c1 = c1
    c2 = c2
    net = net
    NoWorker = NoWorker
    ScanTasks = {scan1}
    NetTasks = {net1}
    Coordinators = {c1, c2}
    NetWorker = net
    Workers = {c1, c2, net}
    MaxAttempts = 2
    MaxResets = 0
    MayFail = TRUE
    MaxCrashes = 1
    MaxSuspensions = 2
    repo1 = repo1
    repo2 = repo2
    proc1 = proc1
    proc2 = proc2
    NoProcess = NoProcess
    NoRepo = NoRepo
    Repos = {repo1, repo2}
    Processes = {proc1, proc2}
    Outcomes = {"positive_history"}
    TotalWorkers = 2
    Hard = 3
    Target = 2
    CloneReserve = 2
    Reservation = 1
    MinGrowth = 1
    MaxSize = 3
    CloneSizes = {1, 3}
    MaxPools = 2
    MaxFaults = 1
    Trees <- MCTrees
    MaxCommits = 3
    MaxPushes = 3
    MaxScans = 2
    DeepenSteps = 2
SYMMETRY Symmetric
INVARIANTS
    WithinHardLimit
    UsageIsExact
    ScansAreContained
    SomebodyMoves
    VerdictIsReproducible
    ResultIsProven
PROPERTIES
    StagesNeedTheLock
    ScanCommitIsFenced
CHECK_DEADLOCK FALSE
