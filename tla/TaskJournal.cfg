\* Two workers race over one scan and one discovery task, with one reset; and a
\* lineage of two successors, whose preparation may stop and be repeated; and two
\* refreshes of the citations of one library.
CONSTANTS
    scan1 = scan1
    net1 = net1
    w1 = w1
    w2 = w2
    ScanTasks = {scan1}
    NetTasks = {net1}
    Workers = {w1, w2}
    NoWorker = NoWorker
    MaxAttempts = 2
    MaxResets = 1
    target1 = target1
    Queries <- MCQueries
    Targets = {target1}
    Repairs <- MCRepairs
    Incident = 1
    NoRun = NoRun
    MaxRequests = 3
    MaxPoints = 2
    MaxFetches = 2
    MaxTries = 2
    MaxHops = 2
    MaxReported = 1
    library1 = library1
    lab1 = lab1
    lab2 = lab2
    paper1 = paper1
    paper2 = paper2
    Researched = {library1}
    Labs = {lab1, lab2}
    Papers = {paper1, paper2}
    Named <- MCNamed
    Cites <- MCCites
    Standings <- MCStandings
    V1Researched = {}
    Wordings = {1, 2}
    KeptWordings = 2
    MaxRefreshes = 2
SYMMETRY Symmetric
SPECIFICATION RunsSpec
INVARIANTS
    EveryDispatchCharged
    OnlyLatestAttemptOpen
    PendingIsLeasable
    NonRetryableNeedsReview
    VerdictMatchesLedger
    LineageIsCharged
    InheritedIsCertified
    ReusedVerdictsHold
    LinksAreCurrent
    LastGoodSurvives
PROPERTIES
    ClosedAttemptsImmutable
    ImplementsQueue
CHECK_DEADLOCK FALSE
