\* One coordinator is killed anywhere; the other one follows.  A publication is killed
\* twice, with one exception and two failures while it is unwound.
CONSTANTS
    scan1 = scan1
    scan2 = scan2
    net1 = net1
    net2 = net2
    c1 = c1
    c2 = c2
    net = net
    NoWorker = NoWorker
    ScanTasks = {scan1, scan2}
    NetTasks = {net1, net2}
    Coordinators = {c1, c2}
    NetWorker = net
    Workers = {c1, c2, net}
    MaxAttempts = 2
    MaxResets = 0
    MayFail = FALSE
    MaxCrashes = 1
    MaxSuspensions = 0
    MaxKills = 2
    MaxRaises = 1
    MaxFaults = 2
SPECIFICATION RecoverySpec
INVARIANTS
    CompletedCallsCharged
    LiveReleaseIsServed
    
    LiveReleaseIsRecorded
    CrashesKeepAgreement
PROPERTIES
    LostLeaseRejectsResult
    ClosedRunStaysClosed
    CrashedRunCloses
    JournalIsResolved
CHECK_DEADLOCK FALSE
