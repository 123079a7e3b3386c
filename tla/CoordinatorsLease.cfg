\* A suspended coordinator is overtaken and wakes up.
CONSTANTS
    scan1 = scan1
    scan2 = scan2
    net1 = net1
    net2 = net2
    c1 = c1
    c2 = c2
    net = net
    NoWorker = NoWorker
    ScanTasks = {scan1}
    NetTasks = {net1}
    Coordinators = {c1, c2}
    NetWorker = net
    Workers = {c1, c2, net}
    MaxAttempts = 2
    MaxResets = 0
    MayFail = FALSE
    MaxCrashes = 0
    MaxSuspensions = 1
SPECIFICATION CSpec
PROPERTIES
    LostLeaseRejectsResult
CHECK_DEADLOCK FALSE
