\* An operator resets a non-retryable scan failure; then the run is resumed.
CONSTANTS
    scan1 = scan1
    net1 = net1
    w1 = w1
    w2 = w2
    ScanTasks = {scan1}
    NetTasks = {net1}
    Workers = {w1, w2}
    NoWorker = NoWorker
    MaxAttempts = 2
    MaxResets = 2
SYMMETRY Symmetric
SPECIFICATION Spec
PROPERTIES
    ReviewedRetrySurvivesResume
CHECK_DEADLOCK FALSE
