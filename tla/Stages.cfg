SPECIFICATION StagesSpec
CONSTANTS
    repo1 = repo1
    repo2 = repo2
    tail1 = tail1
    tail2 = tail2
    tail3 = tail3
    new1 = new1
    new2 = new2
    Corpora <- MCCorpora
    Extensions = {"py", "cu"}
    Members = {"pack"}
    MaxFileSize = 1
    PerPage = 2
    ResultCap = 4
    MaxPathSplits = 2
    MaxSweeps = 2
    MaxTotal = 5
    MaxRequests = 4
    MaxRetries = 1
    Threshold = 2
    OpenTime = 2
    PacingSteps <- MCPacing
    CalmAfter = 1
    RetryWaits = {1, 3}
    MaxRetryDelay = 2
    RetryBudget = 2
    MaxProcesses = 2
    MaxClock = 3
    LibraryOrder <- MCLibraries
    DueAge = 2
    StaleAge = 3
    MaxRuns = 2
    MaxDay = 3
    Repos = {repo1, repo2}
    MaxAge = 1
    PointBudget = 7
    MaxCost = 2
    Costs = {1}
    MaxStarts = 3
    MaxTime = 3
    MaxChanges = 1
    Universe = {tail1, tail2, tail3}
    Newcomers = {new1, new2}
    NoReference = NoReference
    MaxGone = 2
    MaxMoved = 1
    SavedAt = {2, 3, 5}
    adopter = adopter
    lib1 = lib1
    lib2 = lib2
    Catalogued = {adopter}
    Detectors = {lib1, lib2}
    V1Pairs <- MCV1Pairs
    V1Libraries = {lib2}
    Collisions <- MCV1Pairs
    Usages <- MCUsages
    Deniable <- MCDeniable
    Selected = {{lib1}}
    WeeklyScans = 1
    MaxEvents = 1
    MaxEdits = 1
    MaxInvocations = 3
INVARIANTS
    CertificateMissesNobody
    SpentWithinBudget
    RotationKeepsCoverage
    PointsWithinBudget
    PublishedUniverseAccounted
    PublishedHeadsWereScanned
    CatalogIsProven
PROPERTIES
    CircuitHolds
    ReleaseWasPublic
    QuarantineIsFinal
    SelectedAdoptersSurvive
CHECK_DEADLOCK FALSE
