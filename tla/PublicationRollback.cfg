\* A rename fails while an interrupted publication is rolled back.
CONSTANTS
    MaxKills = 0
    MaxRaises = 1
    MaxFaults = 1
SPECIFICATION PublicationSpec
INVARIANTS
    PairAgrees
CHECK_DEADLOCK FALSE
