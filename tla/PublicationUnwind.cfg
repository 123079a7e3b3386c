\* The process dies, or the database fails, while an exception is unwound.
CONSTANTS
    MaxKills = 1
    MaxRaises = 1
    MaxFaults = 0
SPECIFICATION PublicationSpec
INVARIANTS
    RolledBackRunResumes
CHECK_DEADLOCK FALSE
