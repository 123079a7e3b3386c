SPECIFICATION CatalogSpec
CONSTANTS
    adopter = adopter
    lib1 = lib1
    lib2 = lib2
    Catalogued = {adopter}
    Detectors = {lib1, lib2}
    V1Pairs <- MCV1Pairs
    V1Libraries = {lib2}
    Collisions <- MCV1Pairs
    Usages <- MCUsages
    Deniable <- MCDeniable
    Selected = {{lib1}}
    WeeklyScans = 1
    MaxEvents = 1
    MaxEdits = 1
    MaxInvocations = 3
PROPERTY AdoptionsStayVisible
CHECK_DEADLOCK FALSE
