SPECIFICATION Spec
CONSTANTS
    Targets = {"policy", "user"}
    TreeDelete = {TRUE, FALSE}
    OUs = {ou1, ou2}
    Faults = {"write", "read", "share"}
    MaxOps = 3
    MaxFailures = 2
    MaxOthers = 1
    MaxCrashes = 1
INVARIANTS
    AddIsAllOrNothing
    ToldDeletedIsGone
    CleanDeleteFinishes
PROPERTIES
    ProtectedStays
CHECK_DEADLOCK FALSE
