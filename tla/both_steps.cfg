SPECIFICATION Spec
CONSTANTS
    Targets = {"policy"}
    TreeDelete = {TRUE, FALSE}
    OUs = {ou1}
    Faults = {}
    MaxOps = 1
    MaxFailures = 0
    MaxOthers = 1
    MaxCrashes = 0
PROPERTIES
    BothStepsTried
CHECK_DEADLOCK FALSE
