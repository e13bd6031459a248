SPECIFICATION Spec
CONSTANTS
    OUs = {ou1, ou2}
    Strings = {none, s1, s2}
    NoLinks = none
    PageSize = 1
    DisplayLimits = {1, 2}
    Faults = {"connect", "read"}
    MaxWrites = 2
    MaxUpdates = 2
INVARIANTS
    TypeOK
    IdleIsQuiet
PROPERTIES
    UpdateRefreshes
    UpdateReadsAll
    UpdateEnds
CHECK_DEADLOCK FALSE
