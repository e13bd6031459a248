SPECIFICATION Spec
CONSTANTS
    Objects = {x, y}
    PageSize = 1
    DisplayLimits = {2}
    Faults = {"connect"}
    UserOps = {"Refresh", "EditQuery", "Create", "Delete", "Rename", "RemoveItem", "OtherAdmin"}
    MaxSearches = 3
    MaxEdits = 1
INVARIANTS
    TypeOK
    FetchingIffSearching
PROPERTIES
    SearchShowsAll
    FetchEnds
CHECK_DEADLOCK FALSE
