SPECIFICATION Spec
CONSTANTS
    A = A
    B = B
    ou1 = ou1
    ou2 = ou2
    dom = dom
    GPOs = {A, B}
    OUs = {dom, ou1}
    Domain = dom
    Below <- MCBelow
    AllPolicies = AllPolicies
    NoGPO = NoGPO
    Options = {"Enforced"}
    InitStrings <- MCStrings
    StartLoaded = TRUE
    UserOps = {"LinkGpo", "DropPolicy", "AddLink", "DropOU", "RemoveLink", "ChangeOption", "LinksToggle", "LinksMove", "LinksReorder", "ResultsToggle", "ResultsDelete"}
    Faults = {}
    PageSize = 1
    DisplayLimits = {3}
    MaxWrites = 3
    MaxUpdates = 0
INVARIANTS
    CacheCoherent
    LinksTableFresh
    ResultsTableFresh
    TreeFresh
PROPERTIES
    OptionsKeepLinks
CHECK_DEADLOCK FALSE
