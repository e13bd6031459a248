SPECIFICATION Spec
CONSTANTS
    A = A
    B = B
    ou1 = ou1
    ou2 = ou2
    dom = dom
    GPOs = {A}
    OUs = {dom, ou1}
    Domain = dom
    Below <- MCBelow
    AllPolicies = AllPolicies
    NoGPO = NoGPO
    Options = {"Enforced"}
    InitStrings <- OneLinkAtMost
    StartLoaded = FALSE
    UserOps = {"LinkGpo", "DropPolicy", "AddLink", "DropOU", "RemoveLink", "DeletePolicy", "LinksToggle", "RefreshDomain"}
    Faults = {}
    PageSize = 2
    DisplayLimits = {3}
    MaxWrites = 2
    MaxUpdates = 1
INVARIANTS
    TreeFresh
    DeletedWithLinks
CHECK_DEADLOCK FALSE
