SPECIFICATION Spec
CONSTANTS
    A = A
    B = B
    ou1 = ou1
    ou2 = ou2
    dom = dom
    GPOs = {A}
    OUs = {dom, ou1}
    Domain = dom
    Below <- MCBelow
    AllPolicies = AllPolicies
    NoGPO = NoGPO
    Options = {"Enforced"}
    InitStrings <- OneLinkAtMost
    StartLoaded = TRUE
    UserOps = {"LinkGpo", "DropPolicy", "AddLink", "DropOU", "AddLinkTwo", "FindAddLink", "RemoveLink", "DeletePolicy", "FindDeletePolicy", "ChangeOption", "LinksToggle", "LinksRemove", "LinksMove", "LinksReorder", "ResultsToggle", "ResultsDelete", "RefreshDomain", "OtherAdmin"}
    Faults = {"connect", "read", "write"}
    PageSize = 1
    DisplayLimits = {3}
    MaxWrites = 1
    MaxUpdates = 0
INVARIANTS
    TypeOK
    ScopeIsShown
    RowsAreLinks
CHECK_DEADLOCK FALSE
