CONSTANTS
    Trustees = {"self", "everyone"}
    Self = "self"
    Everyone = "everyone"
    Scopes = {"this", "children"}
    ThisObject = "this"
    Types = {"p", "q", "password", "x"}
    NoType = ""
    ChangePassword = "password"
    TypedRights <- MCTypedRights
    Start <- MCStart
    Clicked <- MCClicked
    MaxEdits = 2
SPECIFICATION Spec
PROPERTIES NoNewConflict ClickTold UnrelatedKept OtherTabsTold
CHECK_DEADLOCK FALSE
