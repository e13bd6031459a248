CONSTANTS
    Texts <- MCTexts
    NoText = ""
    Trim <- MCTrim
    Taken = {"b"}
    Groups = {"A", "B", "C"}
    Trustees = {"t"}
    Faults = {"write", "connect"}
    Start <- MCStart
    Touched <- MCTouched
    Typed = {"a "}
    OtherFlags = {"dont_expire"}
    OtherGroups = {"C"}
    MaxChanges = 2
    MaxOpens = 1
SPECIFICATION Spec
INVARIANTS TypeOK PendingIsListed ConflictsAreLoaded AttributesAlone
PROPERTIES AppliedIsShown OthersKept
CHECK_DEADLOCK FALSE
