SPECIFICATION Spec
CONSTANTS
    head = head
    a = a
    b = b
    c = c
    Items = {head, a, b, c}
    HeadItem = head
    Parent <- MCParent
    Below <- MCBelow
    NoItem = NoItem
    MaxHistory = 4
INVARIANTS
    TypeOK
    HistoryShown
    ButtonsMatchHistory
PROPERTIES
    FollowsTrail
