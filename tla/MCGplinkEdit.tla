---------------------------- MODULE MCGplinkEdit ----------------------------
EXTENDS GplinkEdit

\* The closed forms of Gplink are the list operations of the library.
ASSUME ListOperations ==
    \A list \in BoundedSeq(GPOs, MaxParts + 1) :
        /\ \A g \in GPOs : RemoveAll(list, g) = SelectSeq(list, LAMBDA h : h # g)
        /\ \A from, to \in 1..Len(list) :
                MoveItem(list, from, to)
                    = InsertAt(RemoveAt(list, from), to, list[from])
=============================================================================
