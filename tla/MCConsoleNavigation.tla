------------------------- MODULE MCConsoleNavigation -------------------------
EXTENDS ConsoleNavigation

CONSTANTS head, a, b, c

\* a and b under the head item, c under a.
MCParent == [i \in Items \ {head} |-> IF i = c THEN a ELSE head]

MCBelow ==
    [i \in Items |-> CASE i = head -> Items \ {head}
                       [] i = a    -> {c}
                       [] OTHER    -> {}]
=============================================================================
