------------------------------- MODULE NavTrail -------------------------------
(***************************************************************************)
(* What Back and Forward promise: the items that were current, in the      *)
(* order they became so, and a cursor on the one that is current now.      *)
(* Going back or forward moves the cursor and forgets nothing; choosing    *)
(* another item starts a new future; an item that ceases to exist is       *)
(* forgotten wherever it occurs, and the rest stays in place.              *)
(***************************************************************************)
EXTENDS Naturals, SequencesExt

CONSTANTS Items, NoItem

VARIABLE trail      \* [visited, at]

Here(t) == t.visited[t.at]

Before(t) == SubSeq(t.visited, 1, t.at - 1)

After(t) == SubSeq(t.visited, t.at + 1, Len(t.visited))

\* The cursor on another item, with no future.
Visited(t, i) ==
    LET before == IF Here(t) = NoItem THEN Before(t) ELSE Append(Before(t), Here(t))
    IN  [visited |-> Append(before, i), at |-> Len(before) + 1]

\* What is left of a list when the items of S go: the others, in their order.
IsRest(rest, list, S) ==
    \E from \in [DOMAIN rest -> {k \in DOMAIN list : list[k] \notin S}] :
        /\ \A j \in DOMAIN rest : rest[j] = list[from[j]]
        /\ \A j, k \in DOMAIN rest : j < k => from[j] < from[k]
        /\ \A k \in DOMAIN list : list[k] \notin S => \E j \in DOMAIN rest : from[j] = k

\* The trail u is t without S.  The cursor stays where it was, on nothing if
\* its item is forgotten.
Forgets(t, S, u) ==
    /\ u \in [visited : Seq(Items \cup {NoItem}), at : Nat]
    /\ u.at \in DOMAIN u.visited
    /\ IsRest(Before(u), Before(t), S)
    /\ IsRest(After(u), After(t), S)
    /\ Here(u) = IF Here(t) \in S THEN NoItem ELSE Here(t)

Visit == \E i \in Items \ {Here(trail)} : trail' = Visited(trail, i)

GoBack ==
    /\ trail.at > 1 /\ Here(trail) # NoItem
    /\ trail' = [trail EXCEPT !.at = @ - 1]

GoForward ==
    /\ trail.at < Len(trail.visited) /\ Here(trail) # NoItem
    /\ trail' = [trail EXCEPT !.at = @ + 1]

\* The current item may give way to another before it goes.
Forget ==
    \E S \in SUBSET Items :
        \/ Forgets(trail, S, trail')
        \/ /\ Here(trail) \in S
           /\ \E i \in Items \ S : Forgets(Visited(trail, i), S, trail')

Init == \E i \in Items : trail = [visited |-> <<i>>, at |-> 1]

Next == Visit \/ GoBack \/ GoForward \/ Forget

Spec == Init /\ [][Next]_trail
=============================================================================
