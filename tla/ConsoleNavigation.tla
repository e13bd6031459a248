-------------------------- MODULE ConsoleNavigation --------------------------
(***************************************************************************)
(* The scope tree of a ConsoleWidget and its Up, Back and Forward buttons  *)
(* (src/src/admc/ui/widget/console/console_widget.cpp).                    *)
(*                                                                         *)
(* The history is two lists of persistent indexes.  The buttons' handlers  *)
(* take the end of a list without looking whether it is empty; they rely   *)
(* on update_navigation_actions() having disabled the button.  Items leave *)
(* the tree with everything under them, and any of them may be current or  *)
(* in the history.                                                         *)
(*                                                                         *)
(* What Qt does when rows go is external: if the current one is among all  *)
(* the children of an item, it gives way to that item; a current item      *)
(* further down is lost, without a signal.                                 *)
(***************************************************************************)
EXTENDS Naturals, SequencesExt

CONSTANTS
    Items,          \* the places of items in the tree
    HeadItem,       \* the head item, which stays
    Parent,         \* of every other item
    Below,          \* Below[i]: everything under i
    NoItem,         \* QModelIndex()
    MaxHistory      \* bound on the length of the history

ASSUME NavigationAssumption ==
    /\ HeadItem \in Items /\ NoItem \notin Items
    /\ Parent \in [Items \ {HeadItem} -> Items]
    /\ Below \in [Items -> SUBSET (Items \ {HeadItem})]
    /\ \A i \in Items : i \notin Below[i]
    /\ \A i \in Items, j \in Items \ {HeadItem} :
            j \in Below[i] <=> Parent[j] \in Below[i] \cup {i}
    /\ MaxHistory \in Nat

VARIABLES
    items,                          \* the items in the tree
    current,                        \* get_current_scope_item()
    targets_past, targets_future,
    enabled                         \* the buttons that are enabled

vars == <<items, current, targets_past, targets_future, enabled>>

Buttons == {"up", "back", "forward"}

TypeOK ==
    /\ items \subseteq Items
    /\ current \in Items \cup {NoItem}
    /\ targets_past \in Seq(Items) /\ targets_future \in Seq(Items)
    /\ enabled \subseteq Buttons

-----------------------------------------------------------------------------
\* update_navigation_actions().
Enabled(cur, past, future) ==
    {b \in Buttons :
        \/ b = "up" /\ cur \notin {NoItem, HeadItem}
        \/ b = "back" /\ past # << >>
        \/ b = "forward" /\ future # << >>}

\* Fault: leaving no item is remembered too.
PastWithNoItem == Append(targets_past, current)

\* on_current_scope_item_changed(): the past after leaving the current item.
PastAfterLeaving ==
    IF current = NoItem THEN targets_past ELSE Append(targets_past, current)

\* What stays of the first n items of a list, given what stays of fewer.
Kept(kept, list, S, n) ==
    IF n \notin 1..Len(list) THEN << >>
    ELSE IF list[n] \in S THEN kept[n - 1]
    ELSE Append(kept[n - 1], list[n])

Without(list, S) ==
    LET kept[n \in Nat] == Kept(kept, list, S, n) IN kept[Len(list)]

\* Fault: only the past is purged.
PurgePast(S, cur, past, future) ==
    /\ targets_past' = Without(past, S)
    /\ targets_future' = future
    /\ enabled' = Enabled(cur, targets_past', targets_future')
    /\ current' = IF cur \in S THEN NoItem ELSE cur
    /\ items' = items \ S

\* Fault: the buttons stay as they were.
PurgeQuietly(S, cur, past, future) ==
    /\ targets_past' = Without(past, S)
    /\ targets_future' = Without(future, S)
    /\ enabled' = Enabled(cur, past, future)
    /\ current' = IF cur \in S THEN NoItem ELSE cur
    /\ items' = items \ S

\* The history when everything in S goes, with cur the current item just
\* before: on_scope_items_about_to_be_removed() is called while the items are
\* still there.
Purge(S, cur, past, future) ==
    /\ targets_past' = Without(past, S)
    /\ targets_future' = Without(future, S)
    /\ enabled' = Enabled(cur, targets_past', targets_future')
    /\ current' = IF cur \in S THEN NoItem ELSE cur
    /\ items' = items \ S

\* removeRows() of S, if another item, gives, is first made current when the
\* current one is in from.
RemoveRows(S, from, gives) ==
    IF current \in from
    THEN Purge(S, gives, PastAfterLeaving, << >>)
    ELSE Purge(S, current, targets_past, targets_future)

InBounds == Len(targets_past) + Len(targets_future) < MaxHistory

-----------------------------------------------------------------------------
\* Fetching, searching and creating add items to the tree.
AddItem(i) ==
    /\ i \notin items /\ Parent[i] \in items
    /\ items' = items \cup {i}
    /\ UNCHANGED <<current, targets_past, targets_future, enabled>>

\* set_current_scope(), by the user or by a handler.
SetCurrentScope(i) ==
    /\ i \in items \ {current} /\ InBounds
    /\ current' = i
    /\ targets_past' = PastAfterLeaving
    /\ targets_future' = << >>
    /\ enabled' = Enabled(current', targets_past', targets_future')
    /\ UNCHANGED items

\* on_navigate_up().
NavigateUp == "up" \in enabled /\ current \notin {NoItem, HeadItem} /\ SetCurrentScope(Parent[current])

\* Fault: the future that set_current_scope() cleared is not restored.
NavigateBackOnce ==
    /\ "back" \in enabled /\ current # NoItem
    /\ current' = Last(targets_past)
    /\ targets_past' = Front(targets_past)
    /\ targets_future' = <<current>>
    /\ enabled' = Enabled(current', targets_past', targets_future')
    /\ UNCHANGED items

\* on_navigate_back(): the lists are saved, and restored after the slot has
\* changed them; last() is of a list that may not be empty.
NavigateBack ==
    /\ "back" \in enabled /\ current # NoItem
    /\ current' = Last(targets_past)
    /\ targets_past' = Front(targets_past)
    /\ targets_future' = <<current>> \o targets_future
    /\ enabled' = Enabled(current', targets_past', targets_future')
    /\ UNCHANGED items

\* on_navigate_forward().
NavigateForward ==
    /\ "forward" \in enabled /\ current # NoItem
    /\ current' = Head(targets_future)
    /\ targets_past' = Append(targets_past, current)
    /\ targets_future' = Tail(targets_future)
    /\ enabled' = Enabled(current', targets_past', targets_future')
    /\ UNCHANGED items

\* delete_item(): the parent is selected first if the item is the current one.
DeleteItem(i) ==
    /\ i \in items \ {HeadItem} /\ InBounds
    /\ RemoveRows({i} \cup Below[i], {i}, Parent[i])

\* delete_children(), by refresh() and clear_scope_tree().
DeleteChildren(i) ==
    /\ i \in items /\ Below[i] \cap items # {} /\ InBounds
    /\ RemoveRows(Below[i], {j \in Below[i] : Parent[j] = i}, i)

Init ==
    /\ items = {HeadItem}
    /\ current = HeadItem
    /\ targets_past = << >> /\ targets_future = << >>
    /\ enabled = {}

Next ==
    \/ \E i \in Items \ {HeadItem} : AddItem(i) \/ DeleteItem(i)
    \/ \E i \in Items : SetCurrentScope(i) \/ DeleteChildren(i)
    \/ NavigateUp \/ NavigateBack \/ NavigateForward

Spec == Init /\ [][Next]_vars

-----------------------------------------------------------------------------
\* Back and Forward lead to items that are in the tree: a persistent index to
\* a removed item would be invalid.  The same of the current item.
HistoryShown ==
    /\ current \in items \cup {NoItem}
    /\ Range(targets_past) \cup Range(targets_future) \subseteq items

\* update_navigation_actions(): "as long as this is called where appropriate
\* (on every target change), it is not necessary to do any condition checks in
\* navigation f-ns": no button whose list is empty is enabled, and none whose
\* list is not empty is out of reach.
ButtonsMatchHistory ==
    /\ "back" \in enabled <=> targets_past # << >>
    /\ "forward" \in enabled <=> targets_future # << >>

\* The two lists and the current item are one trail with a cursor.
Trail == INSTANCE NavTrail
    WITH trail <- [visited |-> targets_past \o <<current>> \o targets_future,
                   at |-> Len(targets_past) + 1]

FollowsTrail == Trail!Spec
=============================================================================
