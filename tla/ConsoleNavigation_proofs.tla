----------------------- MODULE ConsoleNavigation_proofs -----------------------
(***************************************************************************)
(* For a tree of any shape and a history of any length: no button leads to *)
(* an item that is gone or to an empty list.                               *)
(*                                                                         *)
(* The induction needs one fact more than the properties: the tree has no  *)
(* holes (Closed), so that Up and the deletion of the current item always  *)
(* find a parent that is still there.  What stays of a list when items go  *)
(* is a recursive function; what it is, the list without these items, is   *)
(* proved by the least element of the set of counterexamples.  Then the    *)
(* two lists with the current item between them are a trail that every     *)
(* handler changes as NavTrail says.                                       *)
(***************************************************************************)
EXTENDS ConsoleNavigation, WellFoundedInduction, SequenceTheorems, TLAPS

LEMMA LeastElement ==
    ASSUME NEW T \in SUBSET Nat, T # {}
    PROVE  \E n \in T : \A m \in T : n <= m
<1> DEFINE R == OpToRel(<, Nat)
<1>1. IsWellFoundedOn(R, Nat)
  BY NatLessThanWellFounded
<1>2. \A i, j \in Nat : <<i, j>> \in R <=> i < j
  BY DEF OpToRel
<1> HIDE DEF R
<1>3. PICK n \in T : \A m \in T : <<m, n>> \notin R
  BY <1>1, WFMin
<1>4. \A m \in T : ~ (m < n)
  BY <1>2, <1>3
<1> QED
  BY <1>4

Keeps(T, list, S, n, kept) ==
    /\ kept \in [Nat -> Seq(T \ S)]
    /\ \A i \in 0..n : kept[i] = Kept(kept, list, S, i)

LEMMA KeepsFirst ==
    ASSUME NEW T, NEW S, NEW list \in Seq(T)
    PROVE  \E kept : Keeps(T, list, S, 0, kept)
<1> DEFINE kept == [i \in Nat |-> << >>]
<1>1. kept \in [Nat -> Seq(T \ S)]
  OBVIOUS
<1>2. \A i \in 0..0 : kept[i] = Kept(kept, list, S, i)
  BY DEF Kept
<1> QED
  BY <1>1, <1>2 DEF Keeps

LEMMA KeepsNext ==
    ASSUME NEW T, NEW S, NEW list \in Seq(T), NEW n \in 1..Len(list),
           NEW kept, Keeps(T, list, S, n - 1, kept)
    PROVE  \E more : Keeps(T, list, S, n, more)
<1> DEFINE last == Kept(kept, list, S, n)
           more == [kept EXCEPT ![n] = last]
<1>1. list[n] \in T
  OBVIOUS
<1>2. last \in Seq(T \ S)
  BY <1>1, SMTT(30) DEF Keeps, Kept
<1>3. more \in [Nat -> Seq(T \ S)]
  BY <1>2 DEF Keeps
<1>4. ASSUME NEW i \in 0..n
      PROVE  more[i] = Kept(more, list, S, i)
  <2>1. i # 0 => more[i - 1] = kept[i - 1]
    BY DEF Keeps
  <2>2. CASE i = n
    <3>1. more[n] = last
      BY DEF Keeps
    <3> HIDE DEF more
    <3> QED
      BY <2>1, <2>2, <3>1 DEF Kept
  <2>3. CASE i \in 0..(n - 1)
    <3>1. more[i] = kept[i] /\ kept[i] = Kept(kept, list, S, i)
      BY <2>3 DEF Keeps
    <3> HIDE DEF more
    <3> QED
      BY <2>1, <3>1 DEF Kept
  <2> QED
    BY <2>2, <2>3
<1> QED
  BY <1>3, <1>4 DEF Keeps

LEMMA KeepsAll ==
    ASSUME NEW T, NEW S, NEW list \in Seq(T)
    PROVE  \E kept : Keeps(T, list, S, Len(list), kept)
<1> DEFINE Possible(n) == \E kept : Keeps(T, list, S, n, kept)
           Not == {n \in 0..Len(list) : ~ Possible(n)}
<1>1. Possible(0)
  BY KeepsFirst
<1>2. \A n \in 1..Len(list) : Possible(n - 1) => Possible(n)
  BY KeepsNext
<1> HIDE DEF Possible
<1>3. ASSUME Not # {} PROVE FALSE
  <2>1. Not \in SUBSET Nat
    OBVIOUS
  <2> HIDE DEF Not
  <2>2. PICK n \in Not : \A m \in Not : n <= m
    BY <1>3, <2>1, LeastElement
  <2> USE DEF Not
  <2>3. n \in 1..Len(list)
    BY <1>1, <2>2
  <2>4. n - 1 \notin Not /\ n - 1 \in 0..Len(list)
    BY <2>2, <2>3
  <2> QED
    BY <1>2, <2>2, <2>3, <2>4
<1>4. Possible(Len(list))
  BY <1>3
<1> QED
  BY <1>4 DEF Possible

\* The elements of rest are those of the first n of list that are not in S.
RestOf(rest, list, S, n) ==
    \E from \in [1..Len(rest) -> {k \in 1..n : list[k] \notin S}] :
        /\ \A j \in 1..Len(rest) : rest[j] = list[from[j]]
        /\ \A j, k \in 1..Len(rest) : j < k => from[j] < from[k]
        /\ \A k \in 1..n : list[k] \notin S => \E j \in 1..Len(rest) : from[j] = k

LEMMA RestOfNone ==
    ASSUME NEW list, NEW S
    PROVE  RestOf(<< >>, list, S, 0)
<1> DEFINE none == [j \in {} |-> 0]
<1>1. none \in [1..0 -> {k \in 1..0 : list[k] \notin S}]
  OBVIOUS
<1>2. Len(<< >>) = 0
  OBVIOUS
<1> QED
  BY <1>1, <1>2 DEF RestOf

LEMMA RestSkips ==
    ASSUME NEW list, NEW S, NEW rest, NEW n \in Nat \ {0}, list[n] \in S,
           RestOf(rest, list, S, n - 1)
    PROVE  RestOf(rest, list, S, n)
<1>1. {k \in 1..n : list[k] \notin S} = {k \in 1..(n - 1) : list[k] \notin S}
  OBVIOUS
<1>2. \A k \in 1..n : list[k] \notin S => k \in 1..(n - 1)
  OBVIOUS
<1>3. PICK from \in [1..Len(rest) -> {k \in 1..(n - 1) : list[k] \notin S}] :
          /\ \A j \in 1..Len(rest) : rest[j] = list[from[j]]
          /\ \A j, k \in 1..Len(rest) : j < k => from[j] < from[k]
          /\ \A k \in 1..(n - 1) : list[k] \notin S => \E j \in 1..Len(rest) : from[j] = k
  BY Zenon DEF RestOf
<1>4. from \in [1..Len(rest) -> {k \in 1..n : list[k] \notin S}]
  BY <1>1
<1>5. \A k \in 1..n : list[k] \notin S => \E j \in 1..Len(rest) : from[j] = k
  BY <1>2, <1>3, Zenon
<1> QED
  BY <1>3, <1>4, <1>5, Zenon DEF RestOf

LEMMA RestAdds ==
    ASSUME NEW T, NEW list \in Seq(T), NEW S, NEW rest \in Seq(T),
           NEW n \in 1..Len(list), list[n] \notin S,
           RestOf(rest, list, S, n - 1)
    PROVE  RestOf(Append(rest, list[n]), list, S, n)
<1> DEFINE m == Len(rest)
           more == Append(rest, list[n])
<1>1. PICK from \in [1..m -> {k \in 1..(n - 1) : list[k] \notin S}] :
          /\ \A j \in 1..m : rest[j] = list[from[j]]
          /\ \A j, k \in 1..m : j < k => from[j] < from[k]
          /\ \A k \in 1..(n - 1) : list[k] \notin S => \E j \in 1..m : from[j] = k
  BY Zenon DEF RestOf
<1>2. /\ m \in Nat /\ Len(more) = m + 1 /\ list[n] \in T
      /\ \A j \in 1..m : more[j] = rest[j]
      /\ more[m + 1] = list[n]
  OBVIOUS
<1> HIDE DEF m, more
<1> DEFINE to == [j \in 1..(m + 1) |-> IF j = m + 1 THEN n ELSE from[j]]
<1>3. /\ to[m + 1] = n
      /\ \A j \in 1..m : to[j] = from[j]
      /\ \A j \in 1..(m + 1) : j \in 1..m \/ j = m + 1
  BY <1>2
<1>4. to \in [1..(m + 1) -> {k \in 1..n : list[k] \notin S}]
  BY <1>1, <1>2
<1> HIDE DEF to
<1>5. \A j \in 1..(m + 1) : more[j] = list[to[j]]
  BY <1>1, <1>2, <1>3
<1>6. \A j, k \in 1..(m + 1) : j < k => to[j] < to[k]
  <2>1. \A j \in 1..m : from[j] \in 1..(n - 1)
    BY <1>1
  <2>2. \A j, k \in 1..m : j < k => from[j] < from[k]
    BY <1>1
  <2>3. n \in Nat
    OBVIOUS
  <2>4. ASSUME NEW j \in 1..(m + 1), NEW k \in 1..(m + 1), j < k
        PROVE  to[j] < to[k]
    <3>1. j \in 1..m
      BY <1>2, <2>4
    <3>2. CASE k = m + 1
      BY <1>3, <2>1, <2>3, <3>1, <3>2
    <3>3. CASE k \in 1..m
      BY <1>3, <2>2, <2>4, <3>1, <3>3
    <3> QED
      BY <1>3, <3>2, <3>3
  <2> QED
    BY <2>4
<1>7. \A k \in 1..n : list[k] \notin S => \E j \in 1..(m + 1) : to[j] = k
  <2>1. SUFFICES ASSUME NEW k \in 1..n, list[k] \notin S
                 PROVE  \E j \in 1..(m + 1) : to[j] = k
    OBVIOUS
  <2>2. m + 1 \in 1..(m + 1) /\ 1..m \subseteq 1..(m + 1)
    BY <1>2
  <2>3. k = n \/ k \in 1..(n - 1)
    OBVIOUS
  <2> QED
    BY <1>1, <1>3, <2>1, <2>2, <2>3
<1>8. 1..Len(more) = 1..(m + 1)
  BY <1>2
<1> DEFINE Places == 1..Len(more)
<1>9. Places = 1..(m + 1)
  BY <1>8
<1> HIDE DEF Places
<1>10. /\ to \in [Places -> {k \in 1..n : list[k] \notin S}]
       /\ \A j \in Places : more[j] = list[to[j]]
       /\ \A j, k \in Places : j < k => to[j] < to[k]
       /\ \A k \in 1..n : list[k] \notin S => \E j \in Places : to[j] = k
  BY <1>4, <1>5, <1>6, <1>7, <1>9, Zenon
<1>11. RestOf(more, list, S, n)
  BY <1>10, Zenon DEF RestOf, Places
<1> QED
  BY <1>11 DEF more

\* What a purge keeps of a list: by the least number of elements of which it
\* would keep something else.
LEMMA KeptRest ==
    ASSUME NEW T, NEW S, NEW list \in Seq(T),
           NEW kept, kept = [n \in Nat |-> Kept(kept, list, S, n)]
    PROVE  /\ kept[Len(list)] \in Seq(T \ S)
           /\ RestOf(kept[Len(list)], list, S, Len(list))
<1> DEFINE Right(n) == kept[n] \in Seq(T \ S) /\ RestOf(kept[n], list, S, n)
           Not == {n \in 0..Len(list) : ~ Right(n)}
<1>1. \A n \in Nat : kept[n] = Kept(kept, list, S, n)
  OBVIOUS
<1>2. Right(0)
  <2>1. kept[0] = << >>
    BY <1>1 DEF Kept
  <2>2. << >> \in Seq(T \ S)
    OBVIOUS
  <2>3. RestOf(<< >>, list, S, 0)
    BY RestOfNone, Zenon
  <2> QED
    BY <2>1, <2>2, <2>3, Zenon
<1>3. ASSUME NEW n \in 1..Len(list), Right(n - 1) PROVE Right(n)
  <2>1. list[n] \in T /\ n \in Nat \ {0} /\ kept[n - 1] \in Seq(T)
    BY <1>3
  <2>2. CASE list[n] \in S
    <3>1. kept[n] = kept[n - 1]
      BY <1>1, <2>2 DEF Kept
    <3> QED
      BY <1>3, <2>1, <2>2, <3>1, RestSkips
  <2>3. CASE list[n] \notin S
    <3>1. kept[n] = Append(kept[n - 1], list[n])
      BY <1>1, <2>3, SMTT(30) DEF Kept
    <3>2. Append(kept[n - 1], list[n]) \in Seq(T \ S)
      BY <1>3, <2>1, <2>3
    <3> QED
      BY <1>3, <2>1, <2>3, <3>1, <3>2, RestAdds
  <2> QED
    BY <2>2, <2>3
<1> HIDE DEF Right
<1>4. ASSUME Not # {} PROVE FALSE
  <2>1. Not \in SUBSET Nat
    OBVIOUS
  <2> HIDE DEF Not
  <2>2. PICK n \in Not : \A m \in Not : n <= m
    BY <1>4, <2>1, LeastElement
  <2> USE DEF Not
  <2>3. n \in 1..Len(list)
    BY <1>2, <2>2
  <2>4. n - 1 \notin Not /\ n - 1 \in 0..Len(list)
    BY <2>2, <2>3
  <2> QED
    BY <1>3, <2>2, <2>3, <2>4
<1>5. Right(Len(list))
  BY <1>4
<1> QED
  BY <1>5 DEF Right

\* What stays of a list are its items that are not among those that went, in
\* their order.
LEMMA WithoutRest ==
    ASSUME NEW T, NEW S, NEW list \in Seq(T)
    PROVE  /\ Without(list, S) \in Seq(T \ S)
           /\ RestOf(Without(list, S), list, S, Len(list))
<1> DEFINE kept == CHOOSE f : f = [n \in Nat |-> Kept(f, list, S, n)]
<1>1. PICK f : Keeps(T, list, S, Len(list), f)
  BY KeepsAll
<1> DEFINE g == [n \in Nat |-> IF n <= Len(list) THEN f[n] ELSE << >>]
<1>2. g \in [Nat -> Seq(T \ S)]
  BY <1>1 DEF Keeps
<1>3. ASSUME NEW n \in Nat PROVE g[n] = Kept(g, list, S, n)
  <2>1. CASE n <= Len(list)
    <3>1. g[n] = f[n] /\ f[n] = Kept(f, list, S, n)
      BY <1>1, <2>1 DEF Keeps
    <3>2. n # 0 => g[n - 1] = f[n - 1]
      BY <2>1
    <3> HIDE DEF g
    <3> QED
      BY <3>1, <3>2 DEF Kept
  <2>2. CASE ~ (n <= Len(list))
    BY <2>2 DEF Kept
  <2> QED
    BY <2>1, <2>2
<1> HIDE DEF g
<1>4. g = [n \in Nat |-> Kept(g, list, S, n)]
  BY <1>2, <1>3
<1>5. kept = [n \in Nat |-> Kept(kept, list, S, n)]
  BY <1>4
<1>6. Without(list, S) = kept[Len(list)]
  BY DEF Without
<1> HIDE DEF kept
<1>7. kept[Len(list)] \in Seq(T \ S) /\ RestOf(kept[Len(list)], list, S, Len(list))
  BY <1>5, KeptRest
<1> QED
  BY <1>6, <1>7
-----------------------------------------------------------------------------
\* The parent of an item in the tree is in the tree.
Closed ==
    /\ HeadItem \in items
    /\ \A i \in items \ {HeadItem} : Parent[i] \in items

NavigationInv ==
    /\ items \subseteq Items /\ Closed
    /\ current \in items \cup {NoItem}
    /\ targets_past \in Seq(items) /\ targets_future \in Seq(items)
    /\ enabled \subseteq Buttons
    /\ ButtonsMatchHistory

\* What may go at once: with every item everything under it.
Prunes(S) ==
    /\ S \subseteq Items \ {HeadItem}
    /\ \A i \in Items \ {HeadItem} : Parent[i] \in S => i \in S

LEMMA SubtreePrunes ==
    ASSUME NEW i \in Items
    PROVE  /\ Prunes(Below[i])
           /\ i # HeadItem => Prunes({i} \cup Below[i]) /\ Parent[i] \notin {i} \cup Below[i]
BY NavigationAssumption DEF Prunes

LEMMA LargerLists ==
    ASSUME NEW S, NEW T, S \subseteq T, NEW list \in Seq(S)
    PROVE  list \in Seq(T)
OBVIOUS

LEMMA PurgeInv ==
    ASSUME NavigationInv, NEW S, Prunes(S),
           NEW cur \in items \cup {NoItem}, NEW past \in Seq(items),
           NEW future \in Seq(items), Purge(S, cur, past, future)
    PROVE  NavigationInv'
<1>1. items' = items \ S
  BY DEF Purge
<1>2. items' \subseteq Items /\ Closed'
  BY <1>1, NavigationAssumption DEF NavigationInv, Closed, Prunes
<1>3. current' \in items' \cup {NoItem}
  BY <1>1 DEF Purge
<1>4. targets_past' \in Seq(items') /\ targets_future' \in Seq(items')
  BY <1>1, WithoutRest DEF Purge
<1>5. enabled' \subseteq Buttons /\ ButtonsMatchHistory'
  BY DEF Purge, Enabled, Buttons, ButtonsMatchHistory
<1> QED
  BY <1>2, <1>3, <1>4, <1>5 DEF NavigationInv

LEMMA LeavingType ==
    ASSUME NavigationInv
    PROVE  PastAfterLeaving \in Seq(items)
BY DEF NavigationInv, PastAfterLeaving

LEMMA RemoveRowsInv ==
    ASSUME NavigationInv, NEW S, Prunes(S), NEW from, NEW gives \in items,
           RemoveRows(S, from, gives)
    PROVE  NavigationInv'
<1>1. << >> \in Seq(items)
  OBVIOUS
<1>2. CASE current \in from
  BY <1>1, <1>2, LeavingType, PurgeInv DEF RemoveRows
<1>3. CASE current \notin from
  BY <1>3, PurgeInv DEF RemoveRows, NavigationInv
<1> QED
  BY <1>2, <1>3

LEMMA SetCurrentScopeInv ==
    ASSUME NavigationInv, NEW i, SetCurrentScope(i)
    PROVE  NavigationInv'
<1>1. items' = items /\ current' \in items
  BY DEF SetCurrentScope
<1>2. targets_past' \in Seq(items) /\ targets_future' \in Seq(items)
  BY LeavingType DEF SetCurrentScope
<1>3. enabled' \subseteq Buttons /\ ButtonsMatchHistory'
  BY DEF SetCurrentScope, Enabled, Buttons, ButtonsMatchHistory
<1> QED
  BY <1>1, <1>2, <1>3 DEF NavigationInv, Closed

LEMMA NavigationStep ==
    ASSUME NavigationInv, [Next]_vars
    PROVE  NavigationInv'
<1>1. ASSUME NEW i \in Items \ {HeadItem}, AddItem(i)
      PROVE  NavigationInv'
  <2>1. items' = items \cup {i} /\ Parent[i] \in items
    BY <1>1 DEF AddItem
  <2>2. items' \subseteq Items /\ Closed'
    BY <2>1, NavigationAssumption DEF NavigationInv, Closed
  <2>3. targets_past' \in Seq(items') /\ targets_future' \in Seq(items')
    BY <1>1, <2>1, LargerLists DEF AddItem, NavigationInv
  <2> QED
    BY <1>1, <2>1, <2>2, <2>3 DEF AddItem, NavigationInv, ButtonsMatchHistory
<1>2. ASSUME NEW i \in Items \ {HeadItem}, DeleteItem(i)
      PROVE  NavigationInv'
  <2>1. Parent[i] \in items
    BY <1>2 DEF DeleteItem, NavigationInv, Closed
  <2>2. Prunes({i} \cup Below[i])
    BY SubtreePrunes
  <2> QED
    BY <1>2, <2>1, <2>2, RemoveRowsInv DEF DeleteItem
<1>3. ASSUME NEW i \in Items, SetCurrentScope(i)
      PROVE  NavigationInv'
  BY <1>3, SetCurrentScopeInv
<1>4. ASSUME NEW i \in Items, DeleteChildren(i)
      PROVE  NavigationInv'
  BY <1>4, SubtreePrunes, RemoveRowsInv DEF DeleteChildren
<1>5. CASE NavigateUp
  BY <1>5, SetCurrentScopeInv DEF NavigateUp
<1>6. CASE NavigateBack
  <2>1. targets_past # << >> /\ current \in items
    BY <1>6 DEF NavigateBack, NavigationInv, ButtonsMatchHistory
  <2>2. items' = items /\ current' \in items
    BY <1>6, <2>1 DEF NavigateBack, NavigationInv, Last
  <2>3. targets_past' \in Seq(items)
    BY <1>6, <2>1 DEF NavigateBack, NavigationInv, Front
  <2>4. targets_future' \in Seq(items)
    BY <1>6, <2>1 DEF NavigateBack, NavigationInv
  <2>5. enabled' \subseteq Buttons /\ ButtonsMatchHistory'
    BY <1>6 DEF NavigateBack, Enabled, Buttons, ButtonsMatchHistory
  <2> QED
    BY <2>2, <2>3, <2>4, <2>5 DEF NavigationInv, Closed
<1>7. CASE NavigateForward
  <2>1. targets_future # << >> /\ current \in items
    BY <1>7 DEF NavigateForward, NavigationInv, ButtonsMatchHistory
  <2>2. items' = items /\ current' \in items
    BY <1>7, <2>1 DEF NavigateForward, NavigationInv
  <2>3. targets_past' \in Seq(items) /\ targets_future' \in Seq(items)
    BY <1>7, <2>1 DEF NavigateForward, NavigationInv
  <2>4. enabled' \subseteq Buttons /\ ButtonsMatchHistory'
    BY <1>7 DEF NavigateForward, Enabled, Buttons, ButtonsMatchHistory
  <2> QED
    BY <2>2, <2>3, <2>4 DEF NavigationInv, Closed
<1>8. CASE UNCHANGED vars
  BY <1>8 DEF vars, NavigationInv, Closed, ButtonsMatchHistory
<1> QED
  BY <1>1, <1>2, <1>3, <1>4, <1>5, <1>6, <1>7, <1>8 DEF Next

LEMMA NavigationInvImplies ==
    ASSUME NavigationInv
    PROVE  TypeOK /\ HistoryShown
<1>1. targets_past \in Seq(Items) /\ targets_future \in Seq(Items)
  BY LargerLists DEF NavigationInv
<1>2. Range(targets_past) \subseteq items /\ Range(targets_future) \subseteq items
  BY DEF NavigationInv, Range
<1> QED
  BY <1>1, <1>2 DEF NavigationInv, TypeOK, HistoryShown

LEMMA NavigationInit == Init => NavigationInv
BY NavigationAssumption
DEF Init, NavigationInv, Closed, ButtonsMatchHistory, Buttons

\* The lists hold items of the console, and the current item is one or none:
\* what leaves the current item only ever appends an item to the past, although
\* the current item may be none once the last one was removed.
THEOREM NavigationTypeOK == Spec => []TypeOK
<1>1. NavigationInv /\ [Next]_vars => NavigationInv'
  BY NavigationStep
<1>2. NavigationInv => TypeOK
  BY NavigationInvImplies
<1> QED
  BY NavigationInit, <1>1, <1>2, PTL DEF Spec

\* Back and Forward never lead to an item that was removed, and the current
\* item is in the tree: on_scope_items_about_to_be_removed() purges both lists
\* of everything that goes, whatever goes.
THEOREM NavigationHistoryShown == Spec => []HistoryShown
<1>1. NavigationInv /\ [Next]_vars => NavigationInv'
  BY NavigationStep
<1>2. NavigationInv => HistoryShown
  BY NavigationInvImplies
<1> QED
  BY NavigationInit, <1>1, <1>2, PTL DEF Spec

\* Back and Forward are enabled exactly when their lists are not empty: their
\* handlers never take the end of an empty list.
THEOREM NavigationButtons == Spec => []ButtonsMatchHistory
<1>1. NavigationInv /\ [Next]_vars => NavigationInv'
  BY NavigationStep
<1>2. NavigationInv => ButtonsMatchHistory
  BY DEF NavigationInv
<1> QED
  BY NavigationInit, <1>1, <1>2, PTL DEF Spec
-----------------------------------------------------------------------------
\* The trail that two lists and a current item stand for.
TrailOf(past, cur, future) ==
    [visited |-> past \o <<cur>> \o future, at |-> Len(past) + 1]

\* TrailOf(past, cur, future) has past before the cursor and future after it.
TrailParts(past, cur, future) ==
    LET t == TrailOf(past, cur, future)
    IN  /\ t.at \in DOMAIN t.visited
        /\ Trail!Here(t) = cur
        /\ Trail!Before(t) = past
        /\ Trail!After(t) = future
        /\ t.at > 1 <=> past # << >>
        /\ t.at < Len(t.visited) <=> future # << >>

LEMMA Joined ==
    ASSUME NEW T, NEW past \in Seq(T), NEW cur \in T, NEW future \in Seq(T)
    PROVE  LET all == past \o <<cur>> \o future
           IN  /\ all \in Seq(T)
               /\ Len(all) = Len(past) + 1 + Len(future)
               /\ \A k \in 1..Len(past) : all[k] = past[k]
               /\ all[Len(past) + 1] = cur
               /\ \A k \in 1..Len(future) : all[Len(past) + 1 + k] = future[k]
<1> DEFINE some == past \o <<cur>>
<1>1. /\ some \in Seq(T) /\ Len(some) = Len(past) + 1
      /\ \A k \in 1..Len(past) : some[k] = past[k]
      /\ some[Len(past) + 1] = cur
  OBVIOUS
<1> HIDE DEF some
<1>2. /\ some \o future \in Seq(T)
      /\ Len(some \o future) = Len(some) + Len(future)
      /\ \A k \in 1..Len(some) : (some \o future)[k] = some[k]
      /\ \A k \in 1..Len(future) : (some \o future)[Len(some) + k] = future[k]
  <2>1. some \in Seq(T)
    BY <1>1
  <2> QED
    BY <2>1, ConcatProperties
<1>3. /\ Len(past) \in Nat
      /\ Len(past) + 1 \in 1..Len(some)
      /\ \A k \in 1..Len(past) : k \in 1..Len(some)
  BY <1>1
<1> QED
  BY <1>1, <1>2, <1>3 DEF some

LEMMA Parted ==
    ASSUME NEW T, NEW past \in Seq(T), NEW cur \in T, NEW future \in Seq(T)
    PROVE  TrailParts(past, cur, future)
<1> DEFINE t == TrailOf(past, cur, future)
           all == past \o <<cur>> \o future
           p == Len(past)
           f == Len(future)
<1>1. t.visited = all /\ t.at = p + 1
  BY DEF TrailOf
<1>2. /\ all \in Seq(T) /\ Len(all) = p + 1 + f
      /\ \A k \in 1..p : all[k] = past[k]
      /\ all[p + 1] = cur
      /\ \A k \in 1..f : all[p + 1 + k] = future[k]
  BY Joined
<1>3. p \in Nat /\ f \in Nat /\ DOMAIN all = 1..(p + 1 + f)
  BY <1>2
<1>4. (past # << >> <=> p > 0) /\ (future # << >> <=> f > 0)
  OBVIOUS
<1>5. SubSeq(all, 1, p) = past
  <2>1. /\ SubSeq(all, 1, p) \in Seq(T) /\ Len(SubSeq(all, 1, p)) = p
        /\ \A k \in 1..p : SubSeq(all, 1, p)[k] = all[k]
    BY <1>2, <1>3, SubSeqProperties
  <2> QED
    BY <1>2, <2>1, SeqEqual
<1>6. SubSeq(all, p + 2, p + 1 + f) = future
  <2> DEFINE rest == SubSeq(all, p + 2, p + 1 + f)
  <2>1. /\ p + 2 \in 1..(Len(all) + 1) /\ p + 1 + f \in (p + 1)..Len(all)
        /\ p + 1 = p + 2 - 1 /\ p + 1 + f - (p + 2) + 1 = f
    BY <1>2, <1>3
  <2>2. /\ rest \in Seq(T) /\ Len(rest) = f
        /\ \A k \in 1..f : rest[k] = all[p + 2 + k - 1]
    BY <1>2, <2>1, SubSeqProperties
  <2>3. \A k \in 1..f : p + 2 + k - 1 = p + 1 + k
    BY <1>3
  <2> QED
    BY <1>2, <2>2, <2>3, SeqEqual
<1> HIDE DEF t, all, p, f
<1>7. t.at \in DOMAIN t.visited /\ Trail!Here(t) = cur
  BY <1>1, <1>2, <1>3 DEF Trail!Here
<1>8. Trail!Before(t) = past
  <2>1. t.at - 1 = p
    BY <1>1, <1>3
  <2> QED
    BY <1>1, <1>5, <2>1 DEF Trail!Before
<1>9. Trail!After(t) = future
  <2>1. t.at + 1 = p + 2 /\ Len(t.visited) = p + 1 + f
    BY <1>1, <1>2, <1>3
  <2> QED
    BY <1>1, <1>6, <2>1 DEF Trail!After
<1>10. (t.at > 1 <=> past # << >>) /\ (t.at < Len(t.visited) <=> future # << >>)
  BY <1>1, <1>2, <1>3, <1>4
<1> QED
  BY <1>7, <1>8, <1>9, <1>10 DEF TrailParts, t

LEMMA OneStepBack ==
    ASSUME NEW T, NEW past \in Seq(T), NEW cur \in T, NEW future \in Seq(T),
           past # << >>
    PROVE  TrailOf(Front(past), Last(past), <<cur>> \o future)
             = [TrailOf(past, cur, future) EXCEPT !.at = @ - 1]
<1> DEFINE p == Len(past)
<1>1. /\ p \in Nat /\ p > 0 /\ Last(past) \in T /\ Last(past) = past[p]
      /\ Front(past) \in Seq(T) /\ Len(Front(past)) = p - 1
      /\ \A k \in 1..(p - 1) : Front(past)[k] = past[k]
  <2>1. p \in Nat /\ p > 0 /\ p - 1 \in Nat /\ \A k \in 1..p : past[k] \in T
    OBVIOUS
  <2> HIDE DEF p
  <2>2. /\ SubSeq(past, 1, p - 1) \in Seq(T) /\ Len(SubSeq(past, 1, p - 1)) = p - 1
        /\ \A k \in 1..(p - 1) : SubSeq(past, 1, p - 1)[k] = past[k]
    <3>1. 1 \in Int /\ p - 1 \in Int /\ \A k \in 1..(p - 1) : past[k] \in T
      BY <2>1
    <3>2. /\ SubSeq(past, 1, p - 1) \in Seq(T)
          /\ Len(SubSeq(past, 1, p - 1)) = IF 1 <= p - 1 THEN p - 1 - 1 + 1 ELSE 0
          /\ \A k \in 1..(p - 1 - 1 + 1) : SubSeq(past, 1, p - 1)[k] = past[1 + k - 1]
      BY <3>1, SubSeqProperties
    <3>3. p - 1 - 1 + 1 = p - 1 /\ \A k \in 1..(p - 1) : 1 + k - 1 = k
      BY <2>1
    <3> QED
      BY <2>1, <3>2, <3>3
  <2> QED
    BY <2>1, <2>2 DEF Last, Front, p
<1>2. /\ <<cur>> \o future \in Seq(T) /\ <<cur>> \in Seq(T)
      /\ Len(<<cur>> \o future) = 1 + Len(future)
  OBVIOUS
<1>3. Front(past) \o <<Last(past)>> = past
  <2>1. /\ Front(past) \o <<Last(past)>> \in Seq(T)
        /\ Len(Front(past) \o <<Last(past)>>) = p
        /\ \A k \in 1..(p - 1) : (Front(past) \o <<Last(past)>>)[k] = past[k]
        /\ (Front(past) \o <<Last(past)>>)[p] = past[p]
    BY <1>1
  <2>2. \A k \in 1..p : k \in 1..(p - 1) \/ k = p
    BY <1>1
  <2> QED
    BY <2>1, <2>2, SeqEqual
<1>4. past \o (<<cur>> \o future) = past \o <<cur>> \o future
  BY <1>2, ConcatAssociative
<1>5. Len(Front(past)) + 1 = (p + 1) - 1
  BY <1>1
<1> DEFINE all == past \o <<cur>> \o future
<1>6. Front(past) \o <<Last(past)>> \o (<<cur>> \o future) = all
  BY <1>3, <1>4
<1> HIDE DEF all
<1>7. TrailOf(Front(past), Last(past), <<cur>> \o future)
        = [visited |-> all, at |-> (p + 1) - 1]
  BY <1>5, <1>6 DEF TrailOf
<1>8. TrailOf(past, cur, future) = [visited |-> all, at |-> p + 1]
  BY DEF TrailOf, all
<1> HIDE DEF p
<1> QED
  BY <1>7, <1>8

LEMMA OneStepForward ==
    ASSUME NEW T, NEW past \in Seq(T), NEW cur \in T, NEW future \in Seq(T),
           future # << >>
    PROVE  TrailOf(Append(past, cur), Head(future), Tail(future))
             = [TrailOf(past, cur, future) EXCEPT !.at = @ + 1]
<1>1. /\ Head(future) \in T /\ Tail(future) \in Seq(T) /\ <<Head(future)>> \in Seq(T)
      /\ <<cur>> \in Seq(T) /\ past \o <<cur>> \in Seq(T)
  OBVIOUS
<1>2. Append(past, cur) = past \o <<cur>>
  OBVIOUS
<1>3. <<Head(future)>> \o Tail(future) = future
  OBVIOUS
<1>4. (past \o <<cur>>) \o <<Head(future)>> \o Tail(future) = past \o <<cur>> \o future
  BY <1>1, <1>3, ConcatAssociative
<1>5. Len(Append(past, cur)) = Len(past) + 1
  OBVIOUS
<1> DEFINE all == past \o <<cur>> \o future
           p == Len(past) + 1
<1>6. Append(past, cur) \o <<Head(future)>> \o Tail(future) = all
  BY <1>2, <1>4
<1> HIDE DEF all
<1>7. TrailOf(Append(past, cur), Head(future), Tail(future))
        = [visited |-> all, at |-> p + 1]
  BY <1>5, <1>6 DEF TrailOf
<1>8. TrailOf(past, cur, future) = [visited |-> all, at |-> p]
  BY DEF TrailOf, all
<1> HIDE DEF p
<1> QED
  BY <1>7, <1>8

LEMMA LeadingTo ==
    ASSUME NEW T, NEW past \in Seq(T), NEW i \in T
    PROVE  TrailOf(past, i, << >>) = [visited |-> Append(past, i), at |-> Len(past) + 1]
<1>1. past \o <<i>> \in Seq(T) /\ past \o <<i>> = Append(past, i)
  OBVIOUS
<1>2. past \o <<i>> \o << >> = Append(past, i)
  BY <1>1, ConcatEmptySeq
<1> QED
  BY <1>2 DEF TrailOf

LEMMA WithoutIsRest ==
    ASSUME NEW T, NEW S, NEW list \in Seq(T)
    PROVE  Trail!IsRest(Without(list, S), list, S)
<1> DEFINE rest == Without(list, S)
<1>1. rest \in Seq(T \ S) /\ RestOf(rest, list, S, Len(list))
  BY WithoutRest
<1> HIDE DEF rest
<1> DEFINE R == 1..Len(rest)
           L == 1..Len(list)
<1>2. DOMAIN rest = R /\ DOMAIN list = L
  BY <1>1
<1>3. PICK from \in [R -> {k \in L : list[k] \notin S}] :
          /\ \A j \in R : rest[j] = list[from[j]]
          /\ \A j, k \in R : j < k => from[j] < from[k]
          /\ \A k \in L : list[k] \notin S => \E j \in R : from[j] = k
  BY <1>1, Zenon DEF RestOf
<1> HIDE DEF R, L
<1>4. /\ from \in [DOMAIN rest -> {k \in DOMAIN list : list[k] \notin S}]
      /\ \A j \in DOMAIN rest : rest[j] = list[from[j]]
      /\ \A j, k \in DOMAIN rest : j < k => from[j] < from[k]
      /\ \A k \in DOMAIN list : list[k] \notin S => \E j \in DOMAIN rest : from[j] = k
  BY <1>2, <1>3, Zenon
<1>5. Trail!IsRest(rest, list, S)
  BY <1>4, Zenon DEF Trail!IsRest
<1> QED
  BY <1>5 DEF rest

Places == Items \cup {NoItem}

CurrentTrail == TrailOf(targets_past, current, targets_future)

LEMMA TypedTrail ==
    ASSUME NEW past \in Seq(Places), NEW cur \in Places, NEW future \in Seq(Places)
    PROVE  TrailOf(past, cur, future) \in [visited : Seq(Places), at : Nat]
<1>1. past \o <<cur>> \o future \in Seq(Places) /\ Len(past) + 1 \in Nat
  BY Joined
<1> QED
  BY <1>1 DEF TrailOf

LEMMA TypedLists ==
    ASSUME NavigationInv
    PROVE  /\ targets_past \in Seq(Places) /\ targets_future \in Seq(Places)
           /\ current \in Places
           /\ \A list \in Seq(items) : list \in Seq(Places)
<1>1. items \subseteq Places
  BY DEF NavigationInv, Places
<1>2. \A list \in Seq(items) : list \in Seq(Places)
  BY <1>1, LargerLists
<1> QED
  BY <1>1, <1>2 DEF NavigationInv, Places

\* A purge takes out of the trail what goes out of the tree.
LEMMA PurgeForgets ==
    ASSUME NavigationInv, NavigationInv', NEW S,
           NEW cur \in items \cup {NoItem}, NEW past \in Seq(items),
           NEW future \in Seq(items), Purge(S, cur, past, future)
    PROVE  Trail!Forgets(TrailOf(past, cur, future), S, CurrentTrail')
<1> DEFINE t == TrailOf(past, cur, future)
           u == TrailOf(targets_past', current', targets_future')
<1>1. /\ targets_past' \in Seq(Places) /\ targets_future' \in Seq(Places)
      /\ current' \in Places
  <2>1. items' \subseteq Places
    BY DEF NavigationInv, Places
  <2> QED
    BY <2>1, LargerLists DEF NavigationInv, Places
<1>2. past \in Seq(Places) /\ future \in Seq(Places) /\ cur \in Places
  BY TypedLists DEF NavigationInv, Places
<1>3. u \in [visited : Seq(Places), at : Nat]
  BY <1>1, TypedTrail
<1>4. TrailParts(past, cur, future)
  BY <1>2, Parted
<1>5. TrailParts(targets_past', current', targets_future')
  BY <1>1, Parted
<1>6. Trail!Here(t) = cur /\ Trail!Before(t) = past /\ Trail!After(t) = future
  BY <1>4 DEF TrailParts
<1>7. /\ u.at \in DOMAIN u.visited
      /\ Trail!Here(u) = current'
      /\ Trail!Before(u) = targets_past' /\ Trail!After(u) = targets_future'
  BY <1>5 DEF TrailParts
<1>8. /\ targets_past' = Without(past, S) /\ targets_future' = Without(future, S)
      /\ current' = IF cur \in S THEN NoItem ELSE cur
  BY DEF Purge
<1>9. CurrentTrail' = u
  BY DEF CurrentTrail
<1> HIDE DEF t, u
<1>10. /\ Trail!IsRest(Trail!Before(u), Trail!Before(t), S)
       /\ Trail!IsRest(Trail!After(u), Trail!After(t), S)
  BY <1>2, <1>6, <1>7, <1>8, WithoutIsRest
<1>11. Trail!Here(u) = IF Trail!Here(t) \in S THEN NoItem ELSE Trail!Here(t)
  BY <1>6, <1>7, <1>8
<1>12. Trail!Forgets(t, S, u)
  BY <1>3, <1>7, <1>10, <1>11 DEF Trail!Forgets, Places
<1> QED
  BY <1>9, <1>12 DEF t

\* The trail on which another item has been made the current one.
LEMMA VisitedTrail ==
    ASSUME NavigationInv, NEW i \in items
    PROVE  Trail!Visited(CurrentTrail, i) = TrailOf(PastAfterLeaving, i, << >>)
<1>1. TrailParts(targets_past, current, targets_future)
  BY TypedLists, Parted
<1>2. Trail!Here(CurrentTrail) = current /\ Trail!Before(CurrentTrail) = targets_past
  BY <1>1 DEF TrailParts, CurrentTrail
<1>3. Trail!Visited(CurrentTrail, i)
        = [visited |-> Append(PastAfterLeaving, i), at |-> Len(PastAfterLeaving) + 1]
  BY <1>2 DEF Trail!Visited, PastAfterLeaving
<1>4. PastAfterLeaving \in Seq(items)
  BY LeavingType
<1> QED
  BY <1>3, <1>4, LeadingTo

LEMMA RemoveRowsForgets ==
    ASSUME NavigationInv, NavigationInv', NEW S \in SUBSET Items,
           NEW from \in SUBSET S, NEW gives \in items \ S,
           RemoveRows(S, from, gives)
    PROVE  Trail!Forget
<1> DEFINE t == CurrentTrail
           u == CurrentTrail'
<1>1. t = TrailOf(targets_past, current, targets_future)
  BY DEF CurrentTrail
<1>2. TrailParts(targets_past, current, targets_future)
  BY TypedLists, Parted
<1>3. Trail!Here(t) = current
  BY <1>1, <1>2 DEF TrailParts
<1>4. CASE current \in from
  <2>1. Purge(S, gives, PastAfterLeaving, << >>)
    BY <1>4 DEF RemoveRows
  <2>2. << >> \in Seq(items) /\ PastAfterLeaving \in Seq(items)
    BY LeavingType
  <2>3. Trail!Forgets(TrailOf(PastAfterLeaving, gives, << >>), S, u)
    BY <2>1, <2>2, PurgeForgets
  <2>4. Trail!Forgets(Trail!Visited(t, gives), S, u)
    <3>1. Trail!Visited(CurrentTrail, gives) = TrailOf(PastAfterLeaving, gives, << >>)
      BY VisitedTrail
    <3> QED
      BY <2>3, <3>1
  <2>5. gives \in Items \ S
    BY DEF NavigationInv
  <2> QED
    BY <1>3, <1>4, <2>4, <2>5 DEF Trail!Forget, CurrentTrail, TrailOf
<1>5. CASE current \notin from
  <2>1. Purge(S, current, targets_past, targets_future)
    BY <1>5 DEF RemoveRows
  <2>2. Trail!Forgets(t, S, u)
    BY <1>1, <2>1, PurgeForgets DEF NavigationInv
  <2> QED
    BY <2>2 DEF Trail!Forget, CurrentTrail, TrailOf
<1> QED
  BY <1>4, <1>5

LEMMA TrailStep ==
    ASSUME NavigationInv, NavigationInv', [Next]_vars
    PROVE  Trail!Next \/ CurrentTrail' = CurrentTrail
<1>1. TrailParts(targets_past, current, targets_future)
  BY TypedLists, Parted
<1>2. /\ Trail!Here(CurrentTrail) = current
      /\ CurrentTrail.at > 1 <=> targets_past # << >>
      /\ CurrentTrail.at < Len(CurrentTrail.visited) <=> targets_future # << >>
  BY <1>1 DEF TrailParts, CurrentTrail
<1>3. ASSUME NEW i, SetCurrentScope(i)
      PROVE  Trail!Visit
  <2>1. i \in items \ {current} /\ i \in Items
    BY <1>3 DEF SetCurrentScope, NavigationInv
  <2>2. CurrentTrail' = TrailOf(PastAfterLeaving, i, << >>)
    BY <1>3 DEF SetCurrentScope, CurrentTrail
  <2>3. CurrentTrail' = Trail!Visited(CurrentTrail, i)
    BY <2>1, <2>2, VisitedTrail
  <2> QED
    BY <1>2, <2>1, <2>3 DEF Trail!Visit, CurrentTrail, TrailOf
<1>4. ASSUME NEW i \in Items \ {HeadItem}, AddItem(i)
      PROVE  CurrentTrail' = CurrentTrail
  BY <1>4 DEF AddItem, CurrentTrail
<1>5. ASSUME NEW i \in Items \ {HeadItem}, DeleteItem(i)
      PROVE  Trail!Forget
  <2>1. /\ {i} \cup Below[i] \in SUBSET Items /\ {i} \in SUBSET ({i} \cup Below[i])
        /\ Parent[i] \notin {i} \cup Below[i]
    BY NavigationAssumption, SubtreePrunes
  <2>2. Parent[i] \in items
    BY <1>5 DEF DeleteItem, NavigationInv, Closed
  <2> QED
    BY <1>5, <2>1, <2>2, RemoveRowsForgets DEF DeleteItem
<1>6. ASSUME NEW i \in Items, DeleteChildren(i)
      PROVE  Trail!Forget
  <2>1. /\ Below[i] \in SUBSET Items
        /\ {j \in Below[i] : Parent[j] = i} \in SUBSET Below[i]
        /\ i \notin Below[i]
    BY NavigationAssumption
  <2> QED
    BY <1>6, <2>1, RemoveRowsForgets DEF DeleteChildren
<1>7. CASE NavigateBack
  <2>1. targets_past # << >> /\ current # NoItem
    BY <1>7 DEF NavigateBack, NavigationInv, ButtonsMatchHistory
  <2>2. CurrentTrail' = [CurrentTrail EXCEPT !.at = @ - 1]
    BY <1>7, <2>1, TypedLists, OneStepBack DEF NavigateBack, CurrentTrail
  <2> QED
    BY <1>2, <2>1, <2>2 DEF Trail!Next, Trail!GoBack, CurrentTrail, TrailOf
<1>8. CASE NavigateForward
  <2>1. targets_future # << >> /\ current # NoItem
    BY <1>8 DEF NavigateForward, NavigationInv, ButtonsMatchHistory
  <2>2. CurrentTrail' = [CurrentTrail EXCEPT !.at = @ + 1]
    BY <1>8, <2>1, TypedLists, OneStepForward DEF NavigateForward, CurrentTrail
  <2> QED
    BY <1>2, <2>1, <2>2 DEF Trail!Next, Trail!GoForward, CurrentTrail, TrailOf
<1>9. CASE NavigateUp
  BY <1>3, <1>9 DEF NavigateUp, Trail!Next
<1>10. CASE UNCHANGED vars
  BY <1>10 DEF vars, CurrentTrail
<1> QED
  BY <1>3, <1>4, <1>5, <1>6, <1>7, <1>8, <1>9, <1>10 DEF Next, Trail!Next

\* Back and Forward follow a trail: every handler moves the cursor by one,
\* starts a new future from the current item, or forgets what left the tree,
\* wherever it occurs, and leaves the rest of the trail in place.
THEOREM NavigationFollowsTrail == Spec => FollowsTrail
<1> DEFINE trail == [visited |-> targets_past \o <<current>> \o targets_future,
                     at |-> Len(targets_past) + 1]
<1>1. Init => Trail!Init
  BY NavigationAssumption DEF Init, Trail!Init
<1>2. NavigationInv /\ [Next]_vars => NavigationInv'
  BY NavigationStep
<1>3. NavigationInv /\ NavigationInv' /\ [Next]_vars => [Trail!Next]_trail
  BY TrailStep DEF CurrentTrail, TrailOf
<1>4. Spec => Trail!Init /\ [][Trail!Next]_trail
  BY NavigationInit, <1>1, <1>2, <1>3, PTL DEF Spec
<1> QED
  BY <1>4 DEF FollowsTrail, Trail!Spec
===============================================================================
