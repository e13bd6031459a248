------------------------- MODULE ConsoleSearch_proofs -------------------------
(***************************************************************************)
(* For any objects, searches and edits: an item is marked as fetching      *)
(* exactly while the newest search for it is under way, and everything     *)
(* keeps its type.                                                         *)
(***************************************************************************)
EXTENDS ConsoleSearch, TLAPS

ItemRecords ==
    [valid : BOOLEAN, was_fetched : BOOLEAN, fetching : BOOLEAN,
     search_id : Nat, rows : [Objects -> Nat]]

SearchTypes ==
    /\ children \subseteq Objects
    /\ item \in ItemRecords
    /\ searches \in [Slots -> [live : BOOLEAN, id : Nat]]
    /\ id_max \in Nat
    /\ \A s \in Slots : Thread(s) \in Search1!Threads

\* A search whose persistent index is valid has an item and a thread.
LiveInv ==
    \A s \in Slots : searches[s].live =>
        searches[s].id < id_max /\ item.valid /\ Thread(s).phase # "none"

DistinctIds ==
    \A r, s \in Slots : r # s /\ searches[r].live /\ searches[s].live =>
        searches[r].id # searches[s].id

Marked == item.fetching <=> \E s \in Slots : IsCurrent(s)

MarkInv == SearchTypes /\ LiveInv /\ DistinctIds /\ Marked

-----------------------------------------------------------------------------
LEMMA ThreadShape ==
    /\ NoThread \in Search1!Threads /\ NoThread.phase = "none"
    /\ Search1!NewThread \in Search1!Threads /\ Search1!NewThread.phase = "connect"
    /\ \A t \in Search1!Threads :
        /\ Search1!Stopped(t) \in Search1!Threads
        /\ Search1!Stopped(t).phase = t.phase
BY DEF NoThread, Search1!NoThread, Search1!NewThread, Search1!Threads, Search1!Stopped

LEMMA BecomesShape ==
    ASSUME NEW s \in Slots, NEW t, NEW q, Becomes(s, t, q)
    PROVE  /\ Thread(s)' = t /\ Events(s)' = q
           /\ \A r \in Slots \ {s} : Thread(r)' = Thread(r) /\ Events(r)' = Events(r)
BY DEF Becomes, Thread, Events, Slots

LEMMA AddedShape ==
    ASSUME NEW it \in ItemRecords, NEW S
    PROVE  /\ Added(it, S) \in ItemRecords
           /\ Added(it, S).valid = it.valid
           /\ Added(it, S).fetching = it.fetching
           /\ Added(it, S).search_id = it.search_id
BY DEF Added, ItemRecords

LEMMA WithoutRowsShape ==
    ASSUME NEW it \in ItemRecords, NEW o \in Objects
    PROVE  /\ WithoutRows(it, o) \in ItemRecords
           /\ WithoutRows(it, o).valid = it.valid
           /\ WithoutRows(it, o).fetching = it.fetching
           /\ WithoutRows(it, o).search_id = it.search_id
BY DEF WithoutRows, ItemRecords

LEMMA NewItemShape ==
    /\ NewItem \in ItemRecords /\ NewItem.valid /\ ~NewItem.fetching
    /\ NoItem \in ItemRecords /\ ~NoItem.valid /\ ~NoItem.fetching
BY DEF NewItem, NoItem, NoRows, ItemRecords

\* Steps that change the rows only, or stop a thread.
LEMMA RowsStep ==
    ASSUME MarkInv, UNCHANGED <<searches, id_max>>,
           children' \subseteq Objects, item' \in ItemRecords,
           item'.valid = item.valid, item'.fetching = item.fetching,
           item'.search_id = item.search_id,
           \A s \in Slots : /\ Thread(s)' \in Search1!Threads
                            /\ Thread(s).phase # "none" => Thread(s)'.phase # "none"
    PROVE  MarkInv'
<1>1. SearchTypes'
  BY DEF MarkInv, SearchTypes
<1>2. LiveInv' /\ DistinctIds'
  BY DEF MarkInv, LiveInv, DistinctIds
<1>3. Marked'
  BY DEF MarkInv, Marked, IsCurrent
<1> QED
  BY <1>1, <1>2, <1>3 DEF MarkInv

-----------------------------------------------------------------------------
\* A search that starts takes the item over from those before it.
LEMMA StartInv ==
    ASSUME MarkInv, NEW it \in ItemRecords, it.valid, console_object_search(it)
    PROVE  MarkInv'
<1>1. PICK s \in Slots :
        /\ Thread(s) = NoThread
        /\ Becomes(s, Search1!NewThread, << >>)
        /\ searches' = [searches EXCEPT ![s] = [live |-> TRUE, id |-> id_max]]
  BY DEF console_object_search
<1>2. /\ item' = [it EXCEPT !.fetching = TRUE, !.search_id = id_max]
      /\ id_max' = id_max + 1 /\ UNCHANGED children /\ id_max \in Nat
  BY DEF console_object_search, MarkInv, SearchTypes
<1>3. /\ item' \in ItemRecords /\ item'.valid /\ item'.fetching
      /\ item'.search_id = id_max
  BY <1>2 DEF ItemRecords
<1>4. /\ Thread(s)' = Search1!NewThread
      /\ \A r \in Slots \ {s} : Thread(r)' = Thread(r)
  BY <1>1, BecomesShape
<1>5. /\ searches' \in [Slots -> [live : BOOLEAN, id : Nat]]
      /\ searches'[s].live /\ searches'[s].id = id_max
      /\ \A r \in Slots \ {s} : searches'[r] = searches[r]
  BY <1>1, <1>2 DEF MarkInv, SearchTypes
<1>6. SearchTypes'
  BY <1>2, <1>3, <1>4, <1>5, ThreadShape DEF MarkInv, SearchTypes
<1>7. \A r \in Slots \ {s} : searches[r].live =>
            searches[r].id < id_max /\ Thread(r).phase # "none" /\ searches[r].id \in Nat
  BY DEF MarkInv, LiveInv, SearchTypes
<1>8. LiveInv'
  BY <1>2, <1>3, <1>4, <1>5, <1>7, ThreadShape DEF LiveInv
<1>9. DistinctIds'
  BY <1>2, <1>5, <1>7 DEF MarkInv, DistinctIds
<1>10. Marked'
  BY <1>3, <1>5 DEF Marked, IsCurrent
<1> QED
  BY <1>6, <1>8, <1>9, <1>10 DEF MarkInv

LEMMA StartsInv ==
    ASSUME MarkInv, Select \/ Refresh \/ EditQuery
    PROVE  MarkInv'
<1>1. item \in ItemRecords /\ NoRows \in [Objects -> Nat]
  BY DEF MarkInv, SearchTypes, NoRows
<1>2. CASE Select
  <2>1. /\ [item EXCEPT !.was_fetched = TRUE] \in ItemRecords
        /\ [item EXCEPT !.was_fetched = TRUE].valid
    BY <1>1, <1>2 DEF Select, ItemRecords
  <2> QED
    BY <1>2, <2>1, StartInv DEF Select
<1>3. CASE Refresh \/ EditQuery
  <2>1. /\ [item EXCEPT !.rows = NoRows] \in ItemRecords
        /\ [item EXCEPT !.rows = NoRows].valid
    BY <1>1, <1>3 DEF Refresh, EditQuery, ItemRecords
  <2> QED
    BY <1>3, <2>1, StartInv DEF Refresh, EditQuery
<1> QED
  BY <1>2, <1>3

-----------------------------------------------------------------------------
\* What a step of run() does: the thread keeps its type and never gets back into
\* the state it had before start(), and at most one signal is posted, a page of
\* objects or the end.
Sends(t, q, u, r) ==
    /\ u \in Search1!Threads /\ u.phase # "none"
    /\ r = q \/ \E e \in Search1!Events : r = Append(q, e)

LEMMA SameTypes ==
    /\ Search1!Threads = Search2!Threads
    /\ Search1!Pages = Search2!Pages /\ Search1!EmptyPage = Search2!EmptyPage
    /\ Search1!Finished = Search2!Finished
    /\ \A page : Search1!ResultsReady(page) = Search2!ResultsReady(page)
BY DEF Search1!Threads, Search2!Threads, Search1!Pages, Search2!Pages,
       Search1!EmptyPage, Search2!EmptyPage, Search1!Finished, Search2!Finished,
       Search1!ResultsReady, Search2!ResultsReady

LEMMA PageShape ==
    /\ Search1!EmptyPage \in Search1!Pages
    /\ \A S \in SUBSET Objects : S \subseteq children =>
            [o \in S |-> Found[o]] \in Search1!Pages
    /\ \A page \in Search1!Pages : DOMAIN page \subseteq Objects
<1>1. Search1!EmptyPage \in [{} -> Data]
  BY DEF Search1!EmptyPage
<1>2. ASSUME NEW S \in SUBSET Objects, S \subseteq children
      PROVE  [o \in S |-> Found[o]] \in [S -> Data]
  BY <1>2 DEF Found, Data
<1>3. {} \in SUBSET Objects
  OBVIOUS
<1> QED
  BY <1>1, <1>2, <1>3, SMTT(30) DEF Search1!Pages

\* A page was read: it is posted, or the display limit ends the search.
LEMMA PageSends ==
    ASSUME NEW t \in Search1!Threads, NEW q, NEW u, NEW r,
           NEW page \in Search1!Pages, NEW success \in BOOLEAN, NEW more \in BOOLEAN,
           \/ /\ u = [t EXCEPT !.phase = "ended", !.success = success,
                                !.hit_object_display_limit = TRUE]
              /\ r = q
           \/ /\ u = [t EXCEPT !.phase = "check", !.sent = t.sent \cup DOMAIN page,
                                !.success = success, !.more_pages = more]
              /\ r = Append(q, Search1!ResultsReady(page))
    PROVE  Sends(t, q, u, r)
<1> DEFINE sent == t.sent \cup DOMAIN page
<1>1. sent \in SUBSET Objects
  BY PageShape DEF Search1!Threads
<1>2. Search1!ResultsReady(page) \in Search1!Events
  BY DEF Search1!Events
<1> HIDE DEF sent
<1>3. CASE /\ u = [t EXCEPT !.phase = "ended", !.success = success,
                            !.hit_object_display_limit = TRUE]
           /\ r = q
  BY <1>3 DEF Sends, Search1!Threads
<1>4. CASE /\ u = [t EXCEPT !.phase = "check", !.sent = sent,
                            !.success = success, !.more_pages = more]
           /\ r = Append(q, Search1!ResultsReady(page))
  <2>1. u \in Search1!Threads /\ u.phase # "none"
    BY <1>1, <1>4 DEF Search1!Threads
  <2> QED
    BY <1>2, <1>4, <2>1 DEF Sends
<1> QED
  BY <1>3, <1>4 DEF sent

LEMMA Run1Sends ==
    ASSUME thread1 \in Search1!Threads, children \subseteq Objects, Run1
    PROVE  Sends(thread1, events1, thread1', events1')
<1>1. CASE Search1!SearchPage
  <2>1. Search1!Remaining \subseteq children
    BY DEF Search1!Remaining, Found
  <2>2. PICK page \in Search1!Pages, success \in BOOLEAN, more \in BOOLEAN :
          Search1!PageRead(page, success, more)
    <3>1. ASSUME NEW S \in SUBSET Search1!Remaining,
                 Search1!PageRead([o \in S |-> Found[o]], TRUE, S # Search1!Remaining)
          PROVE  \E page \in Search1!Pages, success \in BOOLEAN, more \in BOOLEAN :
                    Search1!PageRead(page, success, more)
      <4>1. [o \in S |-> Found[o]] \in Search1!Pages
        BY <2>1, PageShape
      <4>2. (S # Search1!Remaining) \in BOOLEAN
        OBVIOUS
      <4> QED
        BY <3>1, <4>1, <4>2
    <3>2. ASSUME NEW more \in BOOLEAN, Search1!PageRead(Search1!EmptyPage, FALSE, more)
          PROVE  \E page \in Search1!Pages, success \in BOOLEAN, m \in BOOLEAN :
                    Search1!PageRead(page, success, m)
      BY <3>2, PageShape, SameTypes
    <3> QED
      BY <1>1, <3>1, <3>2 DEF Search1!SearchPage
  <2> QED
    BY <2>2, PageSends, SameTypes DEF Search1!PageRead
<1>2. CASE Search1!Connect \/ Search1!CheckPage
  BY <1>2, ZenonT(30) DEF Search1!Connect, Search1!CheckPage, Sends, Search1!Threads
<1>3. CASE Search1!Finish
  BY <1>3, SameTypes DEF Search1!Finish, Sends, Search1!Threads, Search1!Events
<1> QED
  BY <1>1, <1>2, <1>3 DEF Run1, Search1!Run

LEMMA Run2Sends ==
    ASSUME thread2 \in Search1!Threads, children \subseteq Objects, Run2
    PROVE  Sends(thread2, events2, thread2', events2')
<1>1. CASE Search2!SearchPage
  <2>1. Search2!Remaining \subseteq children
    BY DEF Search2!Remaining, Found
  <2>2. PICK page \in Search1!Pages, success \in BOOLEAN, more \in BOOLEAN :
          Search2!PageRead(page, success, more)
    <3>1. ASSUME NEW S \in SUBSET Search2!Remaining,
                 Search2!PageRead([o \in S |-> Found[o]], TRUE, S # Search2!Remaining)
          PROVE  \E page \in Search1!Pages, success \in BOOLEAN, more \in BOOLEAN :
                    Search2!PageRead(page, success, more)
      <4>1. [o \in S |-> Found[o]] \in Search1!Pages
        BY <2>1, PageShape
      <4>2. (S # Search2!Remaining) \in BOOLEAN
        OBVIOUS
      <4> QED
        BY <3>1, <4>1, <4>2
    <3>2. ASSUME NEW more \in BOOLEAN, Search2!PageRead(Search2!EmptyPage, FALSE, more)
          PROVE  \E page \in Search1!Pages, success \in BOOLEAN, m \in BOOLEAN :
                    Search2!PageRead(page, success, m)
      BY <3>2, PageShape, SameTypes
    <3> QED
      BY <1>1, <3>1, <3>2 DEF Search2!SearchPage
  <2> QED
    BY <2>2, PageSends, SameTypes DEF Search2!PageRead
<1>2. CASE Search2!Connect \/ Search2!CheckPage
  BY <1>2 DEF Search2!Connect, Search2!CheckPage, Sends, Search1!Threads
<1>3. CASE Search2!Finish
  BY <1>3, SameTypes DEF Search2!Finish, Sends, Search1!Threads, Search1!Events
<1> QED
  BY <1>1, <1>2, <1>3 DEF Run2, Search2!Run

LEMMA RunsInv ==
    ASSUME MarkInv, Run1 \/ Run2
    PROVE  MarkInv'
<1>1. /\ thread1 \in Search1!Threads /\ thread2 \in Search1!Threads
      /\ children \subseteq Objects
  BY DEF MarkInv, SearchTypes, Thread, Slots
<1>2. \A s \in Slots : Thread(s)' \in Search1!Threads
                       /\ (Thread(s).phase # "none" => Thread(s)'.phase # "none")
  <2>1. CASE Run1
    <3>1. thread1' \in Search1!Threads /\ thread1'.phase # "none" /\ thread2' = thread2
      BY <1>1, <2>1, Run1Sends DEF Run1, Sends
    <3> QED
      BY <1>1, <3>1 DEF Thread, Slots
  <2>2. CASE Run2
    <3>1. thread2' \in Search1!Threads /\ thread2'.phase # "none" /\ thread1' = thread1
      BY <1>1, <2>2, Run2Sends DEF Run2, Sends
    <3> QED
      BY <1>1, <3>1 DEF Thread, Slots
  <2> QED
    BY <2>1, <2>2
<1>3. UNCHANGED <<children, item, searches, id_max>>
  BY DEF Run1, Run2
<1> QED
  BY <1>1, <1>2, <1>3, RowsStep DEF MarkInv, SearchTypes

-----------------------------------------------------------------------------
LEMMA ResultsSlotInv ==
    ASSUME MarkInv, NEW s \in Slots, ResultsSlot(s)
    PROVE  MarkInv'
<1>1. item \in ItemRecords /\ Thread(s) \in Search1!Threads
  BY DEF MarkInv, SearchTypes
<1>2. UNCHANGED <<children, searches, id_max>>
  BY DEF ResultsSlot
<1>3. /\ item' \in ItemRecords /\ item'.valid = item.valid
      /\ item'.fetching = item.fetching /\ item'.search_id = item.search_id
  BY <1>1, AddedShape DEF ResultsSlot
<1>4. \E t \in {Thread(s), Search1!Stopped(Thread(s))} : Becomes(s, t, Tail(Events(s)))
  BY DEF ResultsSlot
<1>5. /\ Thread(s)' \in {Thread(s), Search1!Stopped(Thread(s))}
      /\ \A r \in Slots \ {s} : Thread(r)' = Thread(r)
  BY <1>4, BecomesShape
<1>6. \A r \in Slots : Thread(r)' \in Search1!Threads
                       /\ (Thread(r).phase # "none" => Thread(r)'.phase # "none")
  BY <1>1, <1>5, ThreadShape DEF MarkInv, SearchTypes
<1> QED
  BY <1>2, <1>3, <1>6, RowsStep DEF MarkInv, SearchTypes

\* The end of the newest search clears the mark, and no other search of the
\* item has its id; the end of any other leaves the newest one under way.
LEMMA FinishedSlotInv ==
    ASSUME MarkInv, NEW s \in Slots, FinishedSlot(s)
    PROVE  MarkInv'
<1>1. item \in ItemRecords /\ UNCHANGED <<children, id_max>>
  BY DEF MarkInv, SearchTypes, FinishedSlot
<1>2. /\ item' = IF IsCurrent(s) THEN [item EXCEPT !.fetching = FALSE] ELSE item
      /\ item' \in ItemRecords /\ item'.valid = item.valid
      /\ item'.search_id = item.search_id
      /\ IsCurrent(s) => ~item'.fetching
  BY <1>1 DEF FinishedSlot, ItemRecords
<1>3. /\ Thread(s)' = NoThread
      /\ \A r \in Slots \ {s} : Thread(r)' = Thread(r)
  BY BecomesShape DEF FinishedSlot
<1>4. /\ searches' \in [Slots -> [live : BOOLEAN, id : Nat]]
      /\ ~searches'[s].live
      /\ \A r \in Slots \ {s} : searches'[r] = searches[r]
  BY DEF FinishedSlot, MarkInv, SearchTypes
<1>5. SearchTypes'
  BY <1>1, <1>2, <1>3, <1>4, ThreadShape DEF MarkInv, SearchTypes
<1>6. LiveInv' /\ DistinctIds'
  BY <1>1, <1>2, <1>3, <1>4 DEF MarkInv, LiveInv, DistinctIds
<1>7. Marked'
  <2>1. CASE IsCurrent(s)
    <3>1. \A r \in Slots \ {s} : ~IsCurrent(r)
      BY <2>1 DEF MarkInv, DistinctIds, IsCurrent
    <3> QED
      BY <1>2, <1>4, <2>1, <3>1 DEF Marked, IsCurrent
  <2>2. CASE ~IsCurrent(s)
    BY <1>2, <1>4, <2>2 DEF MarkInv, Marked, IsCurrent
  <2> QED
    BY <2>1, <2>2
<1> QED
  BY <1>5, <1>6, <1>7 DEF MarkInv

-----------------------------------------------------------------------------
\* Edits of the rows.
LEMMA EditsInv ==
    ASSUME MarkInv, NEW o \in Objects, NEW p \in Objects,
           Create(o) \/ Delete(o) \/ Rename(o, p) \/ OtherAdmin(o)
    PROVE  MarkInv'
<1>1. item \in ItemRecords /\ children \subseteq Objects
  BY DEF MarkInv, SearchTypes
<1>2. UNCHANGED <<searches, id_max, threadVars>>
  BY DEF Create, Delete, Rename, OtherAdmin
<1>3. \A r \in Slots : Thread(r)' = Thread(r)
  BY <1>2 DEF threadVars, Thread
<1>4. children' \subseteq Objects
  BY <1>1 DEF Create, Delete, Rename, OtherAdmin
<1>5. /\ item' \in ItemRecords /\ item'.valid = item.valid
      /\ item'.fetching = item.fetching /\ item'.search_id = item.search_id
  <2>1. CASE Create(o)
    BY <1>1, <2>1, AddedShape DEF Create
  <2>2. CASE Delete(o)
    BY <1>1, <2>2, WithoutRowsShape DEF Delete
  <2>3. CASE Rename(o, p)
    <3>1. PICK S \in Lookups(p) : item' = Added(WithoutRows(item, o), S)
      BY <2>3 DEF Rename
    <3> QED
      BY <1>1, <3>1, AddedShape, WithoutRowsShape
  <2>4. CASE OtherAdmin(o)
    BY <1>1, <2>4 DEF OtherAdmin
  <2> QED
    BY <2>1, <2>2, <2>3, <2>4
<1> QED
  BY <1>2, <1>3, <1>4, <1>5, RowsStep DEF MarkInv, SearchTypes

\* A new item has no search that is still alive for it.
LEMMA ItemInv ==
    ASSUME MarkInv, RemoveItem \/ AddItem
    PROVE  MarkInv'
<1>1. /\ UNCHANGED <<children, id_max>>
      /\ \A r \in Slots : Thread(r)' = Thread(r)
  BY DEF RemoveItem, AddItem, threadVars, Thread
<1>2. /\ item' \in ItemRecords /\ ~item'.fetching
  BY NewItemShape DEF RemoveItem, AddItem
<1>3. /\ searches' \in [Slots -> [live : BOOLEAN, id : Nat]]
      /\ \A r \in Slots : ~searches'[r].live
  <2>1. CASE RemoveItem
    BY <2>1 DEF RemoveItem, MarkInv, SearchTypes
  <2>2. CASE AddItem
    BY <2>2 DEF AddItem, MarkInv, SearchTypes, LiveInv
  <2> QED
    BY <2>1, <2>2
<1>4. SearchTypes'
  BY <1>1, <1>2, <1>3 DEF MarkInv, SearchTypes
<1>5. LiveInv' /\ DistinctIds' /\ Marked'
  BY <1>2, <1>3 DEF LiveInv, DistinctIds, Marked, IsCurrent
<1> QED
  BY <1>4, <1>5 DEF MarkInv

-----------------------------------------------------------------------------
LEMMA InitMarkInv == Init => MarkInv
<1> SUFFICES ASSUME Init PROVE MarkInv
  OBVIOUS
<1>1. \A s \in Slots : Thread(s) = NoThread /\ ~searches[s].live
  BY DEF Init, Thread, Slots
<1>2. SearchTypes
  BY <1>1, NewItemShape, ThreadShape DEF Init, SearchTypes
<1>3. LiveInv /\ DistinctIds
  BY <1>1 DEF LiveInv, DistinctIds
<1>4. Marked
  BY <1>1, NewItemShape DEF Init, Marked, IsCurrent
<1> QED
  BY <1>2, <1>3, <1>4 DEF MarkInv

LEMMA NextMarkInv == MarkInv /\ [Next]_vars => MarkInv'
<1> SUFFICES ASSUME MarkInv, [Next]_vars PROVE MarkInv'
  OBVIOUS
<1>1. CASE Select \/ Refresh \/ EditQuery
  BY <1>1, StartsInv
<1>2. CASE Run1 \/ Run2
  BY <1>2, RunsInv
<1>3. ASSUME NEW s \in Slots, Deliver(s) PROVE MarkInv'
  BY <1>3, ResultsSlotInv, FinishedSlotInv DEF Deliver
<1>4. ASSUME NEW o \in Objects, NEW p \in Objects,
             Create(o) \/ Delete(o) \/ Rename(o, p) \/ OtherAdmin(o)
      PROVE  MarkInv'
  BY <1>4, EditsInv
<1>5. CASE RemoveItem \/ AddItem
  BY <1>5, ItemInv
<1>6. CASE UNCHANGED vars
  <2>1. UNCHANGED <<children, item, searches, threadVars, id_max>>
    BY <1>6 DEF vars
  <2>2. \A r \in Slots : Thread(r)' = Thread(r)
    BY <2>1 DEF threadVars, Thread
  <2> QED
    BY <2>1, <2>2, RowsStep DEF MarkInv, SearchTypes
<1> QED
  BY <1>1, <1>2, <1>3, <1>4, <1>5, <1>6 DEF Next

\* The property implied: a search that is alive has a thread.
LEMMA MarkInvMarks == MarkInv => FetchingIffSearching
<1> SUFFICES ASSUME MarkInv PROVE FetchingIffSearching
  OBVIOUS
<1>1. \A s \in Slots : IsCurrent(s) => Thread(s) # NoThread
  BY ThreadShape DEF MarkInv, LiveInv, IsCurrent
<1> QED
  BY <1>1 DEF MarkInv, Marked, FetchingIffSearching

\* For any objects, page size and number of searches, edits and removals of the
\* item: the item is marked as fetching exactly while the search that
\* console_object_search() started last for it is under way.
THEOREM SearchMarksFetching == Spec => []FetchingIffSearching
<1>1. Spec => []MarkInv
  BY InitMarkInv, NextMarkInv, PTL DEF Spec
<1> QED
  BY <1>1, MarkInvMarks, PTL
-----------------------------------------------------------------------------
(* The types.  The ids that the item and the searches remember were given  *)
(* out, an item that has gone keeps nothing, and what waits for the slots  *)
(* are pages of objects and ends.                                          *)

IdsGiven == item.search_id <= id_max /\ \A s \in Slots : searches[s].id <= id_max

Gone == ~item.valid => item = NoItem

Queues == \A s \in Slots : Events(s) \in Seq(Search1!Events)

Edited == touched \subseteq Objects /\ edits \in Nat

TypeInv == MarkInv /\ IdsGiven /\ Gone /\ Queues /\ Edited

LEMMA TypeInvTypes == TypeInv => TypeOK
<1> SUFFICES ASSUME TypeInv PROVE TypeOK
  OBVIOUS
<1>1. item \in ItemRecords /\ id_max \in Nat /\ item.search_id <= id_max
  BY DEF TypeInv, MarkInv, SearchTypes, IdsGiven
<1>2. item \in [valid : BOOLEAN, was_fetched : BOOLEAN, fetching : BOOLEAN,
                search_id : 0..id_max, rows : [Objects -> Nat]]
  BY <1>1 DEF ItemRecords
<1>3. searches \in [Slots -> [live : BOOLEAN, id : 0..id_max]]
  BY DEF TypeInv, MarkInv, SearchTypes, IdsGiven
<1> QED
  BY <1>2, <1>3 DEF TypeOK, TypeInv, MarkInv, SearchTypes, Gone, Queues, Edited

LEMMA StartsTypes ==
    ASSUME TypeInv, Select \/ Refresh \/ EditQuery
    PROVE  IdsGiven' /\ Gone' /\ Queues' /\ Edited'
<1>1. item \in ItemRecords /\ id_max \in Nat /\ searches \in [Slots -> [live : BOOLEAN, id : Nat]]
  BY DEF TypeInv, MarkInv, SearchTypes
<1>2. PICK it \in {[item EXCEPT !.was_fetched = TRUE], [item EXCEPT !.rows = NoRows]} :
        item.valid /\ console_object_search(it)
  BY DEF Select, Refresh, EditQuery
<1>3. PICK s \in Slots :
        /\ Becomes(s, Search1!NewThread, << >>)
        /\ searches' = [searches EXCEPT ![s] = [live |-> TRUE, id |-> id_max]]
  BY <1>2 DEF console_object_search
<1>4. /\ item' = [it EXCEPT !.fetching = TRUE, !.search_id = id_max]
      /\ id_max' = id_max + 1 /\ touched' = {} /\ edits' = edits
  BY <1>2 DEF console_object_search
<1>5. item'.valid /\ item'.search_id = id_max
  BY <1>1, <1>2, <1>4 DEF ItemRecords
<1>6. IdsGiven'
  BY <1>1, <1>3, <1>4, <1>5 DEF TypeInv, IdsGiven
<1>7. Queues'
  <2>1. << >> \in Seq(Search1!Events)
    OBVIOUS
  <2> QED
    BY <1>3, <2>1, BecomesShape DEF TypeInv, Queues
<1> QED
  BY <1>4, <1>5, <1>6, <1>7 DEF Gone, Edited, TypeInv

LEMMA RunsTypes ==
    ASSUME TypeInv, Run1 \/ Run2
    PROVE  IdsGiven' /\ Gone' /\ Queues' /\ Edited'
<1>1. /\ thread1 \in Search1!Threads /\ thread2 \in Search1!Threads
      /\ children \subseteq Objects
  BY DEF TypeInv, MarkInv, SearchTypes, Thread, Slots
<1>2. UNCHANGED <<item, searches, id_max, touched, edits>>
  BY DEF Run1, Run2
<1>3. events1 \in Seq(Search1!Events) /\ events2 \in Seq(Search1!Events)
  BY DEF TypeInv, Queues, Events, Slots
<1>4. ASSUME NEW t, NEW q \in Seq(Search1!Events), NEW u, NEW r, Sends(t, q, u, r)
      PROVE  r \in Seq(Search1!Events)
  <2>1. ASSUME NEW e \in Search1!Events PROVE Append(q, e) \in Seq(Search1!Events)
    OBVIOUS
  <2> QED
    BY <1>4, <2>1 DEF Sends
<1>5. events1' \in Seq(Search1!Events) /\ events2' \in Seq(Search1!Events)
  <2>1. CASE Run1
    BY <1>1, <1>3, <1>4, <2>1, Run1Sends DEF Run1
  <2>2. CASE Run2
    BY <1>1, <1>3, <1>4, <2>2, Run2Sends DEF Run2
  <2> QED
    BY <2>1, <2>2
<1> QED
  BY <1>2, <1>5 DEF TypeInv, IdsGiven, Gone, Queues, Edited, Events, Slots

LEMMA AddedToNothing ==
    ASSUME NEW it, NEW S, ~it.valid
    PROVE  Added(it, S) = it
BY DEF Added

\* A slot takes the first signal from its thread's queue; the only one that
\* writes to the item belongs to a search that is alive, so that the item is.
LEMMA DeliverTypes ==
    ASSUME TypeInv, NEW s \in Slots, Deliver(s)
    PROVE  IdsGiven' /\ Gone' /\ Queues' /\ Edited'
<1>1. /\ item \in ItemRecords /\ id_max \in Nat
      /\ searches \in [Slots -> [live : BOOLEAN, id : Nat]]
      /\ IsCurrent(s) => item.valid
  BY DEF TypeInv, MarkInv, SearchTypes, LiveInv, IsCurrent
<1>2. PICK t : Becomes(s, t, Tail(Events(s))) /\ Events(s) # << >>
  BY DEF Deliver, ResultsSlot, FinishedSlot
<1>3. Queues'
  <2>1. Tail(Events(s)) \in Seq(Search1!Events)
    BY <1>2 DEF TypeInv, Queues
  <2> QED
    BY <1>2, <2>1, BecomesShape DEF TypeInv, Queues
<1>4. /\ searches' = searches
         \/ searches' = [searches EXCEPT ![s] = [live |-> FALSE, id |-> 0]]
      /\ id_max' = id_max /\ edits' = edits /\ touched' \in {touched, {}}
  BY DEF Deliver, ResultsSlot, FinishedSlot
<1>5. /\ item'.valid = item.valid /\ item'.search_id = item.search_id
      /\ ~item.valid => item' = item
  <2>1. CASE ResultsSlot(s)
    BY <1>1, <2>1, AddedShape DEF ResultsSlot
  <2>2. CASE FinishedSlot(s)
    <3>1. item' = item \/ (item' = [item EXCEPT !.fetching = FALSE] /\ item.valid)
      BY <1>1, <2>2 DEF FinishedSlot
    <3> QED
      BY <1>1, <3>1 DEF ItemRecords
  <2> QED
    BY <2>1, <2>2 DEF Deliver
<1>6. IdsGiven'
  BY <1>1, <1>4, <1>5 DEF TypeInv, IdsGiven
<1> QED
  BY <1>3, <1>4, <1>5, <1>6 DEF TypeInv, Gone, Edited

LEMMA EditsTypes ==
    ASSUME TypeInv, NEW o \in Objects, NEW p \in Objects,
           Create(o) \/ Delete(o) \/ Rename(o, p) \/ OtherAdmin(o)
    PROVE  IdsGiven' /\ Gone' /\ Queues' /\ Edited'
<1>1. item \in ItemRecords /\ (~item.valid => item.rows[o] = 0)
  BY DEF TypeInv, MarkInv, SearchTypes, Gone, NoItem, NewItem, NoRows
<1>2. UNCHANGED <<searches, id_max, threadVars>> /\ edits' = edits + 1
  BY DEF Create, Delete, Rename, OtherAdmin, Edit
<1>3. \A r \in Slots : Events(r)' = Events(r)
  BY <1>2 DEF threadVars, Events
<1>4. /\ item'.valid = item.valid /\ item'.search_id = item.search_id
      /\ ~item.valid => item' = item
  <2>1. CASE Create(o)
    BY <1>1, <2>1, AddedShape, AddedToNothing DEF Create
  <2>2. CASE Delete(o)
    BY <1>1, <2>2, WithoutRowsShape DEF Delete
  <2>3. CASE Rename(o, p)
    <3>1. PICK S \in Lookups(p) : item' = Added(WithoutRows(item, o), S)
      BY <2>3 DEF Rename
    <3>2. item.valid
      BY <1>1, <2>3 DEF Rename
    <3>3. /\ WithoutRows(item, o) \in ItemRecords
          /\ WithoutRows(item, o).valid /\ WithoutRows(item, o).search_id = item.search_id
      BY <1>1, <3>2, WithoutRowsShape
    <3> QED
      BY <3>1, <3>2, <3>3, AddedShape
  <2>4. CASE OtherAdmin(o)
    BY <2>4 DEF OtherAdmin
  <2> QED
    BY <2>1, <2>2, <2>3, <2>4
<1>5. touched' \subseteq touched \cup {o, p}
  BY DEF Create, Delete, Rename, OtherAdmin, Touched
<1> QED
  BY <1>2, <1>3, <1>4, <1>5 DEF TypeInv, IdsGiven, Gone, Queues, Edited

LEMMA ItemTypes ==
    ASSUME TypeInv, RemoveItem \/ AddItem
    PROVE  IdsGiven' /\ Gone' /\ Queues' /\ Edited'
<1>1. /\ id_max \in Nat /\ searches \in [Slots -> [live : BOOLEAN, id : Nat]]
      /\ UNCHANGED <<id_max, edits>> /\ touched' \in {touched, {}}
      /\ \A r \in Slots : Events(r)' = Events(r)
  BY DEF TypeInv, MarkInv, SearchTypes, RemoveItem, AddItem, threadVars, Events
<1>2. /\ item' \in {NewItem, NoItem}
      /\ \A r \in Slots : searches'[r].id = searches[r].id
  BY <1>1 DEF RemoveItem, AddItem
<1>3. /\ NewItem.valid /\ NewItem.search_id = 0 /\ NoItem.search_id = 0
  BY DEF NewItem, NoItem
<1> QED
  BY <1>1, <1>2, <1>3 DEF TypeInv, IdsGiven, Gone, Queues, Edited

LEMMA NextTypeInv == TypeInv /\ [Next]_vars => TypeInv'
<1> SUFFICES ASSUME TypeInv, [Next]_vars PROVE TypeInv'
  OBVIOUS
<1>1. MarkInv'
  BY NextMarkInv DEF TypeInv
<1>2. ASSUME NEW s \in Slots, Deliver(s) PROVE TypeInv'
  BY <1>1, <1>2, DeliverTypes DEF TypeInv
<1>3. ASSUME NEW o \in Objects, NEW p \in Objects,
             Create(o) \/ Delete(o) \/ Rename(o, p) \/ OtherAdmin(o)
      PROVE  TypeInv'
  BY <1>1, <1>3, EditsTypes DEF TypeInv
<1>4. CASE UNCHANGED vars
  BY <1>1, <1>4 DEF vars, threadVars, TypeInv, IdsGiven, Gone, Queues, Edited, Events
<1> QED
  BY <1>1, <1>2, <1>3, <1>4, StartsTypes, RunsTypes, ItemTypes DEF Next, TypeInv

LEMMA InitTypeInv == Init => TypeInv
<1> SUFFICES ASSUME Init PROVE TypeInv
  OBVIOUS
<1>1. /\ item.search_id = 0 /\ item.valid /\ id_max = 0
      /\ \A s \in Slots : searches[s].id = 0
  BY DEF Init, NewItem
<1>2. Queues
  <2>1. << >> \in Seq(Search1!Events)
    OBVIOUS
  <2> QED
    BY <2>1 DEF Init, Queues, Events
<1> QED
  BY <1>1, <1>2, InitMarkInv DEF Init, TypeInv, IdsGiven, Gone, Edited

\* The id that an item remembers was given out by SearchThread's constructor,
\* an item that was removed keeps nothing of its searches, and what the slots
\* receive are pages of objects and ends, whatever runs, fails or is edited.
THEOREM SearchTypeOK == Spec => []TypeOK
<1>1. Spec => []TypeInv
  BY InitTypeInv, NextTypeInv, PTL DEF Spec
<1> QED
  BY <1>1, TypeInvTypes, PTL
=============================================================================
