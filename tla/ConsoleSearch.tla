---------------------------- MODULE ConsoleSearch ----------------------------
(***************************************************************************)
(* An item of the object tree and the searches for its children            *)
(* (console_object_search() in                                             *)
(* src/src/admc/ui/console/object/console_object_operations.cpp).          *)
(*                                                                         *)
(* A search is started when the item is selected for the first time and    *)
(* whenever it is refreshed; it runs in a SearchThread while the main      *)
(* thread goes on adding and removing rows for what the user creates,      *)
(* deletes, moves and renames.  A refresh does not wait for the search     *)
(* before it: the item remembers the id of the newest thread, and the      *)
(* slots of the older ones leave the item alone.  The item itself may be   *)
(* deleted meanwhile and may come back as another item.                    *)
(*                                                                         *)
(* Two threads may be alive at once here, each with the signals it has     *)
(* posted; a page may wait between being read and being posted, so the two *)
(* queues stand for the event loop's one.                                  *)
(***************************************************************************)
EXTENDS Naturals, FiniteSets, Sequences

CONSTANTS
    Objects,                    \* the DNs that may be below the item
    PageSize, DisplayLimits, Faults,
    UserOps,                    \* the operations the user performs
    MaxSearches, MaxEdits       \* bounds

VARIABLES
    children,           \* the server: the objects below the item
    item,               \* the item: its data and its rows
    searches,           \* which item and which id each thread has
    thread1, events1, thread2, events2,
    id_max,             \* of SearchThread's constructor
    touched,            \* history: objects edited while the item's search runs
    edits               \* counter for the bound

Ops == {"Refresh", "EditQuery", "Create", "Delete", "Rename", "RemoveItem", "OtherAdmin"}

\* What a search returns of an object does not matter here.
Data == {"object"}

Found == [o \in children |-> "object"]

Search1 == INSTANCE SearchThread
    WITH directory <- Found, thread <- thread1, events <- events1
Search2 == INSTANCE SearchThread
    WITH directory <- Found, thread <- thread2, events <- events2

ASSUME ConsoleSearchAssumption ==
    /\ UserOps \subseteq Ops
    /\ MaxSearches \in Nat /\ MaxEdits \in Nat
    /\ Search1!SearchAssumption

Slots == {1, 2}

NoThread == Search1!NoThread

threadVars == <<thread1, events1, thread2, events2>>
vars == <<children, item, searches, threadVars, id_max, touched, edits>>

Thread(s) == IF s = 1 THEN thread1 ELSE thread2
Events(s) == IF s = 1 THEN events1 ELSE events2

\* The thread in place s and its signals become t and q.
Becomes(s, t, q) ==
    \/ s = 1 /\ thread1' = t /\ events1' = q /\ UNCHANGED <<thread2, events2>>
    \/ s = 2 /\ thread2' = t /\ events2' = q /\ UNCHANGED <<thread1, events1>>

NoRows == [o \in Objects |-> 0]

\* An item that was just added to the tree.
NewItem == [valid |-> TRUE, was_fetched |-> FALSE, fetching |-> FALSE,
            search_id |-> 0, rows |-> NoRows]

NoItem == [NewItem EXCEPT !.valid = FALSE]

TypeOK ==
    /\ children \subseteq Objects
    /\ item \in [valid : BOOLEAN, was_fetched : BOOLEAN, fetching : BOOLEAN,
                 search_id : 0..id_max, rows : [Objects -> Nat]]
    /\ ~item.valid => item = NoItem
    /\ searches \in [Slots -> [live : BOOLEAN, id : 0..id_max]]
    /\ \A s \in Slots :
        /\ Thread(s) \in Search1!Threads
        /\ Events(s) \in Seq(Search1!Events)
    /\ touched \subseteq Objects
    /\ id_max \in Nat /\ edits \in Nat

-----------------------------------------------------------------------------
(* Starting a search.                                                      *)

\* console_object_search(): whatever else runs, the item is now this search's.
console_object_search(it) ==
    /\ id_max < MaxSearches
    /\ item' = [it EXCEPT !.fetching = TRUE, !.search_id = id_max]
    /\ id_max' = id_max + 1
    /\ \E s \in Slots :
        /\ Thread(s) = NoThread
        /\ s = 1 \/ thread1 # NoThread
        /\ Becomes(s, Search1!NewThread, << >>)
        /\ searches' = [searches EXCEPT ![s] = [live |-> TRUE, id |-> id_max]]
    /\ touched' = {}
    /\ UNCHANGED <<children, edits>>

\* fetch_scope(), when the item becomes the current one.
Select ==
    /\ item.valid /\ ~item.was_fetched
    /\ console_object_search([item EXCEPT !.was_fetched = TRUE])

\* refresh() of an object or a query that was fetched.
Refresh ==
    /\ "Refresh" \in UserOps
    /\ item.valid /\ item.was_fetched
    /\ console_object_search([item EXCEPT !.rows = NoRows])

\* on_edit_query_item() refreshes the query whether or not it was fetched.
EditQuery ==
    /\ "EditQuery" \in UserOps
    /\ item.valid
    /\ console_object_search([item EXCEPT !.rows = NoRows])

-----------------------------------------------------------------------------
(* The threads, and the slots of their signals.                            *)

Run1 ==
    /\ Search1!Run
    /\ UNCHANGED <<children, item, searches, thread2, events2, id_max, touched, edits>>

Run2 ==
    /\ Search2!Run
    /\ UNCHANGED <<children, item, searches, thread1, events1, id_max, touched, edits>>

\* Fault: a row is added whether or not the parent was fetched.
AddedAnyway(it, S) ==
    [it EXCEPT !.rows = [o \in Objects |-> IF o \in S THEN @[o] + 1 ELSE @[o]]]

\* add_objects_to_console().
Added(it, S) ==
    IF ~it.valid \/ ~it.was_fetched THEN it
    ELSE [it EXCEPT !.rows = [o \in Objects |-> IF o \in S THEN @[o] + 1 ELSE @[o]]]

\* Fault: the slots do not ask for the id.
Alive(s) == searches[s].live

\* The item the search was started for is there and no other search was
\* started for it since.
IsCurrent(s) == searches[s].live /\ searches[s].id = item.search_id

\* The slot of results_ready.
ResultsSlot(s) ==
    /\ Events(s) # << >> /\ Head(Events(s)).signal = "results_ready"
    /\ \/ /\ IsCurrent(s)
          /\ item' = Added(item, DOMAIN Head(Events(s)).page)
          /\ Becomes(s, Thread(s), Tail(Events(s)))
       \/ /\ ~IsCurrent(s)
          /\ UNCHANGED item
          /\ Becomes(s, Search1!Stopped(Thread(s)), Tail(Events(s)))
    /\ UNCHANGED <<children, searches, id_max, touched, edits>>

\* Fault: the mark stays when the search could not connect.
FinishedSlotOfSuccess(s) ==
    /\ Events(s) # << >> /\ Head(Events(s)).signal = "finished"
    /\ item' = IF IsCurrent(s) /\ ~Thread(s).failed_to_connect
               THEN [item EXCEPT !.fetching = FALSE] ELSE item
    /\ Becomes(s, NoThread, Tail(Events(s)))
    /\ searches' = [searches EXCEPT ![s] = [live |-> FALSE, id |-> 0]]
    /\ touched' = IF IsCurrent(s) THEN {} ELSE touched
    /\ UNCHANGED <<children, id_max, edits>>

\* The slot of finished.
FinishedSlot(s) ==
    /\ Events(s) # << >> /\ Head(Events(s)).signal = "finished"
    /\ item' = IF IsCurrent(s) THEN [item EXCEPT !.fetching = FALSE] ELSE item
    /\ Becomes(s, NoThread, Tail(Events(s)))
    /\ searches' = [searches EXCEPT ![s] = [live |-> FALSE, id |-> 0]]
    /\ touched' = IF IsCurrent(s) THEN {} ELSE touched
    /\ UNCHANGED <<children, id_max, edits>>

Deliver(s) == ResultsSlot(s) \/ FinishedSlot(s)

-----------------------------------------------------------------------------
(* What else changes the rows.                                             *)

Edit(op) == op \in UserOps /\ edits < MaxEdits /\ edits' = edits + 1

\* The history variable matters while the item is being fetched only.
Touched(S) == IF item.fetching THEN touched \cup S ELSE {}

\* The lookup of what is to be added may come back empty.
Lookups(o) == {{o}} \cup (IF "read" \in Faults THEN {{}} ELSE {})

\* console_object_delete_dn_list(): every row of the DN.
WithoutRows(it, o) == [it EXCEPT !.rows[o] = 0]

\* console_object_create(), and moving an object here.
Create(o) ==
    /\ Edit("Create")
    /\ o \notin children
    /\ children' = children \cup {o}
    /\ \E S \in Lookups(o) : item' = Added(item, S)
    /\ touched' = Touched({o})
    /\ UNCHANGED <<searches, threadVars, id_max>>

\* console_object_delete(), and moving an object elsewhere.
Delete(o) ==
    /\ Edit("Delete")
    /\ item.rows[o] > 0 /\ o \in children
    /\ children' = children \ {o}
    /\ item' = WithoutRows(item, o)
    /\ touched' = Touched({o})
    /\ UNCHANGED <<searches, threadVars, id_max>>

\* console_object_move_and_rename() within the item: old rows go, and the row
\* for the new DN is added.
Rename(o, p) ==
    /\ Edit("Rename")
    /\ item.rows[o] > 0 /\ o \in children /\ p \notin children
    /\ children' = (children \ {o}) \cup {p}
    /\ \E S \in Lookups(p) : item' = Added(WithoutRows(item, o), S)
    /\ touched' = Touched({o, p})
    /\ UNCHANGED <<searches, threadVars, id_max>>

\* Fault: the searches of a removed item go on with the item that follows it.
RemoveItemOnly ==
    /\ "RemoveItem" \in UserOps
    /\ item.valid
    /\ item' = NoItem /\ touched' = {}
    /\ UNCHANGED <<children, searches, threadVars, id_max, edits>>

\* The item goes with its parent's children, or because its object was deleted.
\* Persistent indexes to it are invalid from then on.
RemoveItem ==
    /\ "RemoveItem" \in UserOps
    /\ item.valid
    /\ item' = NoItem /\ touched' = {}
    /\ searches' = [s \in Slots |-> [searches[s] EXCEPT !.live = FALSE]]
    /\ UNCHANGED <<children, threadVars, id_max, edits>>

\* The search for the parent's children finds it again.
AddItem ==
    /\ ~item.valid
    /\ item' = NewItem
    /\ UNCHANGED <<children, searches, threadVars, id_max, touched, edits>>

\* Other administrators create and delete.
OtherAdmin(o) ==
    /\ Edit("OtherAdmin")
    /\ children' \in {children \cup {o}, children \ {o}}
    /\ touched' = Touched({o})
    /\ UNCHANGED <<item, searches, threadVars, id_max>>

Init ==
    /\ children \in SUBSET Objects
    /\ item = NewItem
    /\ searches = [s \in Slots |-> [live |-> FALSE, id |-> 0]]
    /\ thread1 = NoThread /\ thread2 = NoThread
    /\ events1 = << >> /\ events2 = << >>
    /\ id_max = 0 /\ touched = {} /\ edits = 0

Next ==
    \/ Select \/ Refresh \/ EditQuery
    \/ Run1 \/ Run2
    \/ \E s \in Slots : Deliver(s)
    \/ \E o, p \in Objects : Rename(o, p)
    \/ \E o \in Objects : Create(o) \/ Delete(o) \/ OtherAdmin(o)
    \/ RemoveItem \/ AddItem

\* The operating system runs both threads and the event loop delivers events.
Fairness ==
    /\ WF_vars(Run1) /\ WF_vars(Run2)
    /\ \A s \in Slots : WF_vars(Deliver(s))

Spec == Init /\ [][Next]_vars /\ Fairness

-----------------------------------------------------------------------------
\* The item is marked as fetching exactly while the search it remembers is
\* under way: a search that was overtaken by a refresh, or whose item has gone,
\* neither clears the mark too early nor leaves it for ever.
FetchingIffSearching ==
    item.fetching <=> \E s \in Slots : IsCurrent(s) /\ Thread(s) # NoThread

\* When the newest search of an item ends well the item shows every object
\* below it once and nothing else, whatever searches were overtaken and however
\* often the item was removed and added again.  Objects edited while the search
\* ran are left out.
SearchShowsAll ==
    [][\A s \in Slots :
        FinishedSlot(s) /\ IsCurrent(s) /\ item.was_fetched
        /\ ~Thread(s).failed_to_connect /\ Thread(s).success
        /\ ~Thread(s).hit_object_display_limit =>
            \A o \in Objects \ touched :
                item.rows[o] = IF o \in children THEN 1 ELSE 0]_vars

\* The mark that disables dropping on the item goes away.
FetchEnds == item.fetching ~> ~item.fetching
=============================================================================
