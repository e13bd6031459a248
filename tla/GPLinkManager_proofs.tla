------------------------- MODULE GPLinkManager_proofs -------------------------
(***************************************************************************)
(* For any OUs, attributes, page size and display limits, and any number   *)
(* of updates and edits: what the cache and its search thread owe each     *)
(* other.                                                                  *)
(*                                                                         *)
(* The induction is about the queue between the two threads.  finished()   *)
(* is in it once the thread has ended, as the last event, so nothing is    *)
(* left when its slot has run.  An OU that nobody edited since update()    *)
(* began has the server's attribute in every page that waits, and if it    *)
(* was sent and is not in the cache yet, one of those pages has it.        *)
(***************************************************************************)
EXTENDS GPLinkManager, FiniteSetTheorems, TLAPS

Waiting == DOMAIN events

QueueInv ==
    /\ \A i \in Waiting : events[i].signal = "finished" <=>
                            i = Len(events) /\ thread.phase = "finished"
    /\ thread.phase = "finished" => events # << >>
    /\ is_updated => thread = Search!NoThread
    /\ thread.phase = "none" <=> is_updated
    /\ is_updated => events = << >>

PagesFresh ==
    \A i \in Waiting : \A ou \in DOMAIN events[i].page \ touched :
        events[i].page[ou] = gplink[ou]

SentArrives ==
    \A ou \in thread.sent \ touched :
        \/ gplink[ou] = NoLinks
        \/ ou_links[ou] = gplink[ou]
        \/ \E i \in Waiting : ou \in DOMAIN events[i].page

ManagerInv == TypeOK /\ QueueInv /\ PagesFresh /\ SentArrives

-----------------------------------------------------------------------------
\* What one signal is.
LEMMA SignalShape ==
    /\ \A page : /\ Search!ResultsReady(page).signal = "results_ready"
                 /\ Search!ResultsReady(page).page = page
    /\ Search!Finished.signal = "finished"
    /\ DOMAIN Search!Finished.page = {}
    /\ Search!Finished \in Search!Events
    /\ Search!EmptyPage \in Search!Pages /\ DOMAIN Search!EmptyPage = {}
<1>1. Search!EmptyPage \in [{} -> Strings]
  BY DEF Search!EmptyPage
<1>2. {} \in SUBSET OUs
  OBVIOUS
<1>3. Search!EmptyPage \in Search!Pages
  BY <1>1, <1>2 DEF Search!Pages
<1> QED
  BY <1>3 DEF Search!ResultsReady, Search!Finished, Search!Events, Search!EmptyPage

LEMMA EventShape ==
    ASSUME NEW e \in Search!Events
    PROVE  \/ e = Search!Finished
           \/ /\ e.signal = "results_ready"
              /\ e.page \in Search!Pages
BY SignalShape DEF Search!Events

LEMMA PageShape ==
    ASSUME NEW page \in Search!Pages
    PROVE  /\ DOMAIN page \subseteq OUs
           /\ \A ou \in DOMAIN page : page[ou] \in Strings
BY DEF Search!Pages

\* Sending a page, or finished(), after what already waits.
LEMMA AppendShape ==
    ASSUME NEW e \in Search!Events, TypeOK, events' = Append(events, e)
    PROVE  /\ events' \in Seq(Search!Events)
           /\ Len(events') = Len(events) + 1
           /\ DOMAIN events' = Waiting \cup {Len(events) + 1}
           /\ events'[Len(events) + 1] = e
           /\ \A i \in Waiting : events'[i] = events[i] /\ i # Len(events) + 1
BY DEF TypeOK, Waiting

\* Delivering the first event.
LEMMA TailShape ==
    ASSUME TypeOK, events # << >>, events' = Tail(events)
    PROVE  /\ events' \in Seq(Search!Events)
           /\ Head(events) = events[1] /\ Head(events) \in Search!Events
           /\ 1 \in Waiting
           /\ Len(events') = Len(events) - 1
           /\ \A i \in DOMAIN events' : i + 1 \in Waiting /\ events'[i] = events[i + 1]
           /\ \A i \in Waiting : i = 1 \/ (i - 1 \in DOMAIN events' /\ events'[i - 1] = events[i])
BY DEF TypeOK, Waiting

LEMMA ManagerInit == Init => ManagerInv
<1> SUFFICES ASSUME Init PROVE ManagerInv
  OBVIOUS
<1>1. Search!NoThread \in Search!Threads /\ Search!NoThread.phase = "none"
      /\ Search!NoThread.sent = {}
  BY DEF Search!NoThread, Search!Threads
<1>2. << >> \in Seq(Search!Events) /\ NoLinks \in Strings
  BY ManagerAssumption
<1>3. [ou \in OUs |-> NoLinks] \in [OUs -> Strings]
  BY <1>2
<1>4. TypeOK
  BY <1>1, <1>2, <1>3 DEF Init, TypeOK
<1>5. QueueInv /\ PagesFresh /\ SentArrives
  BY <1>1 DEF Init, QueueInv, PagesFresh, SentArrives, Waiting
<1> QED
  BY <1>4, <1>5 DEF ManagerInv

\* A step of the thread that sends nothing and ends nothing.
LEMMA QuietStep ==
    ASSUME ManagerInv, thread' \in Search!Threads, thread'.sent = thread.sent,
           thread.phase \notin {"none", "finished"},
           thread'.phase \notin {"none", "finished"},
           UNCHANGED <<gplink, ou_links, is_updated, failed_to_update, events,
                       touched, writes, updates>>
    PROVE  ManagerInv'
<1>1. TypeOK'
  BY DEF ManagerInv, TypeOK
<1>2. QueueInv'
  BY DEF ManagerInv, QueueInv, Waiting
<1>3. PagesFresh' /\ SentArrives'
  BY DEF ManagerInv, PagesFresh, SentArrives, Waiting
<1> QED
  BY <1>1, <1>2, <1>3 DEF ManagerInv

LEMMA UpdateInv ==
    ASSUME ManagerInv, Update
    PROVE  ManagerInv'
<1>1. /\ thread' = Search!NewThread /\ touched' = {} /\ is_updated' = FALSE
      /\ updates' = updates + 1 /\ events = << >>
      /\ UNCHANGED <<gplink, ou_links, failed_to_update, events, writes>>
  BY DEF Update, Search!Start, ManagerInv, QueueInv
<1>2. thread' \in Search!Threads /\ thread'.phase = "connect" /\ thread'.sent = {}
  BY <1>1 DEF Search!NewThread, Search!NoThread, Search!Threads
<1>3. TypeOK'
  <2>1. is_updated' \in BOOLEAN /\ failed_to_update' \in BOOLEAN
    BY <1>1, Zenon DEF ManagerInv, TypeOK
  <2>2. updates' \in Nat /\ writes' \in Nat /\ touched' \subseteq OUs
    BY <1>1 DEF ManagerInv, TypeOK
  <2> QED
    BY <1>1, <1>2, <2>1, <2>2 DEF ManagerInv, TypeOK
<1>4. QueueInv' /\ PagesFresh' /\ SentArrives'
  BY <1>1, <1>2 DEF QueueInv, PagesFresh, SentArrives, Waiting
<1> QED
  BY <1>3, <1>4 DEF ManagerInv

LEMMA SendInv ==
    ASSUME ManagerInv, NEW page \in Search!Pages,
           \A ou \in DOMAIN page : page[ou] = gplink[ou],
           thread.phase \notin {"none", "finished"},
           thread' \in Search!Threads, thread'.phase \notin {"none", "finished"},
           thread'.sent = thread.sent \cup DOMAIN page,
           events' = Append(events, Search!ResultsReady(page)),
           UNCHANGED <<gplink, ou_links, is_updated, failed_to_update,
                       touched, writes, updates>>
    PROVE  ManagerInv'
<1> DEFINE e == Search!ResultsReady(page)
           n == Len(events) + 1
<1>1. e \in Search!Events /\ e.signal = "results_ready" /\ e.page = page
  BY SignalShape DEF Search!Events
<1> HIDE DEF e
<1>2. /\ events' \in Seq(Search!Events) /\ Len(events') = n
      /\ DOMAIN events' = Waiting \cup {n} /\ events'[n] = e
      /\ \A i \in Waiting : events'[i] = events[i] /\ i # n
  BY <1>1, AppendShape DEF ManagerInv, e
<1>3. TypeOK'
  BY <1>2 DEF ManagerInv, TypeOK
<1>4. QueueInv'
  <2>1. \A i \in Waiting \cup {n} : events'[i].signal # "finished"
    BY <1>1, <1>2 DEF ManagerInv, QueueInv
  <2> QED
    BY <1>2, <2>1 DEF ManagerInv, QueueInv, Waiting
<1>5. PagesFresh'
  BY <1>1, <1>2 DEF ManagerInv, PagesFresh, Waiting
<1>6. SentArrives'
  <2> SUFFICES ASSUME NEW ou \in thread'.sent \ touched, gplink[ou] # NoLinks,
                      ou_links[ou] # gplink[ou]
               PROVE  \E i \in DOMAIN events' : ou \in DOMAIN events'[i].page
    BY DEF SentArrives, Waiting
  <2>1. CASE ou \in DOMAIN page
    BY <1>1, <1>2, <2>1
  <2>2. CASE ou \in thread.sent
    <3>1. PICK i \in Waiting : ou \in DOMAIN events[i].page
      BY <2>2 DEF ManagerInv, SentArrives
    <3> QED
      BY <1>2, <3>1
  <2> QED
    BY <2>1, <2>2
<1> QED
  BY <1>3, <1>4, <1>5, <1>6 DEF ManagerInv

LEMMA FinishInv ==
    ASSUME ManagerInv, Search!Finish,
           UNCHANGED <<gplink, ou_links, is_updated, failed_to_update,
                       touched, writes, updates>>
    PROVE  ManagerInv'
<1> DEFINE n == Len(events) + 1
<1>1. /\ thread.phase = "ended" /\ thread' = [thread EXCEPT !.phase = "finished"]
      /\ events' = Append(events, Search!Finished)
  BY DEF Search!Finish
<1>2. thread' \in Search!Threads /\ thread'.phase = "finished" /\ thread'.sent = thread.sent
  BY <1>1 DEF ManagerInv, TypeOK, Search!Threads
<1>3. /\ events' \in Seq(Search!Events) /\ Len(events') = n
      /\ DOMAIN events' = Waiting \cup {n} /\ events'[n] = Search!Finished
      /\ \A i \in Waiting : events'[i] = events[i] /\ i # n
  BY <1>1, SignalShape, AppendShape DEF ManagerInv
<1>4. TypeOK'
  BY <1>2, <1>3 DEF ManagerInv, TypeOK
<1>5. QueueInv'
  <2>1. \A i \in Waiting : events'[i].signal # "finished"
    BY <1>1, <1>3 DEF ManagerInv, QueueInv
  <2>2. events' # << >>
    BY <1>3
  <2> QED
    BY <1>1, <1>2, <1>3, <2>1, <2>2, SignalShape DEF ManagerInv, QueueInv, Waiting
<1>6. PagesFresh'
  BY <1>3, SignalShape DEF ManagerInv, PagesFresh, Waiting
<1>7. SentArrives'
  BY <1>2, <1>3 DEF ManagerInv, SentArrives, Waiting
<1> QED
  BY <1>4, <1>5, <1>6, <1>7 DEF ManagerInv

LEMMA SearchRunsInv ==
    ASSUME ManagerInv, SearchRuns
    PROVE  ManagerInv'
<1>1. /\ Search!Run
      /\ UNCHANGED <<gplink, ou_links, is_updated, failed_to_update, touched,
                     writes, updates>>
  BY DEF SearchRuns
<1>2. thread \in Search!Threads /\ gplink \in [OUs -> Strings]
  BY DEF ManagerInv, TypeOK
<1>3. CASE Search!Connect
  <2>1. /\ UNCHANGED events
        /\ thread' \in Search!Threads /\ thread'.sent = thread.sent
        /\ thread.phase = "connect" /\ thread'.phase \in {"search", "ended"}
    BY <1>2, <1>3 DEF Search!Connect, Search!Threads
  <2> QED
    BY <1>1, <2>1, QuietStep
<1>4. CASE Search!CheckPage
  <2>1. /\ UNCHANGED events
        /\ thread' \in Search!Threads /\ thread'.sent = thread.sent
        /\ thread.phase = "check" /\ thread'.phase \in {"search", "ended"}
    BY <1>2, <1>4 DEF Search!CheckPage, Search!Threads
  <2> QED
    BY <1>1, <2>1, QuietStep
<1>5. ASSUME NEW page \in Search!Pages, \A ou \in DOMAIN page : page[ou] = gplink[ou],
             thread.phase = "search", NEW success \in BOOLEAN, NEW more \in BOOLEAN,
             Search!PageRead(page, success, more)
      PROVE  ManagerInv'
  <2> DEFINE sent == thread.sent \cup DOMAIN page
  <2>0. IF Search!Cardinality(sent) > thread.limit
        THEN /\ thread' = [thread EXCEPT !.phase = "ended", !.success = success,
                                         !.hit_object_display_limit = TRUE]
             /\ UNCHANGED events
        ELSE /\ thread' = [thread EXCEPT !.phase = "check", !.sent = sent,
                                         !.success = success, !.more_pages = more]
             /\ events' = Append(events, Search!ResultsReady(page))
    BY <1>5 DEF Search!PageRead
  <2>1. sent \subseteq OUs
    BY <1>2, PageShape DEF Search!Threads
  <2>2. CASE Search!Cardinality(sent) > thread.limit
    <3>1. /\ UNCHANGED events
          /\ thread' = [thread EXCEPT !.phase = "ended", !.success = success,
                                      !.hit_object_display_limit = TRUE]
      BY <2>0, <2>2
    <3>2. thread' \in Search!Threads /\ thread'.sent = thread.sent /\ thread'.phase = "ended"
      BY <1>2, <3>1 DEF Search!Threads
    <3> QED
      BY <1>1, <1>5, <3>1, <3>2, QuietStep
  <2>3. CASE ~ (Search!Cardinality(sent) > thread.limit)
    <3>1. /\ events' = Append(events, Search!ResultsReady(page))
          /\ thread' = [thread EXCEPT !.phase = "check", !.sent = sent,
                                      !.success = success, !.more_pages = more]
      BY <2>0, <2>3
    <3> HIDE DEF sent
    <3>2. thread' \in Search!Threads /\ thread'.sent = sent /\ thread'.phase = "check"
      BY <1>2, <2>1, <3>1 DEF Search!Threads
    <3> QED
      BY <1>1, <1>5, <3>1, <3>2, SendInv DEF sent
  <2> QED
    BY <2>2, <2>3
<1>6. CASE Search!SearchPage
  <2>1. thread.phase = "search"
    BY <1>6 DEF Search!SearchPage
  <2>2. ASSUME NEW S \in SUBSET Search!Remaining,
               Search!PageRead([o \in S |-> gplink[o]], TRUE, S # Search!Remaining)
        PROVE  ManagerInv'
    <3> DEFINE page == [o \in S |-> gplink[o]]
    <3>1. S \in SUBSET OUs
      BY <1>2 DEF Search!Remaining
    <3>2. page \in [S -> Strings]
      BY <1>2, <3>1
    <3>3. page \in Search!Pages /\ \A ou \in DOMAIN page : page[ou] = gplink[ou]
      BY <3>1, <3>2 DEF Search!Pages
    <3>4. Search!PageRead(page, TRUE, S # Search!Remaining)
      BY <2>2
    <3>5. (S # Search!Remaining) \in BOOLEAN
      OBVIOUS
    <3> HIDE DEF page
    <3> QED
      BY <1>5, <2>1, <3>3, <3>4, <3>5
  <2>3. ASSUME NEW more \in BOOLEAN, Search!PageRead(Search!EmptyPage, FALSE, more)
        PROVE  ManagerInv'
    <3>1. Search!EmptyPage \in Search!Pages /\ DOMAIN Search!EmptyPage = {}
      BY SignalShape
    <3> QED
      BY <1>5, <2>1, <2>3, <3>1
  <2> QED
    BY <1>6, <2>2, <2>3 DEF Search!SearchPage
<1>7. CASE Search!Finish
  BY <1>1, <1>7, FinishInv
<1> QED
  BY <1>1, <1>3, <1>4, <1>6, <1>7 DEF Search!Run

LEMMA ResultsSlotInv ==
    ASSUME ManagerInv, ResultsSlot
    PROVE  ManagerInv'
<1> DEFINE page == Head(events).page
<1>1. /\ events # << >> /\ Head(events).signal = "results_ready" /\ events' = Tail(events)
      /\ UNCHANGED <<gplink, is_updated, failed_to_update, thread, touched, writes, updates>>
  BY DEF ResultsSlot
<1>2. /\ events' \in Seq(Search!Events)
      /\ Head(events) = events[1] /\ Head(events) \in Search!Events
      /\ 1 \in Waiting /\ Len(events') = Len(events) - 1
      /\ \A i \in DOMAIN events' : i + 1 \in Waiting /\ events'[i] = events[i + 1]
      /\ \A i \in Waiting : i = 1 \/ (i - 1 \in DOMAIN events' /\ events'[i - 1] = events[i])
  BY <1>1, TailShape DEF ManagerInv
<1>3. page \in Search!Pages
  BY <1>1, <1>2, EventShape, SignalShape
<1>4. ou_links' = [ou \in OUs |-> IF ou \in DOMAIN page /\ page[ou] # NoLinks
                                  THEN page[ou] ELSE ou_links[ou]]
  BY DEF ResultsSlot, CachePage
<1> HIDE DEF page
<1>5. TypeOK'
  <2>1. ou_links' \in [OUs -> Strings]
    BY <1>3, <1>4, PageShape DEF ManagerInv, TypeOK
  <2> QED
    BY <1>1, <1>2, <2>1 DEF ManagerInv, TypeOK
<1>6. QueueInv'
  <2>1. ~ (1 = Len(events) /\ thread.phase = "finished")
    BY <1>1, <1>2 DEF ManagerInv, QueueInv
  <2>2. Len(events) \in Nat /\ Len(events') \in Nat /\ Len(events) >= 1
        /\ DOMAIN events' = 1..Len(events') /\ Waiting = 1..Len(events)
    BY <1>1, <1>2 DEF ManagerInv, TypeOK, Waiting
  <2>3. ~ is_updated /\ thread.phase # "none"
    BY <1>1 DEF ManagerInv, QueueInv
  <2>4. \A i \in DOMAIN events' : events'[i].signal = "finished" <=>
                                    i = Len(events') /\ thread.phase = "finished"
    BY <1>2, <2>2 DEF ManagerInv, QueueInv
  <2>5. thread.phase = "finished" => events' # << >>
    BY <1>2, <2>1, <2>2
  <2> QED
    BY <1>1, <2>3, <2>4, <2>5 DEF QueueInv, Waiting
<1>7. PagesFresh'
  BY <1>1, <1>2 DEF ManagerInv, PagesFresh, Waiting
<1>8. SentArrives'
  <2> SUFFICES ASSUME NEW ou \in thread.sent \ touched, gplink[ou] # NoLinks,
                      ou_links'[ou] # gplink[ou]
               PROVE  \E i \in DOMAIN events' : ou \in DOMAIN events'[i].page
    BY <1>1 DEF SentArrives, Waiting
  <2>1. ou \in OUs
    BY DEF ManagerInv, TypeOK, Search!Threads
  <2>2. ou \in DOMAIN page => page[ou] = gplink[ou]
    BY <1>2 DEF ManagerInv, PagesFresh, page
  <2>3. ou \notin DOMAIN page /\ ou_links[ou] # gplink[ou]
    BY <1>4, <2>1, <2>2
  <2>4. PICK i \in Waiting : ou \in DOMAIN events[i].page
    BY <2>3 DEF ManagerInv, SentArrives
  <2>5. i # 1
    BY <1>2, <2>3, <2>4 DEF page
  <2> QED
    BY <1>2, <2>4, <2>5
<1> QED
  BY <1>5, <1>6, <1>7, <1>8 DEF ManagerInv

\* When the slot of finished() runs it is the last event.
LEMMA FinishedIsLast ==
    ASSUME ManagerInv, FinishedSlot
    PROVE  Waiting = {1} /\ Len(events) = 1 /\ events[1] = Search!Finished /\ ~ is_updated
<1>1. /\ events # << >> /\ Head(events).signal = "finished" /\ events' = Tail(events)
  BY DEF FinishedSlot
<1>2. Head(events) = events[1] /\ Head(events) \in Search!Events /\ 1 \in Waiting
  BY <1>1, TailShape DEF ManagerInv
<1>3. Len(events) = 1 /\ ~ is_updated
  BY <1>1, <1>2 DEF ManagerInv, QueueInv
<1>4. Waiting = {1}
  BY <1>3 DEF ManagerInv, TypeOK, Waiting
<1> QED
  BY <1>1, <1>2, <1>3, <1>4, EventShape

LEMMA FinishedSlotInv ==
    ASSUME ManagerInv, FinishedSlot
    PROVE  ManagerInv'
<1>1. /\ thread' = Search!NoThread /\ is_updated' = TRUE
      /\ failed_to_update' = thread.failed_to_connect
      /\ UNCHANGED <<gplink, ou_links, touched, writes, updates>>
  BY DEF FinishedSlot
<1>2. events' = << >>
  <2>1. events' = Tail(events) /\ events # << >>
    BY DEF FinishedSlot
  <2>2. events' \in Seq(Search!Events) /\ Len(events') = 0
    BY <2>1, TailShape, FinishedIsLast DEF ManagerInv
  <2> QED
    BY <2>2
<1>3. /\ thread' \in Search!Threads /\ thread'.phase = "none" /\ thread'.sent = {}
      /\ failed_to_update' \in BOOLEAN /\ is_updated' \in BOOLEAN
  BY <1>1 DEF Search!NoThread, Search!Threads, ManagerInv, TypeOK
<1>4. TypeOK'
  BY <1>1, <1>2, <1>3 DEF ManagerInv, TypeOK
<1>5. QueueInv' /\ PagesFresh' /\ SentArrives'
  BY <1>1, <1>2, <1>3 DEF QueueInv, PagesFresh, SentArrives, Waiting
<1> QED
  BY <1>4, <1>5 DEF ManagerInv

\* An edit of one OU, of which the cache hears or not.
LEMMA EditInv ==
    ASSUME ManagerInv, NEW ou \in OUs, NEW str \in Strings, Written(ou, str),
           SetGplink(ou, str) \/ UNCHANGED ou_links,
           UNCHANGED <<is_updated, failed_to_update, thread, events, updates>>
    PROVE  ManagerInv'
<1>1. /\ gplink' = [gplink EXCEPT ![ou] = str] /\ touched' = touched \cup {ou}
      /\ writes' = writes + 1
  BY DEF Written
<1>2. \A other \in OUs \ {ou} : gplink'[other] = gplink[other]
                                /\ ou_links'[other] = ou_links[other]
  BY <1>1 DEF SetGplink, ManagerInv, TypeOK
<1>3. TypeOK'
  BY <1>1 DEF SetGplink, ManagerInv, TypeOK
<1>4. QueueInv'
  BY DEF ManagerInv, QueueInv, Waiting
<1>5. thread.sent \subseteq OUs
  BY DEF ManagerInv, TypeOK, Search!Threads
<1>6. \A i \in Waiting : DOMAIN events[i].page \subseteq OUs
  <2> SUFFICES ASSUME NEW i \in Waiting PROVE DOMAIN events[i].page \subseteq OUs
    OBVIOUS
  <2>1. events[i] \in Search!Events
    BY DEF ManagerInv, TypeOK, Waiting
  <2> QED
    BY <2>1, EventShape, PageShape, SignalShape
<1>7. PagesFresh'
  BY <1>1, <1>2, <1>6 DEF ManagerInv, PagesFresh, Waiting
<1>8. SentArrives'
  BY <1>1, <1>2, <1>5 DEF ManagerInv, SentArrives, Waiting
<1> QED
  BY <1>3, <1>4, <1>7, <1>8 DEF ManagerInv

LEMMA SearchCardinality == \A S : Search!Cardinality(S) = Cardinality(S)
BY DEF Search!Cardinality, Cardinality, Search!IsFiniteSet, IsFiniteSet

LEMMA ManagerStep ==
    ASSUME ManagerInv, [Next]_vars
    PROVE  ManagerInv'
<1>1. CASE Update
  BY <1>1, UpdateInv
<1>2. CASE SearchRuns
  BY <1>2, SearchRunsInv
<1>3. CASE Slots
  BY <1>3, ResultsSlotInv, FinishedSlotInv DEF Slots
<1>4. ASSUME NEW ou \in OUs, NEW str \in Strings, EditLink(ou, str) \/ OtherAdmin(ou, str)
      PROVE  ManagerInv'
  BY <1>4, EditInv DEF EditLink, OtherAdmin
<1>5. CASE UNCHANGED vars
  BY <1>5 DEF vars, ManagerInv, TypeOK, QueueInv, PagesFresh, SentArrives, Waiting
<1> QED
  BY <1>1, <1>2, <1>3, <1>4, <1>5 DEF Next

\* The cache and its thread keep their types, whatever fails.
THEOREM ManagerTypeOK == Spec => []TypeOK
<1>1. ManagerInv /\ [Next]_vars => ManagerInv'
  BY ManagerStep
<1>2. ManagerInv => TypeOK
  BY DEF ManagerInv
<1> QED
  BY ManagerInit, <1>1, <1>2, PTL DEF Spec

\* update() can begin only when no page and no finished() of an earlier update
\* is left to arrive: is_updated guards the whole life of the thread.
THEOREM ManagerIdleIsQuiet == Spec => []IdleIsQuiet
<1>1. ManagerInv /\ [Next]_vars => ManagerInv'
  BY ManagerStep
<1>2. ManagerInv => IdleIsQuiet
  BY DEF ManagerInv, QueueInv, IdleIsQuiet
<1> QED
  BY ManagerInit, <1>1, <1>2, PTL DEF Spec

\* When finished() ends an update, every OU that was sent and that nobody
\* edited meanwhile is in the cache as the server has it, unless its links
\* were all taken away: no page is lost, late or overtaken.
THEOREM ManagerUpdateRefreshes == Spec => UpdateRefreshes
<1>1. ManagerInv /\ [Next]_vars => ManagerInv'
  BY ManagerStep
<1>2. ASSUME ManagerInv, Next, ~ is_updated, is_updated',
             NEW ou \in thread.sent \ touched, gplink[ou] # NoLinks
      PROVE  ou_links[ou] = gplink[ou]
  <2>1. FinishedSlot
    BY <1>2 DEF Next, Update, SearchRuns, Slots, ResultsSlot, EditLink, OtherAdmin
  <2>2. Waiting = {1} /\ events[1] = Search!Finished
    BY <1>2, <2>1, FinishedIsLast
  <2>3. \A i \in Waiting : ou \notin DOMAIN events[i].page
    BY <2>2, SignalShape
  <2> QED
    BY <1>2, <2>3 DEF ManagerInv, SentArrives
<1>3. ManagerInv /\ [Next]_vars =>
        [~is_updated /\ is_updated' =>
            \A ou \in thread.sent \ touched :
                gplink[ou] # NoLinks => ou_links[ou] = gplink[ou]]_vars
  BY <1>2
<1> QED
  BY ManagerInit, <1>1, <1>3, PTL DEF Spec, UpdateRefreshes
-----------------------------------------------------------------------------
\* How a search may end.
ReadAll ==
    \/ thread.sent = OUs
    \/ thread.failed_to_connect
    \/ thread.hit_object_display_limit /\ Cardinality(OUs) > thread.limit
    \/ ~thread.success /\ "read" \in Faults

\* What the thread knows of its last page when it decides to go on or not.
ReadsInv ==
    /\ thread.stop_flag = FALSE
    /\ thread.phase = "check" =>
            /\ thread.success /\ ~thread.more_pages => thread.sent = OUs
            /\ ~thread.success => "read" \in Faults
    /\ thread.phase \in {"ended", "finished"} => ReadAll

LEMMA PageReadReads ==
    ASSUME TypeOK, ReadsInv, NEW page, DOMAIN page \subseteq OUs,
           NEW success \in BOOLEAN, NEW more \in BOOLEAN,
           success /\ ~more => thread.sent \cup DOMAIN page = OUs,
           ~success => "read" \in Faults,
           Search!PageRead(page, success, more)
    PROVE  ReadsInv'
<1> DEFINE sent == thread.sent \cup DOMAIN page
<1>1. thread \in Search!Threads /\ sent \subseteq OUs
  BY DEF TypeOK, Search!Threads
<1>2. IF Search!Cardinality(sent) > thread.limit
      THEN /\ thread' = [thread EXCEPT !.phase = "ended", !.success = success,
                                       !.hit_object_display_limit = TRUE]
           /\ UNCHANGED events
      ELSE /\ thread' = [thread EXCEPT !.phase = "check", !.sent = sent,
                                       !.success = success, !.more_pages = more]
           /\ events' = Append(events, Search!ResultsReady(page))
  BY DEF Search!PageRead
<1>3. CASE Search!Cardinality(sent) > thread.limit
  <2>1. Cardinality(sent) > thread.limit
    BY <1>3, SearchCardinality
  <2>2. Cardinality(sent) \in Nat /\ Cardinality(OUs) \in Nat
        /\ Cardinality(sent) <= Cardinality(OUs)
    BY <1>1, ManagerAssumption, FS_Subset, FS_CardinalityType
  <2>3. thread.limit \in Nat
    <3>1. DisplayLimits \subseteq Nat
      BY ManagerAssumption DEF Search!SearchAssumption
    <3>2. thread.limit \in DisplayLimits \cup {0}
      BY <1>1 DEF Search!Threads
    <3>3. 0 \in Nat
      OBVIOUS
    <3> QED
      BY <3>1, <3>2, <3>3, Zenon
  <2>4. Cardinality(OUs) > thread.limit
    BY <2>1, <2>2, <2>3
  <2>5. /\ thread'.phase = "ended" /\ thread'.hit_object_display_limit
        /\ thread'.limit = thread.limit /\ thread'.stop_flag = thread.stop_flag
    BY <1>1, <1>2, <1>3 DEF Search!Threads
  <2> QED
    BY <2>4, <2>5 DEF ReadsInv, ReadAll
<1>4. CASE ~ (Search!Cardinality(sent) > thread.limit)
  <2>1. thread' = [thread EXCEPT !.phase = "check", !.sent = sent,
                                 !.success = success, !.more_pages = more]
    BY <1>2, <1>4
  <2>2. /\ thread'.phase = "check" /\ thread'.sent = sent
        /\ thread'.stop_flag = thread.stop_flag
        /\ thread'.success = success /\ thread'.more_pages = more
    BY <1>1, <2>1 DEF Search!Threads
  <2> QED
    BY <2>2 DEF ReadsInv
<1> QED
  BY <1>3, <1>4

LEMMA ReadsStep ==
    ASSUME TypeOK, ReadsInv, [Next]_vars
    PROVE  ReadsInv'
<1>1. thread \in Search!Threads /\ DOMAIN gplink = OUs
  BY DEF TypeOK
<1>2. CASE UNCHANGED thread
  BY <1>2 DEF ReadsInv, ReadAll
<1>3. CASE Update
  BY <1>3 DEF Update, Search!Start, Search!NewThread, Search!NoThread, ReadsInv
<1>4. CASE FinishedSlot
  BY <1>4 DEF FinishedSlot, Search!NoThread, ReadsInv
<1>5. CASE Search!Connect
  BY <1>1, <1>5 DEF Search!Connect, Search!Threads, ReadsInv, ReadAll
<1>6. CASE Search!SearchPage
  <2>1. ASSUME NEW S \in SUBSET Search!Remaining,
               Search!PageRead([o \in S |-> gplink[o]], TRUE, S # Search!Remaining)
        PROVE  ReadsInv'
    <3> DEFINE page == [o \in S |-> gplink[o]]
               more == S # Search!Remaining
    <3>1. /\ DOMAIN page \subseteq OUs /\ more \in BOOLEAN
          /\ ~more => thread.sent \cup DOMAIN page = OUs
      BY <1>1 DEF Search!Remaining, Search!Threads
    <3>2. Search!PageRead(page, TRUE, more)
      BY <2>1
    <3> HIDE DEF page, more
    <3> QED
      BY <3>1, <3>2, PageReadReads
  <2>2. ASSUME NEW more \in BOOLEAN, "read" \in Faults,
               Search!PageRead(Search!EmptyPage, FALSE, more)
        PROVE  ReadsInv'
    BY <2>2, SignalShape, PageReadReads
  <2> QED
    BY <1>6, <2>1, <2>2 DEF Search!SearchPage
<1>7. CASE Search!CheckPage
  <2>1. /\ thread.phase = "check"
        /\ thread' = [thread EXCEPT !.phase =
                        IF ~(~thread.success \/ thread.stop_flag) /\ thread.more_pages
                        THEN "search" ELSE "ended"]
    BY <1>7 DEF Search!CheckPage
  <2>2. CASE thread'.phase = "search"
    BY <1>1, <2>1, <2>2 DEF ReadsInv, Search!Threads
  <2>3. CASE thread'.phase # "search"
    <3>1. ~thread.success \/ ~thread.more_pages
      BY <1>1, <2>1, <2>3 DEF ReadsInv, Search!Threads
    <3>2. thread.sent = OUs \/ (~thread.success /\ "read" \in Faults)
      BY <2>1, <3>1 DEF ReadsInv
    <3>3. thread'.sent = thread.sent /\ thread'.success = thread.success
          /\ thread'.stop_flag = thread.stop_flag /\ thread'.phase = "ended"
      BY <1>1, <2>1, <2>3 DEF Search!Threads
    <3> QED
      BY <3>2, <3>3 DEF ReadsInv, ReadAll
  <2> QED
    BY <2>2, <2>3
<1>8. CASE Search!Finish
  BY <1>1, <1>8 DEF Search!Finish, Search!Threads, ReadsInv, ReadAll
<1>9. CASE \E ou \in OUs, str \in Strings : EditLink(ou, str) \/ OtherAdmin(ou, str)
  BY <1>2, <1>9 DEF EditLink, OtherAdmin
<1> QED
  BY <1>2, <1>3, <1>4, <1>5, <1>6, <1>7, <1>8, <1>9
  DEF Next, SearchRuns, Search!Run, Slots, ResultsSlot, vars

\* An update ends with every OU read, or with one of the reasons the code has
\* for stopping early, and never for another: a failed connection, more OUs
\* than the display limit, a page that could not be read.
THEOREM ManagerUpdateReadsAll == Spec => UpdateReadsAll
<1>1. Init => ManagerInv /\ ReadsInv
  BY ManagerInit DEF Init, ReadsInv, Search!NoThread
<1>2. ManagerInv /\ ReadsInv /\ [Next]_vars => (ManagerInv /\ ReadsInv)'
  BY ManagerStep, ReadsStep DEF ManagerInv
<1>3. ASSUME ManagerInv, ReadsInv, Next, ~ is_updated, is_updated'
      PROVE  \/ thread.sent = OUs
             \/ thread.failed_to_connect /\ failed_to_update'
             \/ thread.hit_object_display_limit /\ Cardinality(OUs) > thread.limit
             \/ ~thread.success /\ "read" \in Faults
  <2>1. FinishedSlot
    BY <1>3 DEF Next, Update, SearchRuns, Slots, ResultsSlot, EditLink, OtherAdmin
  <2>2. thread.phase = "finished"
    BY <1>3, <2>1, FinishedIsLast, SignalShape DEF ManagerInv, QueueInv
  <2> QED
    BY <1>3, <2>1, <2>2 DEF ReadsInv, ReadAll, FinishedSlot
<1>4. ManagerInv /\ ReadsInv /\ [Next]_vars =>
        [~is_updated /\ is_updated' =>
            \/ thread.sent = OUs
            \/ thread.failed_to_connect /\ failed_to_update'
            \/ thread.hit_object_display_limit /\ Cardinality(OUs) > thread.limit
            \/ ~thread.success /\ "read" \in Faults]_vars
  BY <1>3
<1> QED
  BY <1>1, <1>2, <1>4, PTL DEF Spec, UpdateReadsAll
===============================================================================
