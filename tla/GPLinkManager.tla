---------------------------- MODULE GPLinkManager ----------------------------
(***************************************************************************)
(* GPLinkManager (src/src/admc/core/managers/gplink_manager.cpp): the      *)
(* process-wide cache of every OU's gPLink attribute.  update() fills it   *)
(* from a SearchThread while the rest of the program goes on reading it    *)
(* and, through set_gplink(), writing it after each edit of a link.        *)
(*                                                                         *)
(* gplink is the attribute as the server holds it.  Besides ADMC's own     *)
(* edits it is written by other administrators, of whom ADMC hears         *)
(* nothing.  A link string is an opaque value here.                        *)
(***************************************************************************)
EXTENDS Naturals, FiniteSets, Sequences

CONSTANTS
    OUs,            \* the OUs and the domain
    Strings,        \* gPLink attributes
    NoLinks,        \* the absent, empty or blank attribute
    PageSize, DisplayLimits, Faults,
    MaxWrites,      \* bound on the edits of a behaviour
    MaxUpdates      \* bound on the updates of a behaviour

VARIABLES
    gplink,             \* the server: [OUs -> Strings]
    ou_links,           \* the cache; NoLinks for an OU without an entry
    is_updated,         \* no update is running
    failed_to_update,
    thread, events,     \* of the search thread, see SearchThread
    touched,            \* history: OUs edited since the last update() began
    writes, updates     \* counters for the bounds

Search == INSTANCE SearchThread
            WITH Objects <- OUs, Data <- Strings, directory <- gplink

ASSUME ManagerAssumption ==
    /\ IsFiniteSet(OUs) /\ NoLinks \in Strings
    /\ MaxWrites \in Nat /\ MaxUpdates \in Nat
    /\ Search!SearchAssumption

vars == <<gplink, ou_links, is_updated, failed_to_update, thread, events,
          touched, writes, updates>>

TypeOK ==
    /\ gplink \in [OUs -> Strings]
    /\ ou_links \in [OUs -> Strings]
    /\ is_updated \in BOOLEAN /\ failed_to_update \in BOOLEAN
    /\ thread \in Search!Threads
    /\ events \in Seq(Search!Events)
    /\ touched \subseteq OUs
    /\ writes \in Nat /\ updates \in Nat

Init ==
    /\ gplink \in [OUs -> Strings]
    /\ ou_links = [ou \in OUs |-> NoLinks]
    /\ is_updated = TRUE /\ failed_to_update = FALSE
    /\ thread = Search!NoThread /\ events = << >>
    /\ touched = {}
    /\ writes = 0 /\ updates = 0

-----------------------------------------------------------------------------
\* update(), when the console loads and when the domain item is refreshed;
\* it does nothing while an update runs.
Update ==
    /\ updates < MaxUpdates
    /\ is_updated
    /\ is_updated' = FALSE
    /\ Search!Start
    /\ touched' = {}
    /\ updates' = updates + 1
    /\ UNCHANGED <<gplink, ou_links, failed_to_update, events, writes>>

\* The worker thread.
SearchRuns ==
    /\ Search!Run
    /\ UNCHANGED <<gplink, ou_links, is_updated, failed_to_update, touched,
                   writes, updates>>

\* Fault: a page replaces the cache.
CacheOnlyPage(page) == ou_links' = page

\* Fault: an OU is cached once.
CachePageOnce(page) ==
    ou_links' = [ou \in OUs |-> IF ou \in DOMAIN page /\ ou_links[ou] = NoLinks
                                THEN page[ou] ELSE ou_links[ou]]

\* set_gplink() of every result that has links.
CachePage(page) ==
    ou_links' = [ou \in OUs |-> IF ou \in DOMAIN page /\ page[ou] # NoLinks
                                THEN page[ou] ELSE ou_links[ou]]

\* The slot of results_ready.
ResultsSlot ==
    /\ events # << >> /\ Head(events).signal = "results_ready"
    /\ CachePage(Head(events).page)
    /\ events' = Tail(events)
    /\ UNCHANGED <<gplink, is_updated, failed_to_update, thread, touched,
                   writes, updates>>

\* Fault: after a failure the manager still counts as updating.
FinishedSlotOfSuccess ==
    /\ events # << >> /\ Head(events).signal = "finished"
    /\ failed_to_update' = thread.failed_to_connect
    /\ is_updated' = ~thread.failed_to_connect
    /\ thread' = Search!NoThread
    /\ events' = Tail(events)
    /\ UNCHANGED <<gplink, ou_links, touched, writes, updates>>

\* The slot of finished.
FinishedSlot ==
    /\ events # << >> /\ Head(events).signal = "finished"
    /\ failed_to_update' = thread.failed_to_connect
    /\ is_updated' = TRUE
    /\ thread' = Search!NoThread
    /\ events' = Tail(events)
    /\ UNCHANGED <<gplink, ou_links, touched, writes, updates>>

\* set_gplink() of one OU.
SetGplink(ou, str) == ou_links' = [ou_links EXCEPT ![ou] = str]

Written(ou, str) ==
    /\ writes < MaxWrites
    /\ writes' = writes + 1
    /\ gplink' = [gplink EXCEPT ![ou] = str]
    /\ touched' = touched \cup {ou}

\* An edit of a link in the console: the attribute is replaced, and on success
\* set_gplink() stores what was written.
EditLink(ou, str) ==
    /\ Written(ou, str)
    /\ SetGplink(ou, str)
    /\ UNCHANGED <<is_updated, failed_to_update, thread, events, updates>>

OtherAdmin(ou, str) ==
    /\ Written(ou, str)
    /\ UNCHANGED <<ou_links, is_updated, failed_to_update, thread, events,
                   updates>>

Slots == ResultsSlot \/ FinishedSlot

Next ==
    \/ Update
    \/ SearchRuns
    \/ Slots
    \/ \E ou \in OUs, str \in Strings : EditLink(ou, str) \/ OtherAdmin(ou, str)

\* The operating system runs the thread and the event loop delivers events.
Fairness == WF_vars(SearchRuns) /\ WF_vars(Slots)

Spec == Init /\ [][Next]_vars /\ Fairness

-----------------------------------------------------------------------------
\* While no update runs nothing of an earlier one is left to arrive: a page of
\* one update never lands in the cache after the next has begun.
IdleIsQuiet ==
    is_updated => events = << >> /\ thread = Search!NoThread

\* When finished() reports success, the links of every OU that nobody edited
\* since update() began are in the cache as the server has them.  Links that
\* were taken away are the exception: set_gplink() is not called for an OU
\* whose attribute has become empty.  Only a complete search is meant; see
\* the README for the display limit.
UpdateRefreshes ==
    [][~is_updated /\ is_updated' =>
        \A ou \in thread.sent \ touched :
            gplink[ou] # NoLinks => ou_links[ou] = gplink[ou]]_vars

\* The search that update() started has read every OU when it reports its end,
\* unless it failed or ran into the display limit.
UpdateReadsAll ==
    [][~is_updated /\ is_updated' =>
        \/ thread.sent = OUs
        \/ thread.failed_to_connect /\ failed_to_update'
        \/ thread.hit_object_display_limit /\ Cardinality(OUs) > thread.limit
        \/ ~thread.success /\ "read" \in Faults]_vars

\* An update that began ends, so that a refresh of the domain can begin the
\* next: is_updated is the only thing that lets update() run again.
UpdateEnds == ~is_updated ~> is_updated
=============================================================================
