---------------------------- MODULE SearchThread ----------------------------
(***************************************************************************)
(* SearchThread (src/src/admc/core/search_thread.cpp): a QThread that      *)
(* reads a directory page by page and emits each page to the main thread.  *)
(* Emitting crosses threads, so the signals wait in the main thread's      *)
(* event queue and their slots run there later, in the order of emission.  *)
(*                                                                         *)
(* directory maps the objects that match the search to what the search     *)
(* returns of them.  It belongs to the server and may change at any time:  *)
(* a page holds what the objects were when the page was read, and objects  *)
(* that appear or go while the search runs may or may not be met by it.    *)
(* Log messages are left out.                                              *)
(***************************************************************************)
EXTENDS Naturals, FiniteSets, Sequences

CONSTANTS
    Objects,        \* everything that may match the search
    Data,           \* what a search may return of an object
    PageSize,       \* objects per page, 100 in search_paged_internal
    DisplayLimits,  \* values of SETTING_object_display_limit
    Faults          \* what may go wrong

PossibleFaults == {"connect", "read", "write"}

\* What the module that instantiates this one assumes of the constants.
SearchAssumption ==
    /\ PageSize \in Nat \ {0}
    /\ DisplayLimits \subseteq Nat
    /\ Faults \subseteq PossibleFaults

VARIABLES
    directory,      \* [object -> data] on the server
    thread,         \* the search thread, or NoThread
    events          \* signals posted to the main thread and not yet delivered

NoThread == [phase |-> "none", sent |-> {}, stop_flag |-> FALSE,
             failed_to_connect |-> FALSE, hit_object_display_limit |-> FALSE,
             limit |-> 0, success |-> FALSE, more_pages |-> FALSE]

\* The constructor, and start().
NewThread == [NoThread EXCEPT !.phase = "connect"]

\* Pages are functions from some of the objects to their data.
Pages == UNION {[S -> Data] : S \in SUBSET Objects}

EmptyPage == [o \in {} |-> o]

ResultsReady(page) == [signal |-> "results_ready", page |-> page]

Finished == [signal |-> "finished", page |-> EmptyPage]

Threads ==
    [phase : {"none", "connect", "search", "check", "ended", "finished"},
     sent : SUBSET Objects, stop_flag : BOOLEAN, failed_to_connect : BOOLEAN,
     hit_object_display_limit : BOOLEAN, limit : DisplayLimits \cup {0},
     success : BOOLEAN, more_pages : BOOLEAN]

Events == {ResultsReady(page) : page \in Pages} \cup {Finished}

-----------------------------------------------------------------------------
(* run(), as the thread executes it.                                       *)

\* AdInterface ad; if (!ad.is_connected()) return.  The limit is read once.
Connect ==
    /\ thread.phase = "connect"
    /\ \/ \E limit \in DisplayLimits :
            thread' = [thread EXCEPT !.phase = "search", !.limit = limit]
       \/ /\ "connect" \in Faults
          /\ thread' = [thread EXCEPT !.phase = "ended", !.failed_to_connect = TRUE]
    /\ UNCHANGED events

Remaining == DOMAIN directory \ thread.sent

\* Fault: the limit is hit by as many objects as it allows.
PageReadBelowLimit(page, success, more_pages) ==
    LET sent == thread.sent \cup DOMAIN page
    IN  IF Cardinality(sent) >= thread.limit
        THEN /\ thread' = [thread EXCEPT !.phase = "ended", !.success = success,
                                         !.hit_object_display_limit = TRUE]
             /\ UNCHANGED events
        ELSE /\ thread' = [thread EXCEPT !.phase = "check", !.sent = sent,
                                         !.success = success,
                                         !.more_pages = more_pages]
             /\ events' = Append(events, ResultsReady(page))

\* The loop from the return of search_paged up to emit results_ready().  Over
\* the display limit the loop is left before the page is emitted.
PageRead(page, success, more_pages) ==
    LET sent == thread.sent \cup DOMAIN page
    IN  IF Cardinality(sent) > thread.limit
        THEN /\ thread' = [thread EXCEPT !.phase = "ended", !.success = success,
                                         !.hit_object_display_limit = TRUE]
             /\ UNCHANGED events
        ELSE /\ thread' = [thread EXCEPT !.phase = "check", !.sent = sent,
                                         !.success = success,
                                         !.more_pages = more_pages]
             /\ events' = Append(events, ResultsReady(page))

\* search_paged: some of what is left, and whether there are more pages; or,
\* failing, nothing, with the cookie old or new.
SearchPage ==
    /\ thread.phase = "search"
    /\ \/ \E S \in SUBSET Remaining :
            /\ Cardinality(S) <= PageSize
            /\ S = {} => Remaining = {}
            /\ PageRead([o \in S |-> directory[o]], TRUE, S # Remaining)
       \/ "read" \in Faults /\ \E more \in BOOLEAN : PageRead(EmptyPage, FALSE, more)

\* The rest of the loop: interrupted, failed, or no more pages.
CheckPage ==
    /\ thread.phase = "check"
    /\ LET search_interrupted == ~thread.success \/ thread.stop_flag
       IN  thread' = [thread EXCEPT !.phase =
                        IF ~search_interrupted /\ thread.more_pages
                        THEN "search" ELSE "ended"]
    /\ UNCHANGED events

\* Fault: finished() overtakes the pages.
FinishFirst ==
    /\ thread.phase = "ended"
    /\ thread' = [thread EXCEPT !.phase = "finished"]
    /\ events' = <<Finished>> \o events

\* QThread emits finished() when run() has returned.  The object stays until
\* the slot has called deleteLater().
Finish ==
    /\ thread.phase = "ended"
    /\ thread' = [thread EXCEPT !.phase = "finished"]
    /\ events' = Append(events, Finished)

Run == Connect \/ SearchPage \/ CheckPage \/ Finish

-----------------------------------------------------------------------------
(* What the main thread does with the thread.                              *)

Start == thread.phase = "none" /\ thread' = NewThread

\* stop(): takes effect once the current page is done.
Stopped(t) == [t EXCEPT !.stop_flag = TRUE]

=============================================================================
