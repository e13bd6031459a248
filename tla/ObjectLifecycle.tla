--------------------------- MODULE ObjectLifecycle ---------------------------
(***************************************************************************)
(* Creating and deleting in several calls to the server: a policy, which   *)
(* is an object with two containers below it, a directory on the file      *)
(* share and links from OUs (gpo_add(), gpo_delete()), and a user, an      *)
(* object that is given its attributes after it was added                  *)
(* (CreateObjectHelper).  Both are deleted by object_delete(), which tries *)
(* in three ways.  One action is one call: any may fail, others change the *)
(* directory in between, and ADMC may be killed.                           *)
(***************************************************************************)
EXTENDS Naturals, FiniteSets

CONSTANTS
    Targets,            \* what is created and deleted: "policy", "user"
    TreeDelete,         \* whether the server knows LDAP_CONTROL_X_TREE_DELETE
    OUs,                \* OUs that may link the policy
    Faults,             \* "write", "read": the directory; "share": the files
    MaxOps,             \* bound: operations of the user
    MaxFailures,        \* bound: calls that fail
    MaxOthers,          \* bound: changes by others
    MaxCrashes          \* bound: times ADMC is killed

ASSUME ObjectLifecycleAssumption ==
    /\ Targets \subseteq {"policy", "user"} /\ TreeDelete \subseteq BOOLEAN
    /\ Faults \subseteq {"write", "read", "share"}
    /\ MaxOps \in Nat /\ MaxFailures \in Nat /\ MaxOthers \in Nat /\ MaxCrashes \in Nat

VARIABLES
    server,             \* the directory and the file share
    op,                 \* the operation under way
    shown,              \* whether the console shows the object
    counts              \* counters of the bounds

vars == <<server, op, shown, counts>>

-----------------------------------------------------------------------------
(* The parts of a policy or a user.                                        *)

Objects == {"object", "user_container", "machine_container", "class_store"}
Attributes == {"path", "name", "uac", "edits", "version"}
Files == {"gpt", "machine_dir", "user_dir", "ini", "pol"}
Parts == Objects \cup Attributes \cup Files

\* What a part is in: "version" is what GPT.INI contains, "path" and "name"
\* stand for the attributes of a policy.
Above(p) ==
    CASE p \in {"object", "gpt"} -> "none"
      [] p \in {"machine_dir", "user_dir", "ini"} -> "gpt"
      [] p = "pol" -> "machine_dir"
      [] p = "version" -> "ini"
      [] p = "class_store" -> "machine_container"
      [] OTHER -> "object"

Depth(p) ==
    CASE Above(p) = "none" -> 0
      [] Above(p) \in {"object", "gpt"} -> 1
      [] OTHER -> 2

\* The calls that create, in their order; the attributes of a policy come out
\* of a hash table.
Created(target) ==
    IF target = "user" THEN {"object", "uac", "edits"}
    ELSE {"gpt", "machine_dir", "user_dir", "ini", "version", "object",
          "path", "name", "user_container", "machine_container"}

Order(p) ==
    CASE p = "gpt" -> 1 [] p = "machine_dir" -> 2 [] p = "user_dir" -> 3
      [] p = "ini" -> 4 [] p = "version" -> 5 [] p = "object" -> 6
      [] p \in {"path", "name", "uac"} -> 7 [] p = "edits" -> 8
      [] p = "user_container" -> 9 [] OTHER -> 10

First(todo) == {p \in todo : \A q \in todo : Order(p) <= Order(q)}
Deepest(todo) == {p \in todo : \A q \in todo : Depth(q) <= Depth(p)}

IsPolicy == server.target = "policy"

\* Nothing is in it but its attributes.
IsLeaf(p) == \A q \in server.parts : Above(q) = p => q \in Attributes

\* The server without some parts and their attributes.
Without(gone) ==
    [server EXCEPT
        !.parts = {p \in @ : p \notin gone /\ (p \in Attributes => Above(p) \notin gone)},
        !.protected = @ /\ "object" \notin gone]

-----------------------------------------------------------------------------
(* The operation under way: where it is ("pc"), what it has yet to do, what *)
(* it found out, and three things for the properties: the parts there were *)
(* before, what others changed since, and whether no call failed but the    *)
(* creating ones.                                                           *)

Idle ==
    [kind |-> "none", pc |-> "idle", todo |-> {}, ok |-> TRUE, path |-> FALSE,
     deleted |-> FALSE, unread |-> FALSE, before |-> {}, since |-> {}, clean |-> TRUE]

Init ==
    /\ \E target \in Targets, tree_delete \in TreeDelete, critical \in BOOLEAN,
          exists \in BOOLEAN :
           /\ critical => target = "policy" /\ exists
           /\ server = [target |-> target, tree_delete |-> tree_delete,
                        critical |-> critical, protected |-> FALSE,
                        parts |-> IF exists THEN Created(target) ELSE {},
                        linked |-> IF exists /\ target = "policy" THEN OUs ELSE {}]
           /\ shown = exists
    /\ op = Idle
    /\ counts = [ops |-> 0, failures |-> 0, others |-> 0, crashes |-> 0]

At(pc) == op.pc = pc /\ UNCHANGED shown

Goto(pc) == [op EXCEPT !.pc = pc, !.todo = {}]

\* A fault, unless it is in the creation itself, has disturbed the operation.
Failed(o) == [o EXCEPT !.clean = @ /\ op.pc = "create"]

\* A call that leads to "after" and goes on with "next", unless it is not
\* possible or fails for a fault, and "failed" comes next.
Call(possible, after, next, fault, failed) ==
    \/ possible /\ server' = after /\ op' = next /\ UNCHANGED counts
    \/ ~possible /\ op' = failed /\ UNCHANGED <<server, counts>>
    \/ /\ fault \in Faults /\ counts.failures < MaxFailures
       /\ counts' = [counts EXCEPT !.failures = @ + 1]
       /\ op' = Failed(failed)
       /\ UNCHANGED server

\* ADMC stops in the middle, and is started again.
Killed ==
    /\ op' = Idle
    /\ shown' = ("object" \in server.parts)
    /\ UNCHANGED server

-----------------------------------------------------------------------------
(* object_delete()                                                         *)

\* What its caller does next.
ObjectReturned(ok) ==
    CASE op.kind = "add" /\ IsPolicy    -> Goto("stat")
      [] op.kind = "add" /\ ~IsPolicy   -> Goto("returned")
      [] op.kind = "delete" /\ IsPolicy -> [Goto("list") EXCEPT !.deleted = ok, !.ok = ok]
      [] OTHER                          -> [Goto("returned") EXCEPT !.deleted = ok, !.ok = ok]

\* With the control, where the server knows it, whatever is below is deleted;
\* only then does the server heed the protection from deletion.
DeleteTree ==
    /\ At("tree")
    /\ Call(/\ "object" \in server.parts /\ ~server.critical
            /\ IF server.tree_delete THEN ~server.protected ELSE IsLeaf("object"),
            Without(Objects), ObjectReturned(TRUE), "write", Goto("search"))

Search(found) ==
    /\ op.pc = "search" /\ "object" \in server.parts
    /\ op' = found
    /\ UNCHANGED <<server, shown, counts>>

Listed == [op EXCEPT !.pc = "plain", !.todo = server.parts \cap Objects]

\* Fault: the protection is left to the server.
SearchTreeUnprotected == Search(Listed)

\* The object and what is below it; the object tells whether it is protected.
SearchTree == Search(IF server.protected THEN ObjectReturned(FALSE) ELSE Listed)

\* If the search fails or the object has gone, the entry that operator[] makes
\* for it has no descriptor, and the null pointer of it is followed.
SearchFails ==
    /\ op.pc = "search"
    /\ \/ "object" \notin server.parts /\ UNCHANGED counts
       \/ /\ "read" \in Faults /\ counts.failures < MaxFailures
          /\ counts' = [counts EXCEPT !.failures = @ + 1]
    /\ Killed

\* Without the control; that there is something below is no failure.
DeletePlain ==
    /\ At("plain")
    /\ Call("object" \in server.parts /\ ~(server.critical /\ IsLeaf("object")),
            IF IsLeaf("object") THEN Without({"object"}) ELSE server,
            [op EXCEPT !.pc = "below"], "write", ObjectReturned(FALSE))

\* Fault: an object that could not be deleted is passed over.
DeleteBelowAll ==
    /\ At("below")
    /\ IF op.todo = {} THEN op' = ObjectReturned(TRUE) /\ UNCHANGED <<server, counts>>
       ELSE \E p \in Deepest(op.todo) :
                LET next == [op EXCEPT !.todo = @ \ {p}]
                IN  Call(p \in server.parts /\ IsLeaf(p) /\ ~server.critical,
                         Without({p}), next, "write", next)

\* One after the other, the deepest first and the object itself last.
DeleteBelow ==
    /\ At("below")
    /\ IF op.todo = {} THEN op' = ObjectReturned(TRUE) /\ UNCHANGED <<server, counts>>
       ELSE \E p \in Deepest(op.todo) :
                Call(p \in server.parts /\ IsLeaf(p) /\ ~server.critical,
                     Without({p}), [op EXCEPT !.todo = @ \ {p}],
                     "write", ObjectReturned(FALSE))

-----------------------------------------------------------------------------
(* delete_gpt()                                                            *)

FilesReturned(ok) ==
    IF op.kind = "add" THEN Goto("returned")
    ELSE [Goto("links") EXCEPT !.ok = @ /\ ok]

\* gpo_get_gpt_contents().  An empty path is the server's root, which holds
\* shares that cannot be listed.
ListFiles ==
    /\ At("list")
    /\ Call(op.path /\ "gpt" \in server.parts, server,
            [op EXCEPT !.pc = "files", !.todo = server.parts \cap Files],
            "share", FilesReturned(FALSE))

DeleteFile ==
    /\ At("files")
    /\ IF op.todo = {} THEN op' = FilesReturned(TRUE) /\ UNCHANGED <<server, counts>>
       ELSE \E p \in Deepest(op.todo) :
                Call(p \in server.parts /\ IsLeaf(p), Without({p}),
                     [op EXCEPT !.todo = @ \ {p}], "share", FilesReturned(FALSE))

-----------------------------------------------------------------------------
(* Creating.                                                               *)

\* A policy has a new UUID; the name of a user may be in use.
StartAdd ==
    /\ op.pc = "idle" /\ counts.ops < MaxOps
    /\ IsPolicy => server.parts = {} /\ server.linked = {}
    /\ counts' = [counts EXCEPT !.ops = @ + 1]
    /\ op' = [Idle EXCEPT !.kind = "add", !.pc = "create", !.path = TRUE,
                          !.todo = Created(server.target), !.before = server.parts]
    /\ UNCHANGED <<server, shown>>

\* Where CreateObjectHelper::accept() goes on once a call was made: to the end,
\* or to the removal of an object that was added.
AfterCreating(o) ==
    IF o.todo # {} THEN o ELSE [o EXCEPT !.pc = IF o.ok THEN "returned" ELSE "tree"]

\* Fault: what could not be added is removed like what was.
CreateFailedAlways(p) ==
    CASE IsPolicy                  -> [Goto("cleanup") EXCEPT !.ok = FALSE]
      [] ~IsPolicy /\ p = "object" -> [Goto("tree") EXCEPT !.ok = FALSE]
      [] OTHER                     -> AfterCreating([op EXCEPT !.ok = FALSE, !.todo = @ \ {p}])

\* gpo_add() cleans up after the first call that fails.  accept() does if the
\* object was added, after it has tried everything.
CreateFailed(p) ==
    CASE IsPolicy                  -> [Goto("cleanup") EXCEPT !.ok = FALSE]
      [] ~IsPolicy /\ p = "object" -> [Goto("returned") EXCEPT !.ok = FALSE]
      [] OTHER                     -> AfterCreating([op EXCEPT !.ok = FALSE, !.todo = @ \ {p}])

Create ==
    /\ At("create")
    /\ \E p \in First(op.todo) :
           Call(p \notin server.parts /\ Above(p) \in server.parts \cup {"none"},
                [server EXCEPT !.parts = @ \cup {p}],
                AfterCreating([op EXCEPT !.todo = @ \ {p}]),
                IF p \in Files \cup {"version"} THEN "share" ELSE "write",
                CreateFailed(p))

\* The lambda cleanup(): what a search finds, and then what stat() finds.
Cleanup ==
    /\ At("cleanup")
    /\ Call("object" \in server.parts, server, Goto("tree"), "read", Goto("stat"))

StatFiles ==
    /\ At("stat")
    /\ Call("gpt" \in server.parts, server, Goto("list"), "share", Goto("returned"))

-----------------------------------------------------------------------------
(* Deleting.                                                               *)

StartDelete ==
    /\ op.pc = "idle" /\ shown /\ counts.ops < MaxOps
    /\ counts' = [counts EXCEPT !.ops = @ + 1]
    /\ op' = [Idle EXCEPT !.kind = "delete", !.pc = IF IsPolicy THEN "read" ELSE "tree",
                          !.before = server.parts]
    /\ UNCHANGED <<server, shown>>

\* Fault: the path is read when the object has been deleted.
ReadPolicyLate ==
    /\ At("read")
    /\ Call(TRUE, server,
            IF server.critical THEN [Goto("returned") EXCEPT !.ok = FALSE]
            ELSE [Goto("tree") EXCEPT !.path = "path" \in (server.parts \ Attributes)],
            "read", [Goto("tree") EXCEPT !.unread = TRUE])

\* gpo_delete() reads the path first, and whether the policy is a critical one;
\* a failed read is a policy without a path that is not.
ReadPolicy ==
    /\ At("read")
    /\ Call(TRUE, server,
            IF server.critical THEN [Goto("returned") EXCEPT !.ok = FALSE]
            ELSE [Goto("tree") EXCEPT !.path = "path" \in server.parts],
            "read", [Goto("tree") EXCEPT !.unread = TRUE])

\* The links to the policy, whatever has become of the object and the files.
SearchLinks ==
    /\ At("links")
    /\ Call(TRUE, server, [op EXCEPT !.pc = "unlink", !.todo = server.linked],
            "read", Goto("unlink"))

\* The result of the write is ignored.
Unlink ==
    /\ At("unlink")
    /\ IF op.todo = {} THEN op' = Goto("returned") /\ UNCHANGED <<server, counts>>
       ELSE \E ou \in op.todo :
                LET next == [op EXCEPT !.todo = @ \ {ou}]
                IN  Call(TRUE, [server EXCEPT !.linked = @ \ {ou}], next, "write", next)

\* The console shows what was created, and hides what it is told was deleted.
Return ==
    /\ op.pc = "returned"
    /\ shown' = IF op.kind = "add" THEN shown \/ op.ok ELSE shown /\ ~op.deleted
    /\ op' = Idle
    /\ UNCHANGED <<server, counts>>

Refresh ==
    /\ op.pc = "idle"
    /\ shown' = ("object" \in server.parts)
    /\ UNCHANGED <<server, op, counts>>

Crash ==
    /\ op.pc # "idle" /\ counts.crashes < MaxCrashes
    /\ counts' = [counts EXCEPT !.crashes = @ + 1]
    /\ Killed

-----------------------------------------------------------------------------
(* Other administrators, and the programs that edit policies.              *)

Others(what, after) ==
    /\ counts.others < MaxOthers
    /\ counts' = [counts EXCEPT !.others = @ + 1]
    /\ server' = after
    /\ op' = IF op.pc = "idle" THEN op ELSE [op EXCEPT !.since = @ \cup {what}]
    /\ UNCHANGED shown

OthersProtect ==
    /\ "object" \in server.parts
    /\ Others("protected", [server EXCEPT !.protected = ~@])

OthersLink ==
    \E ou \in OUs \ server.linked :
        /\ IsPolicy /\ "object" \in server.parts
        /\ Others(ou, [server EXCEPT !.linked = @ \cup {ou}])

OthersAdd ==
    \E p \in {"class_store", "pol"} \ server.parts :
        /\ Above(p) \in server.parts
        /\ Others(p, [server EXCEPT !.parts = @ \cup {p}])

OthersDelete ==
    /\ "object" \in server.parts /\ ~server.critical /\ ~server.protected
    /\ Others("deleted", Without(Objects))

DeleteObject == DeleteTree \/ SearchTree \/ SearchFails \/ DeletePlain \/ DeleteBelow
Add == StartAdd \/ Create \/ Cleanup \/ StatFiles
Delete == StartDelete \/ ReadPolicy \/ SearchLinks \/ Unlink
Step == Add \/ Delete \/ DeleteObject \/ ListFiles \/ DeleteFile \/ Return

Next ==
    \/ Step \/ Refresh \/ Crash
    \/ OthersProtect \/ OthersLink \/ OthersAdd \/ OthersDelete

Spec == Init /\ [][Next]_vars

-----------------------------------------------------------------------------
(* Properties.                                                             *)

\* gpo_add() and CreateObjectHelper::accept(): success means that all parts are
\* there; failure that there is nothing but what was there before, unless a
\* call of the clean-up failed too or others changed the object meanwhile.
AddIsAllOrNothing ==
    op.kind = "add" /\ op.pc = "returned" =>
        \/ op.ok /\ Created(server.target) \subseteq server.parts
        \/ ~op.ok /\ server.parts = op.before
        \/ ~op.ok /\ ~op.clean
        \/ op.since # {}

\* gpo_delete() and object_delete(): what the console is told was deleted is
\* gone with all that was below it.
ToldDeletedIsGone ==
    op.kind = "delete" /\ op.pc = "returned" /\ op.deleted =>
        server.parts \cap Objects = {}

\* Whatever an earlier attempt or a crash has left of it, a policy that has its
\* path or a user is deleted by an attempt that nothing disturbs: the object,
\* the files and the links.  The path is read from the object: left out is a
\* policy whose object has gone, whose files and links no later attempt finds.
CleanDeleteFinishes ==
    /\ op.kind = "delete" /\ op.pc = "returned"
    /\ op.clean /\ op.since = {} /\ ~server.protected /\ ~server.critical
    /\ IsPolicy => "path" \in op.before
    => server.parts = {} /\ server.linked = {}

\* object_delete() and gpo_delete(): ADMC removes no object that is protected
\* from deletion, nor what is below it, although the server would let it; and
\* no part of a critical policy it could read.  That a server without the
\* control deletes a protected object with nothing below it is the server's.
\* Left out is a protection set by others after the search: the descriptor is
\* not read again.
ProtectedStays ==
    [][Step =>
         /\ (/\ server.protected
             /\ op.pc \in {"plain", "below"} => "protected" \notin op.since
             /\ server.tree_delete \/ ~IsLeaf("object"))
            => server.parts \cap Objects \subseteq server'.parts
         /\ server.critical /\ ~op.unread
            => /\ server.parts \subseteq server'.parts
               /\ server.linked \subseteq server'.linked]_vars

\* gpo_delete(): "try to execute both steps, even if first one (deleting gpc)
\* fails": unless it is killed from outside, it goes on from the object to the
\* files.
BothStepsTried ==
    [][op.kind = "delete" /\ IsPolicy /\ op.pc \in {"tree", "search", "plain", "below"} =>
         \/ op'.pc \in {"tree", "search", "plain", "below", "list"}
         \/ counts'.crashes > counts.crashes]_vars
=============================================================================
