----------------------- MODULE ObjectLifecycle_proofs -----------------------
(***************************************************************************)
(* What object_delete() says was deleted is gone, for every set of OUs,    *)
(* every kind of fault and any number of failures, of changes by others    *)
(* and of crashes.                                                         *)
(*                                                                         *)
(* The argument: what is below an object of the directory is below         *)
(* something that is there (Nested), so that when the object itself has    *)
(* gone everything has; and until its deletion was tried the object is in  *)
(* the list of what is to be deleted (ObjectIsLast).                       *)
(*                                                                         *)
(* And what is protected from deletion, or a critical policy, stays: after *)
(* the search has found no protection only others can set it (Guarded).    *)
(*                                                                         *)
(* A creation leaves all or nothing, and a deletion that nothing disturbs  *)
(* finishes: every part is in one that is there (Whole), of a list of such *)
(* parts the deepest has nothing in it (DeepestIsLeaf), so that no call is *)
(* refused (Removing), and what is left when the object and the directory  *)
(* have gone is nothing (WholeEmpty).                                      *)
(***************************************************************************)
EXTENDS ObjectLifecycle, TLAPS

Places == {"idle", "create", "cleanup", "stat", "read", "tree", "search", "plain",
           "below", "list", "files", "links", "unlink", "returned"}

OpType ==
    [kind : {"none", "add", "delete"}, pc : Places, todo : SUBSET (Parts \cup OUs),
     ok : BOOLEAN, path : BOOLEAN, deleted : BOOLEAN, unread : BOOLEAN,
     before : SUBSET Parts, since : SUBSET (Parts \cup OUs \cup {"protected", "deleted"}),
     clean : BOOLEAN]

ServerType ==
    [target : {"policy", "user"}, tree_delete : BOOLEAN, critical : BOOLEAN,
     protected : BOOLEAN, parts : SUBSET Parts, linked : SUBSET OUs]

TypeOK == op \in OpType /\ server \in ServerType

NestedIn(parts) ==
    \A p \in parts \cap Objects : p # "object" => Above(p) \in parts

Nested == NestedIn(server.parts)

ObjectIsLast ==
    op.pc \in {"plain", "below"} => "object" \in op.todo \/ "object" \notin server.parts

Told ==
    op.deleted => op.pc # "create" /\ "object" \notin server.parts

CreatesParts ==
    op.pc = "create" => op.todo \subseteq Parts

IInv == TypeOK /\ Nested /\ ObjectIsLast /\ Told /\ CreatesParts

-----------------------------------------------------------------------------
(* Parts.                                                                  *)

\* What a part of the directory is in.
LEMMA AboveObjects ==
    /\ Above("user_container") = "object" /\ Above("machine_container") = "object"
    /\ Above("class_store") = "machine_container"
    /\ Above("object") = "none"
    /\ \A p \in Attributes : Above(p) \in {"object", "ini"}
    /\ \A p \in Files : Above(p) \in {"none", "gpt", "machine_dir"}
  BY DEF Above, Attributes, Files

\* When the object has gone nothing is left below it.
LEMMA NothingBelow ==
    ASSUME NEW parts \in SUBSET Parts, NestedIn(parts), "object" \notin parts
    PROVE  parts \cap Objects = {}
<1>1. "user_container" \notin parts /\ "machine_container" \notin parts
  BY AboveObjects DEF NestedIn, Objects
<1>2. "class_store" \notin parts
  BY <1>1, AboveObjects DEF NestedIn, Objects
<1> QED
  BY <1>1, <1>2 DEF Objects

\* What Without() leaves.
LEMMA WithoutIs ==
    ASSUME TypeOK, NEW gone
    PROVE  /\ Without(gone) \in ServerType
           /\ Without(gone).parts =
                {p \in server.parts : p \notin gone /\ (p \in Attributes => Above(p) \notin gone)}
<1> DEFINE
      parts == {p \in server.parts : p \notin gone /\ (p \in Attributes => Above(p) \notin gone)}
      protected == server.protected /\ "object" \notin gone
<1>1. parts \in SUBSET Parts /\ protected \in BOOLEAN
  BY DEF TypeOK, ServerType
<1>2. Without(gone) = [server EXCEPT !.parts = parts, !.protected = protected]
  BY DEF Without
<1> HIDE DEF parts, protected
<1>3. Without(gone) \in ServerType /\ Without(gone).parts = parts
  BY <1>1, <1>2 DEF TypeOK, ServerType
<1> QED
  BY <1>3 DEF parts

\* A part with nothing in it can be removed.
LEMMA LeafRemoved ==
    ASSUME TypeOK, Nested, NEW p \in Parts, IsLeaf(p)
    PROVE  /\ Without({p}) \in ServerType
           /\ NestedIn(Without({p}).parts)
           /\ Without({p}).parts \subseteq server.parts
           /\ p \notin Without({p}).parts
<1> DEFINE after == {q \in server.parts : q \notin {p} /\ (q \in Attributes => Above(q) \notin {p})}
<1>1. Without({p}) \in ServerType /\ Without({p}).parts = after
  BY WithoutIs
<1>2. \A q \in server.parts \cap Objects : q # p => q \in after
  BY DEF Objects, Attributes
<1>3. ASSUME NEW q \in after \cap Objects, q # "object"
      PROVE  Above(q) \in after
  <2>1. Above(q) \in server.parts
    BY <1>3 DEF Nested, NestedIn
  <2>2. Above(q) \in Objects
    BY <1>3, AboveObjects DEF Objects
  <2>3. Above(q) # p
    BY <1>3 DEF IsLeaf, Objects, Attributes
  <2> QED
    BY <1>2, <2>1, <2>2, <2>3
<1> QED
  BY <1>1, <1>3 DEF NestedIn

\* So can the object with everything below it.
LEMMA ObjectsRemoved ==
    ASSUME TypeOK
    PROVE  /\ Without(Objects) \in ServerType
           /\ Without(Objects).parts \cap Objects = {}
           /\ Without(Objects).parts \subseteq server.parts
  BY WithoutIs

-----------------------------------------------------------------------------
(* Every step keeps the invariant.                                         *)

\* Where the operations go.
LEMMA GotoType ==
    ASSUME TypeOK, NEW pc \in Places
    PROVE  Goto(pc) \in OpType /\ Goto(pc) = [op EXCEPT !.pc = pc, !.todo = {}]
  BY DEF Goto, TypeOK, OpType

\* A call that failed leads to where its failure leads.
LEMMA FaultType ==
    ASSUME NEW o \in OpType
    PROVE  /\ Failed(o) \in OpType
           /\ Failed(o).pc = o.pc
           /\ Failed(o).deleted = o.deleted
           /\ Failed(o).todo = o.todo
<1> DEFINE clean == o.clean /\ op.pc = "create"
<1>1. clean \in BOOLEAN /\ Failed(o) = [o EXCEPT !.clean = clean]
  BY DEF Failed, OpType
<1> HIDE DEF clean
<1> QED
  BY <1>1 DEF OpType

\* What object_delete() returns to.
LEMMA ObjectReturnedType ==
    ASSUME TypeOK, NEW ok \in BOOLEAN
    PROVE  /\ ObjectReturned(ok) \in OpType
           /\ ObjectReturned(ok).pc \in {"stat", "list", "returned"}
           /\ ObjectReturned(ok).deleted \in {ok, op.deleted}
  BY DEF ObjectReturned, Goto, TypeOK, OpType, Places

\* What delete_gpt() returns to.
LEMMA FilesReturnedType ==
    ASSUME TypeOK, NEW ok \in BOOLEAN
    PROVE  /\ FilesReturned(ok) \in OpType
           /\ FilesReturned(ok).pc \in {"links", "returned"}
           /\ FilesReturned(ok).deleted = op.deleted
<1>1. (op.ok /\ ok) \in BOOLEAN
  OBVIOUS
<1> QED
  BY <1>1 DEF FilesReturned, Goto, TypeOK, OpType, Places

\* A step that leaves the parts alone, and is neither in the deletion of the
\* object nor in a creation afterwards.
LEMMA PartsStay ==
    ASSUME IInv, op' \in OpType, server' \in ServerType,
           server'.parts = server.parts,
           op'.pc \notin {"plain", "below", "create"},
           op'.deleted => op.deleted
    PROVE  IInv'
  BY DEF IInv, TypeOK, Nested, ObjectIsLast, Told, CreatesParts

\* A step that removes parts.
LEMMA PartsGo ==
    ASSUME IInv, op' \in OpType, server' \in ServerType,
           server'.parts \subseteq server.parts, NestedIn(server'.parts),
           op'.pc \in {"plain", "below"} =>
               "object" \in op'.todo \/ "object" \notin server'.parts,
           op'.pc # "create",
           op'.deleted => "object" \notin server'.parts
    PROVE  IInv'
  BY DEF IInv, TypeOK, Nested, ObjectIsLast, Told, CreatesParts

LEMMA IdleType == Idle \in OpType /\ Idle.pc = "idle" /\ ~Idle.deleted
  BY DEF Idle, OpType, Places

LEMMA InitIInv == Init => IInv
<1> SUFFICES ASSUME Init PROVE IInv
  OBVIOUS
<1>1. PICK target \in Targets, tree_delete \in TreeDelete, critical \in BOOLEAN, exists \in BOOLEAN :
        server = [target |-> target, tree_delete |-> tree_delete,
                  critical |-> critical, protected |-> FALSE,
                  parts |-> IF exists THEN Created(target) ELSE {},
                  linked |-> IF exists /\ target = "policy" THEN OUs ELSE {}]
  BY DEF Init
<1>2. Created(target) \in SUBSET Parts
  BY DEF Created, Parts, Objects, Attributes, Files
<1>3. server \in ServerType /\ server.parts \in {Created(target), {}}
  BY <1>1, <1>2, ObjectLifecycleAssumption DEF ServerType
<1>4. NestedIn({}) /\ NestedIn(Created(target))
  BY AboveObjects DEF NestedIn, Created, Objects
<1>5. op = Idle
  BY DEF Init
<1> QED
  BY <1>3, <1>4, <1>5, IdleType DEF IInv, TypeOK, Nested, ObjectIsLast, Told, CreatesParts

-----------------------------------------------------------------------------
(* Deleting an object.                                                     *)

LEMMA DeleteTreeIInv == IInv /\ DeleteTree => IInv'
<1> SUFFICES ASSUME IInv, DeleteTree PROVE IInv'
  OBVIOUS
<1> USE DEF IInv
<1> DEFINE failed == Goto("search")
<1>1. \/ server' = Without(Objects) /\ op' = ObjectReturned(TRUE)
      \/ server' = server /\ op' \in {failed, Failed(failed)}
  BY DEF DeleteTree, Call
<1>2. CASE server' = Without(Objects) /\ op' = ObjectReturned(TRUE)
  <2>1. "object" \notin Without(Objects).parts /\ NestedIn(Without(Objects).parts)
    BY ObjectsRemoved DEF NestedIn, Objects
  <2> QED
    BY <1>2, <2>1, ObjectsRemoved, ObjectReturnedType, PartsGo
<1>3. CASE server' = server /\ op' \in {failed, Failed(failed)}
  <2>1. failed \in OpType /\ failed.pc = "search" /\ failed.deleted = op.deleted
    BY DEF Goto, TypeOK, OpType, Places
  <2> HIDE DEF failed
  <2>2. op' \in OpType /\ op'.pc = "search" /\ op'.deleted = op.deleted
    BY <1>3, <2>1, FaultType
  <2> QED
    BY <1>3, <2>2, PartsStay DEF TypeOK
<1> QED
  BY <1>1, <1>2, <1>3

LEMMA SearchTreeIInv == IInv /\ SearchTree => IInv'
<1> SUFFICES ASSUME IInv, SearchTree PROVE IInv'
  OBVIOUS
<1> USE DEF IInv
<1>1. op' \in {ObjectReturned(FALSE), Listed} /\ server' = server /\ "object" \in server.parts
  BY DEF SearchTree, Search
<1>2. CASE op' = ObjectReturned(FALSE)
  BY <1>1, <1>2, ObjectReturnedType, PartsStay DEF TypeOK
<1>3. CASE op' = Listed
  <2>1. Listed \in OpType /\ Listed.pc = "plain" /\ Listed.deleted = op.deleted
        /\ "object" \in Listed.todo
    BY <1>1 DEF Listed, TypeOK, OpType, ServerType, Places, Objects
  <2> QED
    BY <1>1, <1>3, <2>1, PartsGo DEF TypeOK, Nested, Told
<1> QED
  BY <1>1, <1>2, <1>3

LEMMA KilledIInv == IInv /\ Killed => IInv'
<1> SUFFICES ASSUME IInv, Killed PROVE IInv'
  OBVIOUS
<1> USE DEF IInv
<1> QED
  BY IdleType, PartsStay DEF Killed, TypeOK

LEMMA DeletePlainIInv == IInv /\ DeletePlain => IInv'
<1> SUFFICES ASSUME IInv, DeletePlain PROVE IInv'
  OBVIOUS
<1> USE DEF IInv
<1> DEFINE next == [op EXCEPT !.pc = "below"]
           failed == ObjectReturned(FALSE)
           after == IF IsLeaf("object") THEN Without({"object"}) ELSE server
<1>1. \/ server' = after /\ op' = next
      \/ server' = server /\ op' \in {failed, Failed(failed)}
  BY DEF DeletePlain, Call
<1>2. CASE server' = after /\ op' = next
  <2>1. /\ next \in OpType /\ next.pc = "below" /\ next.todo = op.todo
        /\ next.deleted = op.deleted
    BY DEF TypeOK, OpType, Places
  <2>2. after \in ServerType /\ after.parts \subseteq server.parts /\ NestedIn(after.parts)
    <3>1. CASE IsLeaf("object")
      BY <3>1, LeafRemoved DEF Parts, Objects
    <3>2. CASE ~IsLeaf("object")
      BY <3>2 DEF TypeOK, Nested
    <3> QED
      BY <3>1, <3>2
  <2>3. op.pc = "plain"
    BY DEF DeletePlain, At
  <2> HIDE DEF after, next
  <2>4. "object" \in next.todo \/ "object" \notin after.parts
    BY <2>1, <2>2, <2>3 DEF ObjectIsLast
  <2> QED
    BY <1>2, <2>1, <2>2, <2>4, PartsGo DEF Told
<1>3. CASE server' = server /\ op' \in {failed, Failed(failed)}
  <2>1. op' \in OpType /\ op'.pc = failed.pc /\ op'.deleted = failed.deleted
    <3> HIDE DEF failed
    <3>1. failed \in OpType
      BY ObjectReturnedType DEF failed
    <3> QED
      BY <1>3, <3>1, FaultType
  <2> QED
    BY <1>3, <2>1, ObjectReturnedType, PartsStay DEF TypeOK
<1> QED
  BY <1>1, <1>2, <1>3

LEMMA DeleteBelowIInv == IInv /\ DeleteBelow => IInv'
<1> SUFFICES ASSUME IInv, DeleteBelow PROVE IInv'
  OBVIOUS
<1> USE DEF IInv
<1>0. op.pc = "below"
  BY DEF DeleteBelow, At
<1>1. CASE op.todo = {}
  <2>1. op' = ObjectReturned(TRUE) /\ server' = server
    BY <1>1 DEF DeleteBelow
  <2>2. "object" \notin server.parts
    BY <1>0, <1>1 DEF ObjectIsLast
  <2> QED
    BY <2>1, <2>2, ObjectReturnedType, PartsGo DEF TypeOK, Nested
<1>2. CASE op.todo # {}
  <2> DEFINE failed == ObjectReturned(FALSE)
             next(p) == [op EXCEPT !.todo = @ \ {p}]
  <2>1. PICK p \in Deepest(op.todo) :
          \/ server' = Without({p}) /\ op' = next(p) /\ p \in server.parts /\ IsLeaf(p)
          \/ server' = server /\ op' \in {failed, Failed(failed)}
    BY <1>2 DEF DeleteBelow, Call
  <2>2. CASE server' = Without({p}) /\ op' = next(p) /\ p \in server.parts /\ IsLeaf(p)
    <3>1. /\ next(p) \in OpType /\ next(p).pc = "below" /\ next(p).todo = op.todo \ {p}
          /\ next(p).deleted = op.deleted
      BY <1>0 DEF TypeOK, OpType
    <3>2. p \in Parts
      BY <2>2 DEF TypeOK, ServerType
    <3> HIDE DEF next
    <3>3. "object" \in next(p).todo \/ "object" \notin Without({p}).parts
      BY <1>0, <2>2, <3>1, <3>2, LeafRemoved DEF ObjectIsLast
    <3> QED
      BY <2>2, <3>1, <3>2, <3>3, LeafRemoved, PartsGo DEF Told
  <2>3. CASE server' = server /\ op' \in {failed, Failed(failed)}
    <3>1. op' \in OpType /\ op'.pc = failed.pc /\ op'.deleted = failed.deleted
      <4> HIDE DEF failed
      <4>1. failed \in OpType
        BY ObjectReturnedType DEF failed
      <4> QED
        BY <2>3, <4>1, FaultType
    <3> QED
      BY <2>3, <3>1, ObjectReturnedType, PartsStay DEF TypeOK
  <2> QED
    BY <2>1, <2>2, <2>3
<1> QED
  BY <1>1, <1>2

-----------------------------------------------------------------------------
(* The files, the links and the rest of a deletion.                        *)

LEMMA ListFilesIInv == IInv /\ ListFiles => IInv'
<1> SUFFICES ASSUME IInv, ListFiles PROVE IInv'
  OBVIOUS
<1> USE DEF IInv
<1> DEFINE next == [op EXCEPT !.pc = "files", !.todo = server.parts \cap Files]
           failed == FilesReturned(FALSE)
<1>1. server' = server /\ op' \in {next, failed, Failed(failed)}
  BY DEF ListFiles, Call
<1>2. next \in OpType /\ next.pc = "files" /\ next.deleted = op.deleted
  BY DEF TypeOK, OpType, ServerType, Places
<1>3. failed \in OpType /\ failed.pc \in {"links", "returned"} /\ failed.deleted = op.deleted
  BY FilesReturnedType
<1> HIDE DEF next, failed
<1>4. /\ op' \in OpType /\ op'.pc \in {"files", "links", "returned"}
      /\ op'.deleted = op.deleted
  BY <1>1, <1>2, <1>3, FaultType
<1> QED
  BY <1>1, <1>4, PartsStay DEF TypeOK

LEMMA DeleteFileIInv == IInv /\ DeleteFile => IInv'
<1> SUFFICES ASSUME IInv, DeleteFile PROVE IInv'
  OBVIOUS
<1> USE DEF IInv
<1>1. CASE op.todo = {}
  <2>1. op' = FilesReturned(TRUE) /\ server' = server
    BY <1>1 DEF DeleteFile
  <2> QED
    BY <2>1, FilesReturnedType, PartsStay DEF TypeOK
<1>2. CASE op.todo # {}
  <2> DEFINE failed == FilesReturned(FALSE)
             next(p) == [op EXCEPT !.todo = @ \ {p}]
  <2>1. PICK p \in Deepest(op.todo) :
          \/ server' = Without({p}) /\ op' = next(p) /\ p \in server.parts /\ IsLeaf(p)
          \/ server' = server /\ op' \in {failed, Failed(failed)}
    BY <1>2 DEF DeleteFile, Call
  <2>2. next(p) \in OpType /\ next(p).pc = "files" /\ next(p).deleted = op.deleted
    BY DEF DeleteFile, At, TypeOK, OpType
  <2>3. failed \in OpType /\ failed.pc \in {"links", "returned"} /\ failed.deleted = op.deleted
    BY FilesReturnedType
  <2> HIDE DEF next, failed
  <2>4. /\ op' \in OpType /\ op'.pc \in {"files", "links", "returned"}
        /\ op'.deleted = op.deleted
    BY <2>1, <2>2, <2>3, FaultType
  <2>5. /\ server' \in ServerType /\ server'.parts \subseteq server.parts
        /\ NestedIn(server'.parts)
    <3>1. p \in server.parts => p \in Parts
      BY DEF TypeOK, ServerType
    <3> QED
      BY <2>1, <3>1, LeafRemoved DEF TypeOK, Nested
  <2> QED
    BY <2>4, <2>5, PartsGo DEF Told
<1> QED
  BY <1>1, <1>2

LEMMA DeleteStepIInv == IInv /\ Delete => IInv'
<1> SUFFICES ASSUME IInv, Delete PROVE IInv'
  OBVIOUS
<1> USE DEF IInv
<1>1. CASE StartDelete
  <2>1. op' \in OpType /\ op'.pc \in {"read", "tree"} /\ ~op'.deleted
    BY <1>1 DEF StartDelete, Idle, OpType, TypeOK, ServerType, Places
  <2> QED
    BY <1>1, <2>1, PartsStay DEF StartDelete, TypeOK
<1>2. CASE ReadPolicy
  <2> DEFINE tree == Goto("tree")
             critical == [Goto("returned") EXCEPT !.ok = FALSE]
             read == [tree EXCEPT !.path = "path" \in server.parts]
             unread == [tree EXCEPT !.unread = TRUE]
  <2>1. server' = server /\ op' \in {critical, read, unread, Failed(unread)}
    <3>1. \/ op' = IF server.critical THEN critical ELSE read
          \/ op' = Failed(unread)
      BY <1>2 DEF ReadPolicy, Call
    <3>2. server' = server
      BY <1>2 DEF ReadPolicy, Call
    <3> HIDE DEF tree, critical, read, unread
    <3> QED
      BY <3>1, <3>2
  <2>2. /\ critical \in OpType /\ critical.pc = "returned" /\ critical.deleted = op.deleted
        /\ tree \in OpType /\ tree.pc = "tree" /\ tree.deleted = op.deleted
    BY DEF Goto, OpType, TypeOK, Places
  <2> HIDE DEF tree, critical
  <2>3. /\ read \in OpType /\ read.pc = "tree" /\ read.deleted = op.deleted
        /\ unread \in OpType /\ unread.pc = "tree" /\ unread.deleted = op.deleted
    <3>1. ("path" \in server.parts) \in BOOLEAN
      OBVIOUS
    <3> QED
      BY <2>2, <3>1 DEF OpType
  <2> HIDE DEF read, unread
  <2>4. op' \in OpType /\ op'.pc \in {"tree", "returned"} /\ op'.deleted = op.deleted
    BY <2>1, <2>2, <2>3, FaultType
  <2> QED
    BY <2>1, <2>4, PartsStay DEF TypeOK
<1>3. CASE SearchLinks
  <2> DEFINE next == [op EXCEPT !.pc = "unlink", !.todo = server.linked]
             failed == Goto("unlink")
  <2>1. server' = server /\ op' \in {next, failed, Failed(failed)}
    BY <1>3 DEF SearchLinks, Call
  <2>2. /\ next \in OpType /\ next.pc = "unlink" /\ next.deleted = op.deleted
        /\ failed \in OpType /\ failed.pc = "unlink" /\ failed.deleted = op.deleted
    BY DEF Goto, OpType, ServerType, TypeOK, Places
  <2> HIDE DEF next, failed
  <2>3. op' \in OpType /\ op'.pc = "unlink" /\ op'.deleted = op.deleted
    BY <2>1, <2>2, FaultType
  <2> QED
    BY <2>1, <2>3, PartsStay DEF TypeOK
<1>4. CASE Unlink
  <2>1. CASE op.todo = {}
    <3>1. op' = Goto("returned") /\ server' = server
      BY <1>4, <2>1 DEF Unlink
    <3>2. op' \in OpType /\ op'.pc = "returned" /\ op'.deleted = op.deleted
      BY <3>1 DEF Goto, OpType, TypeOK, Places
    <3> QED
      BY <3>1, <3>2, PartsStay DEF TypeOK
  <2>2. CASE op.todo # {}
    <3> DEFINE next(ou) == [op EXCEPT !.todo = @ \ {ou}]
               without(ou) == [server EXCEPT !.linked = @ \ {ou}]
    <3>0. PICK ou \in op.todo : Call(TRUE, without(ou), next(ou), "write", next(ou))
      BY <1>4, <2>2 DEF Unlink
    <3> HIDE DEF next, without
    <3>1. /\ server' = server \/ server' = without(ou)
          /\ op' = next(ou) \/ op' = Failed(next(ou))
      BY <3>0 DEF Call
    <3>2. op.pc = "unlink"
      BY <1>4 DEF Unlink, At
    <3>3. next(ou) \in OpType /\ next(ou).pc = "unlink" /\ next(ou).deleted = op.deleted
      BY <3>2 DEF next, OpType, TypeOK
    <3>4. op' \in OpType /\ op'.pc = "unlink" /\ op'.deleted = op.deleted
      BY <3>1, <3>3, FaultType
    <3>5. server' \in ServerType /\ server'.parts = server.parts
      BY <3>1 DEF without, ServerType, TypeOK
    <3> QED
      BY <3>4, <3>5, PartsStay
  <2> QED
    BY <2>1, <2>2
<1> QED
  BY <1>1, <1>2, <1>3, <1>4 DEF Delete

-----------------------------------------------------------------------------
(* Creating, and what others do.                                           *)

LEMMA CreateFailedType ==
    ASSUME TypeOK, NEW p
    PROVE  /\ CreateFailed(p) \in OpType
           /\ CreateFailed(p).deleted = op.deleted
           /\ CreateFailed(p).pc \in {op.pc, "returned", "tree", "cleanup"}
           /\ CreateFailed(p).todo \subseteq op.todo
<1> DEFINE done == [op EXCEPT !.ok = FALSE, !.todo = @ \ {p}]
<1>1. /\ done \in OpType /\ done.pc = op.pc /\ done.deleted = op.deleted
      /\ done.todo \subseteq op.todo
  BY DEF OpType, TypeOK
<1> HIDE DEF done
<1>2. /\ AfterCreating(done) \in OpType /\ AfterCreating(done).deleted = op.deleted
      /\ AfterCreating(done).pc \in {op.pc, "returned", "tree"}
      /\ AfterCreating(done).todo = done.todo
  BY <1>1 DEF AfterCreating, OpType, Places
<1>3. \A pc \in {"cleanup", "returned"} :
        /\ [Goto(pc) EXCEPT !.ok = FALSE] \in OpType
        /\ [Goto(pc) EXCEPT !.ok = FALSE].pc = pc
        /\ [Goto(pc) EXCEPT !.ok = FALSE].deleted = op.deleted
        /\ [Goto(pc) EXCEPT !.ok = FALSE].todo = {}
  BY DEF Goto, OpType, TypeOK, Places
<1>4. CreateFailed(p) \in {AfterCreating(done), [Goto("cleanup") EXCEPT !.ok = FALSE],
                          [Goto("returned") EXCEPT !.ok = FALSE]}
  BY DEF CreateFailed, done
<1> QED
  BY <1>1, <1>2, <1>3, <1>4

LEMMA CreateIInv == IInv /\ Create => IInv'
<1> SUFFICES ASSUME IInv, Create PROVE IInv'
  OBVIOUS
<1> USE DEF IInv
<1> DEFINE next(p) == AfterCreating([op EXCEPT !.todo = @ \ {p}])
           with(p) == [server EXCEPT !.parts = @ \cup {p}]
           fault(p) == IF p \in Files \cup {"version"} THEN "share" ELSE "write"
           possible(p) == p \notin server.parts /\ Above(p) \in server.parts \cup {"none"}
<1>1. op.pc = "create" /\ ~op.deleted
  BY DEF Create, At, Told
<1>2. PICK p \in First(op.todo) : Call(possible(p), with(p), next(p), fault(p), CreateFailed(p))
  BY DEF Create
<1>3. \A o \in OpType : o.pc = "create" /\ ~o.deleted =>
        /\ AfterCreating(o) \in OpType /\ ~AfterCreating(o).deleted
        /\ AfterCreating(o).pc \in {"create", "returned", "tree"}
        /\ AfterCreating(o).todo = o.todo
  BY DEF AfterCreating, OpType, Places
<1>4. /\ next(p) \in OpType /\ ~next(p).deleted
      /\ next(p).pc \in {"create", "returned", "tree"}
      /\ next(p).todo \subseteq op.todo
  <2>1. /\ [op EXCEPT !.todo = @ \ {p}] \in OpType
        /\ [op EXCEPT !.todo = @ \ {p}].pc = "create"
        /\ ~[op EXCEPT !.todo = @ \ {p}].deleted
        /\ [op EXCEPT !.todo = @ \ {p}].todo = op.todo \ {p}
    BY <1>1 DEF OpType, TypeOK
  <2> QED
    BY <1>3, <2>1
<1>5. /\ CreateFailed(p) \in OpType /\ ~CreateFailed(p).deleted
      /\ CreateFailed(p).pc \in {"create", "returned", "tree", "cleanup"}
      /\ CreateFailed(p).todo \subseteq op.todo
  BY <1>1, CreateFailedType
<1>6. \/ server' = server
      \/ server' = with(p) /\ possible(p)
  BY <1>2 DEF Call
<1> HIDE DEF next
<1>7. /\ op' \in OpType /\ ~op'.deleted
      /\ op'.pc \in {"create", "returned", "tree", "cleanup"}
      /\ op'.todo \subseteq op.todo
  <2>1. op' \in {next(p), CreateFailed(p), Failed(CreateFailed(p))}
    BY <1>2 DEF Call
  <2> QED
    BY <1>4, <1>5, <2>1, FaultType
<1>8. server' \in ServerType /\ Nested'
  <2>1. CASE server' = server
    BY <2>1 DEF TypeOK, Nested
  <2>2. CASE server' = with(p) /\ possible(p)
    <3>1. p \in op.todo
      BY DEF First
    <3>2. p \in Parts
      BY <1>1, <3>1 DEF CreatesParts
    <3>3. server' \in ServerType /\ server'.parts = server.parts \cup {p}
      BY <2>2, <3>2 DEF TypeOK, ServerType
    <3>4. p \in Objects /\ p # "object" => Above(p) \in server.parts
      BY <2>2, AboveObjects DEF Objects
    <3> QED
      BY <3>3, <3>4 DEF Nested, NestedIn
  <2> QED
    BY <1>6, <2>1, <2>2
<1> QED
  BY <1>1, <1>7, <1>8 DEF TypeOK, ObjectIsLast, Told, CreatesParts

LEMMA AddIInv == IInv /\ Add => IInv'
<1> SUFFICES ASSUME IInv, Add PROVE IInv'
  OBVIOUS
<1>1. CASE StartAdd
  <2>1. Created(server.target) \in SUBSET Parts
    BY DEF Created, Parts, Objects, Attributes, Files
  <2>2. op' \in OpType /\ ~op'.deleted /\ op'.pc = "create" /\ op'.todo \subseteq Parts
    BY <1>1, <2>1 DEF IInv, StartAdd, Idle, OpType, TypeOK, ServerType, Places
  <2>3. server' = server
    BY <1>1 DEF StartAdd
  <2> QED
    BY <2>2, <2>3 DEF IInv, TypeOK, Nested, ObjectIsLast, Told, CreatesParts
<1>2. CASE Create
  BY <1>2, CreateIInv
<1>3. CASE Cleanup
  <2> DEFINE tree == Goto("tree")
             stat == Goto("stat")
  <2>1. server' = server /\ op' \in {tree, stat, Failed(stat)}
    BY <1>3 DEF Cleanup, Call
  <2>2. /\ tree \in OpType /\ tree.pc = "tree" /\ tree.deleted = op.deleted
        /\ stat \in OpType /\ stat.pc = "stat" /\ stat.deleted = op.deleted
    BY DEF IInv, Goto, OpType, TypeOK, Places
  <2> HIDE DEF tree, stat
  <2>3. op' \in OpType /\ op'.pc \in {"tree", "stat"} /\ op'.deleted = op.deleted
    BY <2>1, <2>2, FaultType
  <2> QED
    BY <2>1, <2>3, PartsStay DEF IInv, TypeOK
<1>4. CASE StatFiles
  <2> DEFINE list == Goto("list")
             returned == Goto("returned")
  <2>1. server' = server /\ op' \in {list, returned, Failed(returned)}
    BY <1>4 DEF StatFiles, Call
  <2>2. /\ list \in OpType /\ list.pc = "list" /\ list.deleted = op.deleted
        /\ returned \in OpType /\ returned.pc = "returned" /\ returned.deleted = op.deleted
    BY DEF IInv, Goto, OpType, TypeOK, Places
  <2> HIDE DEF list, returned
  <2>3. op' \in OpType /\ op'.pc \in {"list", "returned"} /\ op'.deleted = op.deleted
    BY <2>1, <2>2, FaultType
  <2> QED
    BY <2>1, <2>3, PartsStay DEF IInv, TypeOK
<1> QED
  BY <1>1, <1>2, <1>3, <1>4 DEF Add

\* Others add no object that could come back, and nothing below a deleted one.
LEMMA OthersIInv ==
    ASSUME IInv, OthersProtect \/ OthersLink \/ OthersAdd \/ OthersDelete
    PROVE  IInv'
<1> DEFINE since(what) == [op EXCEPT !.since = @ \cup {what}]
           What == Parts \cup OUs \cup {"protected", "deleted"}
<1>1. ASSUME NEW what \in What
      PROVE  /\ since(what) \in OpType
             /\ since(what).pc = op.pc /\ since(what).todo = op.todo
             /\ since(what).deleted = op.deleted
  BY <1>1 DEF IInv, OpType, TypeOK
<1>2. ASSUME NEW what \in What, op' = IF op.pc = "idle" THEN op ELSE since(what)
      PROVE  /\ op' \in OpType
             /\ op'.pc = op.pc /\ op'.todo = op.todo /\ op'.deleted = op.deleted
  <2> HIDE DEF since, What
  <2> QED
    BY <1>1, <1>2 DEF IInv, TypeOK
<1> HIDE DEF since
<1>3. SUFFICES ASSUME op' \in OpType, op'.pc = op.pc, op'.todo = op.todo,
                      op'.deleted = op.deleted
               PROVE  server' \in ServerType /\ Nested'
                      /\ ("object" \in server'.parts => "object" \in server.parts)
  <2>1. \E what \in What : op' = IF op.pc = "idle" THEN op ELSE since(what)
    BY DEF OthersProtect, OthersLink, OthersAdd, OthersDelete, Others, since, Parts, Objects, Files
  <2> QED
    BY <1>2, <1>3, <2>1 DEF IInv, TypeOK, ObjectIsLast, Told, CreatesParts
<1>4. CASE OthersProtect
  <2>1. (~server.protected) \in BOOLEAN
    OBVIOUS
  <2>2. server' = [server EXCEPT !.protected = ~server.protected]
    BY <1>4 DEF OthersProtect, Others
  <2>3. server' \in ServerType /\ server'.parts = server.parts
    BY <2>1, <2>2 DEF IInv, TypeOK, ServerType
  <2> QED
    BY <2>3 DEF IInv, Nested
<1>5. CASE OthersLink
  <2>1. PICK ou \in OUs : server' = [server EXCEPT !.linked = @ \cup {ou}]
    BY <1>5 DEF OthersLink, Others
  <2>2. server' \in ServerType /\ server'.parts = server.parts
    BY <2>1 DEF IInv, TypeOK, ServerType
  <2> QED
    BY <2>2 DEF IInv, Nested
<1>6. CASE OthersAdd
  <2>1. PICK p \in {"class_store", "pol"} :
          Above(p) \in server.parts /\ server' = [server EXCEPT !.parts = @ \cup {p}]
    BY <1>6 DEF OthersAdd, Others
  <2>2. p \in Parts
    BY DEF Parts, Objects, Files
  <2>3. server' \in ServerType /\ server'.parts = server.parts \cup {p}
    BY <2>1, <2>2 DEF IInv, TypeOK, ServerType
  <2> QED
    BY <2>1, <2>3 DEF IInv, Nested, NestedIn
<1>7. CASE OthersDelete
  <2>1. server' = Without(Objects)
    BY <1>7 DEF OthersDelete, Others
  <2> QED
    BY <2>1, ObjectsRemoved DEF IInv, Nested, NestedIn, Objects
<1> QED
  BY <1>4, <1>5, <1>6, <1>7

LEMMA NextIInv == IInv /\ [Next]_vars => IInv'
<1> SUFFICES ASSUME IInv, [Next]_vars PROVE IInv'
  OBVIOUS
<1>1. CASE DeleteObject
  BY <1>1, DeleteTreeIInv, SearchTreeIInv, KilledIInv, DeletePlainIInv, DeleteBelowIInv
  DEF DeleteObject, SearchFails
<1>2. CASE Return \/ Refresh
  <2>1. server' = server /\ (op' = Idle \/ op' = op)
    BY <1>2 DEF Return, Refresh
  <2>2. CASE op' = Idle
    BY <2>1, <2>2, IdleType, PartsStay DEF IInv, TypeOK
  <2>3. CASE op' = op
    BY <2>1, <2>3 DEF IInv, TypeOK, Nested, ObjectIsLast, Told, CreatesParts
  <2> QED
    BY <2>1, <2>2, <2>3
<1>3. CASE Crash
  BY <1>3, KilledIInv DEF Crash
<1>4. CASE UNCHANGED vars
  BY <1>4 DEF vars, IInv, TypeOK, Nested, ObjectIsLast, Told, CreatesParts
<1> QED
  BY <1>1, <1>2, <1>3, <1>4, AddIInv, DeleteStepIInv, ListFilesIInv, DeleteFileIInv, OthersIInv
  DEF Next, Step

-----------------------------------------------------------------------------
(* The results.                                                            *)

\* The invariant holds in every reachable state.
THEOREM LifecycleInvariant == Spec => []IInv
  BY InitIInv, NextIInv, PTL DEF Spec

\* object_delete() and gpo_delete(): what the console is told was deleted is
\* gone with all that was below it, whatever call failed on the way, whatever
\* others did and whenever ADMC was killed.
THEOREM DeletedIsGone == Spec => []ToldDeletedIsGone
<1>1. IInv => ToldDeletedIsGone
  BY NothingBelow DEF IInv, Told, Nested, TypeOK, ServerType, ToldDeletedIsGone
<1> QED
  BY <1>1, LifecycleInvariant, PTL

-----------------------------------------------------------------------------
(* What is protected, and a critical policy, stays.                        *)

\* After the search only what others do can protect the object.
Guarded ==
    op.pc \in {"plain", "below"} /\ "protected" \notin op.since => ~server.protected

FilesOnly ==
    op.pc = "files" => op.todo \subseteq Files

\* A critical policy is neither created nor, if it could be read, deleted.
CriticalUntouched ==
    server.critical =>
        /\ server.target = "policy" /\ "object" \in server.parts
        /\ op.kind # "add" /\ op.pc \notin {"create", "cleanup", "stat"}
        /\ ~op.unread => op.pc \in {"idle", "read", "returned"}

PInv == IInv /\ Guarded /\ FilesOnly /\ CriticalUntouched

\* What ProtectedStays says of a step.
Spared ==
    /\ (/\ server.protected
        /\ op.pc \in {"plain", "below"} => "protected" \notin op.since
        /\ server.tree_delete \/ ~IsLeaf("object"))
       => server.parts \cap Objects \subseteq server'.parts
    /\ server.critical /\ ~op.unread
       => /\ server.parts \subseteq server'.parts
          /\ server.linked \subseteq server'.linked

\* A step of an operation other than its first.
Goes(places) ==
    /\ op'.pc \in places /\ op'.kind = op.kind
    /\ op'.since = op.since /\ op'.unread = op.unread

\* A step that leaves the server alone.
LEMMA ServerStays ==
    ASSUME PInv, IInv', server' = server,
           Goes({"stat", "tree", "search", "list", "links", "unlink", "returned"}),
           op.kind = "add" \/ op'.pc # "stat",
           op.pc \notin {"idle", "read", "returned"}
    PROVE  PInv' /\ Spared
  BY DEF PInv, Guarded, FilesOnly, CriticalUntouched, Spared, Goes

\* The fields of a record that a call that failed leads to.
LEMMA FaultKeeps ==
    ASSUME NEW o \in OpType
    PROVE  /\ Failed(o).pc = o.pc
           /\ Failed(o).kind = o.kind
           /\ Failed(o).since = o.since
           /\ Failed(o).unread = o.unread
           /\ Failed(o).todo = o.todo
<1> DEFINE clean == o.clean /\ op.pc = "create"
<1>1. clean \in BOOLEAN /\ Failed(o) = [o EXCEPT !.clean = clean]
  BY DEF Failed, OpType
<1> HIDE DEF clean
<1> QED
  BY <1>1 DEF OpType

LEMMA GotoKeeps ==
    ASSUME TypeOK, NEW pc \in Places
    PROVE  /\ Goto(pc) \in OpType /\ Goto(pc).pc = pc /\ Goto(pc).todo = {}
           /\ Goto(pc).kind = op.kind /\ Goto(pc).since = op.since
           /\ Goto(pc).unread = op.unread
  BY DEF Goto, TypeOK, OpType

LEMMA ObjectReturnedKeeps ==
    ASSUME TypeOK, NEW ok \in BOOLEAN
    PROVE  /\ ObjectReturned(ok).pc \in {"stat", "list", "returned"}
           /\ ObjectReturned(ok).pc = "stat" => op.kind = "add"
           /\ ObjectReturned(ok).kind = op.kind /\ ObjectReturned(ok).since = op.since
           /\ ObjectReturned(ok).unread = op.unread
  BY DEF ObjectReturned, Goto, TypeOK, OpType, Places

LEMMA FilesReturnedKeeps ==
    ASSUME TypeOK, NEW ok \in BOOLEAN
    PROVE  /\ FilesReturned(ok).pc \in {"links", "returned"}
           /\ FilesReturned(ok).kind = op.kind /\ FilesReturned(ok).since = op.since
           /\ FilesReturned(ok).unread = op.unread
<1>1. (op.ok /\ ok) \in BOOLEAN
  OBVIOUS
<1> QED
  BY <1>1 DEF FilesReturned, Goto, TypeOK, OpType, Places

\* What Without() leaves of the rest.
LEMMA WithoutKeeps ==
    ASSUME TypeOK, NEW gone
    PROVE  /\ Without(gone).critical = server.critical
           /\ Without(gone).target = server.target
           /\ Without(gone).linked = server.linked
           /\ Without(gone).protected => server.protected
<1> DEFINE
      parts == {p \in server.parts : p \notin gone /\ (p \in Attributes => Above(p) \notin gone)}
      protected == server.protected /\ "object" \notin gone
<1>1. protected \in BOOLEAN /\ (protected => server.protected)
  BY DEF TypeOK, ServerType
<1>2. Without(gone) = [server EXCEPT !.parts = parts, !.protected = protected]
  BY DEF Without
<1> HIDE DEF parts, protected
<1> QED
  BY <1>1, <1>2 DEF TypeOK, ServerType

LEMMA DeleteTreeSpares == PInv /\ DeleteTree => PInv' /\ Spared
<1> SUFFICES ASSUME PInv, DeleteTree PROVE PInv' /\ Spared
  OBVIOUS
<1>0. IInv' /\ TypeOK /\ op.pc = "tree"
  BY DeleteTreeIInv DEF PInv, IInv, DeleteTree, At
<1> DEFINE next == ObjectReturned(TRUE)
           failed == Goto("search")
<1>1. \/ /\ server' = Without(Objects) /\ op' = next /\ ~server.critical
         /\ IF server.tree_delete THEN ~server.protected ELSE IsLeaf("object")
      \/ server' = server /\ op' \in {failed, Failed(failed)}
  BY DEF DeleteTree, Call
<1>2. \/ Goes({"stat", "list", "returned"}) /\ (op.kind = "add" \/ op'.pc # "stat")
      \/ Goes({"search"})
  <2>1. "search" \in Places
    BY DEF Places
  <2>2. CASE op' = next
    BY <1>0, <2>2, ObjectReturnedKeeps DEF Goes
  <2>3. CASE op' \in {failed, Failed(failed)}
    <3>1. /\ failed \in OpType /\ failed.pc = "search" /\ failed.kind = op.kind
          /\ failed.since = op.since /\ failed.unread = op.unread
      BY <1>0, <2>1, GotoKeeps
    <3> HIDE DEF failed
    <3> QED
      BY <2>3, <3>1, FaultKeeps DEF Goes
  <2> QED
    BY <1>1, <2>2, <2>3
<1>3. CASE server' = server
  BY <1>0, <1>2, <1>3, ServerStays DEF Goes
<1>4. CASE /\ server' = Without(Objects) /\ ~server.critical
           /\ IF server.tree_delete THEN ~server.protected ELSE IsLeaf("object")
  <2>1. ~server'.critical
    BY <1>0, <1>4, WithoutKeeps
  <2> QED
    BY <1>0, <1>2, <1>4, <2>1
    DEF PInv, Guarded, FilesOnly, CriticalUntouched, Spared, Goes
<1> QED
  BY <1>1, <1>3, <1>4

LEMMA SearchTreeSpares == PInv /\ SearchTree => PInv' /\ Spared
<1> SUFFICES ASSUME PInv, SearchTree PROVE PInv' /\ Spared
  OBVIOUS
<1>0. IInv' /\ TypeOK /\ op.pc = "search" /\ server' = server
  BY SearchTreeIInv DEF PInv, IInv, SearchTree, Search
<1>1. op' = IF server.protected THEN ObjectReturned(FALSE) ELSE Listed
  BY DEF SearchTree, Search
<1>2. CASE server.protected
  <2>1. Goes({"stat", "list", "returned"}) /\ (op.kind = "add" \/ op'.pc # "stat")
    BY <1>0, <1>1, <1>2, ObjectReturnedKeeps DEF Goes
  <2> QED
    BY <1>0, <2>1, ServerStays DEF Goes
<1>3. CASE ~server.protected
  <2>1. Goes({"plain"})
    BY <1>0, <1>1, <1>3 DEF Goes, Listed, TypeOK, OpType
  <2> QED
    BY <1>0, <1>3, <2>1 DEF PInv, Guarded, FilesOnly, CriticalUntouched, Spared, Goes
<1> QED
  BY <1>2, <1>3

LEMMA KilledSpares == PInv /\ Killed => PInv' /\ Spared
<1> SUFFICES ASSUME PInv, Killed PROVE PInv' /\ Spared
  OBVIOUS
<1>1. IInv' /\ server' = server /\ op'.pc = "idle" /\ op'.kind = "none" /\ ~op'.unread
  BY KilledIInv DEF PInv, Killed, Idle
<1> QED
  BY <1>1 DEF PInv, Guarded, FilesOnly, CriticalUntouched, Spared

LEMMA DeletePlainSpares == PInv /\ DeletePlain => PInv' /\ Spared
<1> SUFFICES ASSUME PInv, DeletePlain PROVE PInv' /\ Spared
  OBVIOUS
<1>0. IInv' /\ TypeOK /\ op.pc = "plain"
  BY DeletePlainIInv DEF PInv, IInv, DeletePlain, At
<1> DEFINE next == [op EXCEPT !.pc = "below"]
           failed == ObjectReturned(FALSE)
<1>1. \/ /\ op' = next
         /\ \/ server' = server
            \/ server' = Without({"object"}) /\ ~server.critical
      \/ server' = server /\ op' \in {failed, Failed(failed)}
  BY DEF DeletePlain, Call
<1>2. op' = next => Goes({"below"})
  BY <1>0 DEF Goes, TypeOK, OpType
<1>3. op' \in {failed, Failed(failed)} =>
        Goes({"stat", "list", "returned"}) /\ (op.kind = "add" \/ op'.pc # "stat")
  <2>1. failed \in OpType
    BY <1>0, ObjectReturnedType
  <2> QED
    BY <1>0, <2>1, ObjectReturnedKeeps, FaultKeeps DEF Goes
<1>4. CASE op' = next
  <2>1. (server'.protected => server.protected) /\ server'.critical = server.critical
        /\ (server.critical => server' = server)
    BY <1>0, <1>1, <1>2, <1>3, WithoutKeeps
  <2>2. server.protected => "protected" \in op.since
    BY <1>0 DEF PInv, Guarded
  <2> QED
    BY <1>0, <1>2, <1>4, <2>1, <2>2
    DEF PInv, Guarded, FilesOnly, CriticalUntouched, Spared, Goes
<1>5. CASE server' = server /\ op' \in {failed, Failed(failed)}
  BY <1>0, <1>3, <1>5, ServerStays DEF Goes
<1> QED
  BY <1>1, <1>4, <1>5

LEMMA DeleteBelowSpares == PInv /\ DeleteBelow => PInv' /\ Spared
<1> SUFFICES ASSUME PInv, DeleteBelow PROVE PInv' /\ Spared
  OBVIOUS
<1>0. IInv' /\ TypeOK /\ op.pc = "below"
  BY DeleteBelowIInv DEF PInv, IInv, DeleteBelow, At
<1> DEFINE next(p) == [op EXCEPT !.todo = @ \ {p}]
           failed == ObjectReturned(FALSE)
<1>1. \/ op' = ObjectReturned(TRUE) /\ server' = server
      \/ server' = server /\ op' \in {failed, Failed(failed)}
      \/ \E p \in op.todo :
             op' = next(p) /\ server' = Without({p}) /\ ~server.critical
  BY DEF DeleteBelow, Deepest, Call
<1>2. failed \in OpType
  BY <1>0, ObjectReturnedType
<1>3. CASE server' = server /\ op' \in {ObjectReturned(TRUE), failed, Failed(failed)}
  <2>1. Goes({"stat", "list", "returned"}) /\ (op.kind = "add" \/ op'.pc # "stat")
    BY <1>0, <1>2, <1>3, ObjectReturnedKeeps, FaultKeeps DEF Goes
  <2> QED
    BY <1>0, <1>3, <2>1, ServerStays DEF Goes
<1>4. ASSUME NEW p \in op.todo,
             op' = next(p), server' = Without({p}), ~server.critical
      PROVE  PInv' /\ Spared
  <2>1. Goes({"below"})
    BY <1>0, <1>4 DEF Goes, TypeOK, OpType
  <2>2. ~server'.critical /\ (server'.protected => server.protected)
    BY <1>0, <1>4, WithoutKeeps
  <2>3. server.protected => "protected" \in op.since
    BY <1>0 DEF PInv, Guarded
  <2> QED
    BY <1>0, <1>4, <2>1, <2>2, <2>3
    DEF PInv, Guarded, FilesOnly, CriticalUntouched, Spared, Goes
<1> QED
  BY <1>1, <1>3, <1>4

LEMMA ListFilesSpares == PInv /\ ListFiles => PInv' /\ Spared
<1> SUFFICES ASSUME PInv, ListFiles PROVE PInv' /\ Spared
  OBVIOUS
<1>0. IInv' /\ TypeOK /\ op.pc = "list"
  BY ListFilesIInv DEF PInv, IInv, ListFiles, At
<1> DEFINE next == [op EXCEPT !.pc = "files", !.todo = server.parts \cap Files]
           failed == FilesReturned(FALSE)
<1>1. server' = server /\ op' \in {next, failed, Failed(failed)}
  BY DEF ListFiles, Call
<1>2. CASE op' = next
  <2>1. Goes({"files"}) /\ op'.todo \subseteq Files
    BY <1>0, <1>2 DEF Goes, TypeOK, OpType
  <2> QED
    BY <1>0, <1>1, <2>1 DEF PInv, Guarded, FilesOnly, CriticalUntouched, Spared, Goes
<1>3. CASE op' \in {failed, Failed(failed)}
  <2>1. failed \in OpType
    BY <1>0, FilesReturnedType
  <2>2. Goes({"links", "returned"})
    BY <1>0, <1>3, <2>1, FilesReturnedKeeps, FaultKeeps DEF Goes
  <2> QED
    BY <1>0, <1>1, <2>2, ServerStays DEF Goes
<1> QED
  BY <1>1, <1>2, <1>3

\* A file has no object in it.
LEMMA FileSpares ==
    ASSUME TypeOK, NEW p \in Files
    PROVE  Without({p}).parts \cap Objects = server.parts \cap Objects
<1> DEFINE
      gone == {p}
      parts == {q \in server.parts : q \notin gone /\ (q \in Attributes => Above(q) \notin gone)}
      protected == server.protected /\ "object" \notin gone
<1>1. Without(gone) = [server EXCEPT !.parts = parts, !.protected = protected]
  BY DEF Without
<1>2. \A q \in Objects : q \notin gone /\ q \notin Attributes
  BY DEF Objects, Files, Attributes
<1>3. parts \cap Objects = server.parts \cap Objects
  BY <1>2
<1> HIDE DEF parts, protected, gone
<1>4. Without(gone).parts = parts
  BY <1>1 DEF TypeOK, ServerType
<1> QED
  BY <1>3, <1>4 DEF gone

LEMMA DeleteFileSpares == PInv /\ DeleteFile => PInv' /\ Spared
<1> SUFFICES ASSUME PInv, DeleteFile PROVE PInv' /\ Spared
  OBVIOUS
<1>0. IInv' /\ TypeOK /\ op.pc = "files" /\ op.todo \subseteq Files
  BY DeleteFileIInv DEF PInv, IInv, FilesOnly, DeleteFile, At
<1> DEFINE next(p) == [op EXCEPT !.todo = @ \ {p}]
           failed == FilesReturned(FALSE)
<1>1. \/ server' = server /\ op' \in {FilesReturned(TRUE), failed, Failed(failed)}
      \/ \E p \in op.todo : op' = next(p) /\ server' = Without({p})
  BY DEF DeleteFile, Deepest, Call
<1>2. CASE server' = server /\ op' \in {FilesReturned(TRUE), failed, Failed(failed)}
  <2>1. failed \in OpType
    BY <1>0, FilesReturnedType
  <2>2. Goes({"links", "returned"})
    BY <1>0, <1>2, <2>1, FilesReturnedKeeps, FaultKeeps DEF Goes
  <2> QED
    BY <1>0, <1>2, <2>2, ServerStays DEF Goes
<1>3. ASSUME NEW p \in op.todo, op' = next(p), server' = Without({p})
      PROVE  PInv' /\ Spared
  <2>1. Goes({"files"}) /\ op'.todo \subseteq op.todo
    BY <1>0, <1>3 DEF Goes, TypeOK, OpType
  <2>2. server'.parts \cap Objects = server.parts \cap Objects
    BY <1>0, <1>3, FileSpares
  <2>3. server'.critical = server.critical /\ server'.target = server.target
    BY <1>0, <1>3, WithoutKeeps
  <2>4. "object" \in Objects
    BY DEF Objects
  <2>5. server.critical => op.unread
    BY <1>0 DEF PInv, CriticalUntouched
  <2>6. Spared
    BY <2>2, <2>5 DEF Spared
  <2> QED
    BY <1>0, <2>1, <2>2, <2>3, <2>4, <2>6
    DEF PInv, Guarded, FilesOnly, CriticalUntouched, Goes
<1> QED
  BY <1>1, <1>2, <1>3

LEMMA DeleteStepSpares == PInv /\ Delete => PInv' /\ Spared
<1> SUFFICES ASSUME PInv, Delete PROVE PInv' /\ Spared
  OBVIOUS
<1>0. IInv' /\ TypeOK
  BY DeleteStepIInv DEF PInv, IInv
<1>1. CASE StartDelete
  <2>1. /\ server' = server /\ op'.kind = "delete" /\ op'.since = {} /\ ~op'.unread
        /\ op'.pc = IF IsPolicy THEN "read" ELSE "tree"
    BY <1>1 DEF StartDelete, Idle
  <2> QED
    BY <1>0, <2>1 DEF PInv, Guarded, FilesOnly, CriticalUntouched, Spared, IsPolicy
<1>2. CASE ReadPolicy
  <2> DEFINE stopped == [Goto("returned") EXCEPT !.ok = FALSE]
             tree == [Goto("tree") EXCEPT !.path = "path" \in server.parts]
             unread == [Goto("tree") EXCEPT !.unread = TRUE]
  <2>1. /\ server' = server
        /\ \/ server.critical /\ op' = stopped
           \/ ~server.critical /\ op' = tree
           \/ op' \in {unread, Failed(unread)}
    BY <1>2 DEF ReadPolicy, Call
  <2>2. op.pc = "read"
    BY <1>2 DEF ReadPolicy, At
  <2>3. stopped.pc = "returned" /\ stopped.kind = op.kind
    BY <1>0 DEF Goto, TypeOK, OpType
  <2>4. tree.pc = "tree" /\ tree.kind = op.kind
    BY <1>0 DEF Goto, TypeOK, OpType
  <2>5. unread \in OpType /\ unread.pc = "tree" /\ unread.kind = op.kind /\ unread.unread
    BY <1>0 DEF Goto, TypeOK, OpType, Places
  <2> HIDE DEF stopped, tree, unread
  <2>6. \/ server.critical /\ op'.pc = "returned"
        \/ ~server.critical /\ op'.pc = "tree"
        \/ op'.pc = "tree" /\ op'.unread
    BY <2>1, <2>3, <2>4, <2>5, FaultKeeps
  <2>7. op'.kind = op.kind
    BY <2>1, <2>3, <2>4, <2>5, FaultKeeps
  <2> QED
    BY <1>0, <2>1, <2>2, <2>6, <2>7
    DEF PInv, Guarded, FilesOnly, CriticalUntouched, Spared
<1>3. CASE SearchLinks
  <2> DEFINE next == [op EXCEPT !.pc = "unlink", !.todo = server.linked]
             failed == Goto("unlink")
  <2>1. server' = server /\ op.pc = "links"
        /\ op' \in {next, failed, Failed(failed)}
    BY <1>3 DEF SearchLinks, At, Call
  <2>2. "unlink" \in Places
    BY DEF Places
  <2>3. /\ failed \in OpType /\ failed.pc = "unlink" /\ failed.kind = op.kind
        /\ failed.since = op.since /\ failed.unread = op.unread
    BY <1>0, <2>2, GotoKeeps
  <2>4. /\ next.pc = "unlink" /\ next.kind = op.kind
        /\ next.since = op.since /\ next.unread = op.unread
    BY <1>0 DEF TypeOK, OpType
  <2> HIDE DEF next, failed
  <2>5. Goes({"unlink"})
    BY <2>1, <2>3, <2>4, FaultKeeps DEF Goes
  <2> QED
    BY <1>0, <2>1, <2>5, ServerStays DEF Goes
<1>4. CASE Unlink
  <2>0. op.pc = "unlink"
    BY <1>4 DEF Unlink, At
  <2>1. CASE op.todo = {}
    <3>1. op' = Goto("returned") /\ server' = server /\ "returned" \in Places
      BY <1>4, <2>1 DEF Unlink, Places
    <3>2. Goes({"returned"})
      BY <1>0, <3>1, GotoKeeps DEF Goes
    <3> QED
      BY <1>0, <2>0, <3>1, <3>2, ServerStays DEF Goes
  <2>2. CASE op.todo # {}
    <3> DEFINE next(ou) == [op EXCEPT !.todo = @ \ {ou}]
               without(ou) == [server EXCEPT !.linked = @ \ {ou}]
    <3>1. PICK ou \in op.todo : Call(TRUE, without(ou), next(ou), "write", next(ou))
      BY <1>4, <2>2 DEF Unlink
    <3> HIDE DEF next, without
    <3>2. /\ server' = server \/ server' = without(ou)
          /\ op' = next(ou) \/ op' = Failed(next(ou))
      BY <3>1 DEF Call
    <3>3. /\ next(ou) \in OpType /\ next(ou).pc = "unlink" /\ next(ou).kind = op.kind
          /\ next(ou).since = op.since /\ next(ou).unread = op.unread
      BY <1>0, <2>0 DEF next, OpType, TypeOK
    <3>4. Goes({"unlink"})
      BY <3>2, <3>3, FaultKeeps DEF Goes
    <3>5. /\ server'.parts = server.parts /\ server'.critical = server.critical
          /\ server'.target = server.target
      BY <1>0, <3>2 DEF without, ServerType, TypeOK
    <3>6. server.critical => op.unread
      BY <2>0 DEF PInv, CriticalUntouched
    <3> QED
      BY <1>0, <2>0, <3>4, <3>5, <3>6
      DEF PInv, Guarded, FilesOnly, CriticalUntouched, Spared, Goes
  <2> QED
    BY <2>1, <2>2
<1> QED
  BY <1>1, <1>2, <1>3, <1>4 DEF Delete

LEMMA AddSpares == PInv /\ Add => PInv' /\ Spared
<1> SUFFICES ASSUME PInv, Add PROVE PInv' /\ Spared
  OBVIOUS
<1>0. IInv' /\ TypeOK
  BY AddIInv DEF PInv, IInv
<1>1. CASE StartAdd
  <2>1. server' = server /\ op'.pc = "create" /\ ~server.critical
    BY <1>1 DEF StartAdd, Idle, IsPolicy, PInv, CriticalUntouched
  <2> QED
    BY <1>0, <2>1 DEF PInv, Guarded, FilesOnly, CriticalUntouched, Spared
<1>2. CASE Create
  <2>1. op.pc = "create" /\ ~server.critical
    BY <1>2 DEF Create, At, PInv, CriticalUntouched
  <2>2. PICK p \in First(op.todo) :
          \/ /\ server' = [server EXCEPT !.parts = @ \cup {p}]
             /\ op' = AfterCreating([op EXCEPT !.todo = @ \ {p}])
          \/ /\ server' = server
             /\ op' \in {CreateFailed(p), Failed(CreateFailed(p))}
    BY <1>2 DEF Create, Call
  <2>3. server.parts \subseteq server'.parts /\ ~server'.critical
    BY <1>0, <2>1, <2>2 DEF TypeOK, ServerType
  <2>4. op'.pc \in {"create", "returned", "tree", "cleanup"}
    <3>1. [op EXCEPT !.todo = @ \ {p}].pc = "create"
      BY <1>0, <2>1 DEF TypeOK, OpType
    <3>2. AfterCreating([op EXCEPT !.todo = @ \ {p}]).pc \in {"create", "returned", "tree"}
      BY <1>0, <2>1 DEF AfterCreating, TypeOK, OpType
    <3>3. CreateFailed(p) \in OpType
      BY <1>0, CreateFailedType
    <3>4. CreateFailed(p).pc \in {"create", "returned", "tree", "cleanup"}
      BY <1>0, <2>1, CreateFailedType
    <3> QED
      BY <2>2, <3>2, <3>3, <3>4, FaultType
  <2> QED
    BY <1>0, <2>1, <2>3, <2>4 DEF PInv, Guarded, FilesOnly, CriticalUntouched, Spared
<1>3. CASE Cleanup \/ StatFiles
  <2>1. server' = server /\ ~server.critical
    BY <1>3 DEF Cleanup, StatFiles, At, Call, PInv, CriticalUntouched
  <2>2. op'.pc \in {"tree", "stat", "list", "returned"}
    <3>1. \A pc \in {"tree", "stat", "list", "returned"} :
            Goto(pc) \in OpType /\ Goto(pc).pc = pc
      BY <1>0, GotoKeeps DEF Places
    <3>2. \E pc \in {"tree", "stat", "list", "returned"} :
            op' \in {Goto(pc), Failed(Goto(pc))}
      BY <1>3 DEF Cleanup, StatFiles, Call
    <3> QED
      BY <3>1, <3>2, FaultType
  <2> QED
    BY <1>0, <2>1, <2>2 DEF PInv, Guarded, FilesOnly, CriticalUntouched, Spared
<1> QED
  BY <1>1, <1>2, <1>3 DEF Add

LEMMA StepSpares == PInv /\ Step => PInv' /\ Spared
<1> SUFFICES ASSUME PInv, Step PROVE PInv' /\ Spared
  OBVIOUS
<1>1. CASE DeleteObject
  BY <1>1, DeleteTreeSpares, SearchTreeSpares, KilledSpares, DeletePlainSpares, DeleteBelowSpares
  DEF DeleteObject, SearchFails
<1>2. CASE Return
  <2>1. IInv'
    BY <1>2, NextIInv DEF PInv, Next, Step
  <2>2. server' = server /\ op'.pc = "idle" /\ op'.kind = "none" /\ ~op'.unread
    BY <1>2 DEF Return, Idle
  <2> QED
    BY <2>1, <2>2 DEF PInv, Guarded, FilesOnly, CriticalUntouched, Spared
<1> QED
  BY <1>1, <1>2, AddSpares, DeleteStepSpares, ListFilesSpares, DeleteFileSpares DEF Step

\* Who protects the object is recorded; nobody else touches a critical policy.
LEMMA OthersPInv ==
    ASSUME PInv, OthersProtect \/ OthersLink \/ OthersAdd \/ OthersDelete
    PROVE  PInv'
<1>0. IInv' /\ TypeOK
  BY OthersIInv DEF PInv, IInv
<1>1. /\ op'.pc = op.pc /\ op'.kind = op.kind /\ op'.todo = op.todo
      /\ op'.unread = op.unread /\ op.since \subseteq op'.since
  BY <1>0 DEF OthersProtect, OthersLink, OthersAdd, OthersDelete, Others, TypeOK, OpType
<1>2. \/ op.pc = "idle" \/ "protected" \in op'.since
      \/ server'.protected => server.protected
  <2>1. CASE OthersProtect
    BY <1>0, <2>1 DEF OthersProtect, Others, TypeOK, OpType
  <2>2. CASE OthersLink \/ OthersAdd
    BY <1>0, <2>2 DEF OthersLink, OthersAdd, Others, TypeOK, ServerType
  <2>3. CASE OthersDelete
    BY <1>0, <2>3, WithoutKeeps DEF OthersDelete, Others
  <2> QED
    BY <2>1, <2>2, <2>3
<1>3. /\ server'.critical = server.critical /\ server'.target = server.target
      /\ server.critical => server.parts \subseteq server'.parts
  <2>1. CASE OthersProtect
    BY <1>0, <2>1 DEF OthersProtect, Others, TypeOK, ServerType
  <2>2. CASE OthersLink \/ OthersAdd
    BY <1>0, <2>2 DEF OthersLink, OthersAdd, Others, TypeOK, ServerType
  <2>3. CASE OthersDelete
    BY <1>0, <2>3, WithoutKeeps DEF OthersDelete, Others
  <2> QED
    BY <2>1, <2>2, <2>3
<1>4. Guarded'
  BY <1>1, <1>2 DEF PInv, Guarded
<1>5. FilesOnly'
  BY <1>1 DEF PInv, FilesOnly
<1>6. CriticalUntouched'
  BY <1>1, <1>3 DEF PInv, CriticalUntouched
<1> QED
  BY <1>0, <1>4, <1>5, <1>6 DEF PInv

LEMMA NextPInv == PInv /\ [Next]_vars => PInv'
<1> SUFFICES ASSUME PInv, [Next]_vars PROVE PInv'
  OBVIOUS
<1>0. IInv'
  BY NextIInv DEF PInv
<1>1. CASE Refresh \/ UNCHANGED vars
  <2>1. UNCHANGED <<server, op>>
    BY <1>1 DEF Refresh, vars
  <2> QED
    BY <1>0, <2>1 DEF PInv, Guarded, FilesOnly, CriticalUntouched
<1>2. CASE Crash
  BY <1>2, KilledSpares DEF Crash
<1> QED
  BY <1>1, <1>2, StepSpares, OthersPInv DEF Next

LEMMA InitPInv == Init => PInv
<1> SUFFICES ASSUME Init PROVE PInv
  OBVIOUS
<1>1. IInv
  BY InitIInv
<1>2. op.pc = "idle" /\ op.kind = "none" /\ ~op.unread
  BY DEF Init, Idle
<1>3. server.critical => server.target = "policy" /\ "object" \in server.parts
  BY DEF Init, Created
<1> QED
  BY <1>1, <1>2, <1>3 DEF PInv, Guarded, FilesOnly, CriticalUntouched

\* object_delete() and gpo_delete(): no object that is protected from deletion
\* is removed, nor what is below it, although the server would let it; and
\* nothing of a critical policy that could be read: whatever fails, others do
\* or stops ADMC.
THEOREM ProtectedObjectsStay == Spec => ProtectedStays
<1>1. PInv /\ [Next]_vars => [Step => Spared]_vars
  BY StepSpares
<1>2. Spec => []PInv
  BY InitPInv, NextPInv, PTL DEF Spec
<1>3. Spec => [][Step => Spared]_vars
  BY <1>1, <1>2, PTL DEF Spec
<1> QED
  BY <1>3 DEF ProtectedStays, Spared

-----------------------------------------------------------------------------
(* A creation leaves all or nothing, and an undisturbed deletion finishes. *)

\* Every part is in one that is there.
WholeIn(parts) == \A p \in parts : Above(p) \in parts \cup {"none"}

Whole == WholeIn(server.parts)

\* What a user has not, and that only an object is protected.
Shape ==
    /\ server.protected => "object" \in server.parts
    /\ server.target = "user" =>
           server.parts \subseteq Created("user") /\ server.linked = {}

\* Which operations get where.
Route ==
    /\ IF op.pc = "idle" THEN op.kind = "none" ELSE op.kind \in {"add", "delete"}
    /\ op.pc \in {"create", "cleanup", "stat"} => op.kind = "add"
    /\ op.pc \in {"read", "links", "unlink"} => op.kind = "delete"
    /\ op.pc \in {"read", "cleanup", "stat", "list", "files", "links", "unlink"} => IsPolicy
    /\ op.unread => ~op.clean
    /\ op.kind = "add" => op.path

\* What has been created so far: all that was tried, if nothing failed, of an
\* object that was not there.
Creating ==
    op.pc = "create" =>
        /\ op.clean /\ op.todo \subseteq Created(server.target)
        /\ IsPolicy => op.ok /\ op.before = {}
        /\ op.since = {} =>
            \/ op.todo = Created(server.target) /\ server.parts = op.before /\ op.ok
            \/ /\ op.before = {} /\ ~server.protected
               /\ server.parts \subseteq Created(server.target) \ op.todo
               /\ op.ok => Created(server.target) \ op.todo \subseteq server.parts

\* Only what was not there before is removed again.
CleaningUp ==
    op.kind = "add" /\ op.pc \notin {"create", "returned"} =>
        /\ ~op.ok
        /\ op.since = {} => op.before = {} /\ ~server.protected

Undisturbed == op.clean /\ op.since = {}

\* Before the object is deleted everything is as it was.
Deleting ==
    op.kind = "delete" /\ Undisturbed =>
        /\ op.pc \in {"read", "tree", "search", "plain"} => server.parts = op.before
        /\ op.pc \notin {"read", "returned"} /\ IsPolicy /\ "path" \in op.before => op.path

\* How far an undisturbed deletion has come.
Removing ==
    Undisturbed =>
        /\ op.pc = "search" /\ "object" \in server.parts =>
               IF server.tree_delete THEN server.protected ELSE ~IsLeaf("object")
        /\ op.pc = "plain" => ~IsLeaf("object")
        /\ op.pc \in {"plain", "below"} => op.todo = server.parts \cap Objects
        /\ op.pc \in {"stat", "list", "files", "links", "unlink"} =>
               server.protected \/ server.parts \cap Objects = {}
        /\ op.pc = "list" /\ op.kind = "add" => "gpt" \in server.parts
        /\ op.pc = "files" => op.todo = server.parts \cap Files /\ op.path
        /\ op.pc \in {"links", "unlink"} =>
               server.protected \/ "path" \notin op.before \/ server.parts = {}
        /\ op.pc = "unlink" => op.todo = server.linked

Progress ==
    /\ Whole /\ Shape /\ Route /\ Creating /\ CleaningUp /\ Deleting /\ Removing
    /\ AddIsAllOrNothing /\ CleanDeleteFinishes

QInv == PInv /\ Progress

\* Facts about the parts.
LEMMA AbovePlaces ==
    /\ \A p \in Objects : Above(p) \in Objects \cup {"none"}
    /\ \A p \in Files : Above(p) \in Files \cup {"none"}
    /\ \A p \in Attributes : Above(p) \in {"object", "ini"}
    /\ \A p \in Attributes : p \notin Objects /\ p \notin Files
    /\ \A p \in Objects : p \notin Files
    /\ "none" \notin Parts /\ "object" \in Objects /\ "ini" \in Files
  BY DEF Above, Parts, Objects, Attributes, Files

LEMMA DepthBelow ==
    ASSUME NEW p \in Objects \cup Files, Above(p) # "none"
    PROVE  ~(Depth(p) <= Depth(Above(p)))
<1>1. CASE p \in {"machine_dir", "user_dir", "ini"}
  <2>1. Above(p) = "gpt" /\ Above("gpt") = "none"
    BY <1>1 DEF Above
  <2>2. Depth(p) = 1 /\ Depth("gpt") = 0
    BY <2>1 DEF Depth
  <2> QED
    BY <2>1, <2>2
<1>2. CASE p = "pol"
  <2>1. Above(p) = "machine_dir" /\ Above("machine_dir") = "gpt"
    BY <1>2 DEF Above
  <2>2. Depth(p) = 2 /\ Depth("machine_dir") = 1
    BY <2>1 DEF Depth
  <2> QED
    BY <2>1, <2>2
<1>3. CASE p = "class_store"
  <2>1. Above(p) = "machine_container" /\ Above("machine_container") = "object"
    BY <1>3 DEF Above
  <2>2. Depth(p) = 2 /\ Depth("machine_container") = 1
    BY <2>1 DEF Depth
  <2> QED
    BY <2>1, <2>2
<1>4. CASE p \in {"user_container", "machine_container"}
  <2>1. Above(p) = "object" /\ Above("object") = "none"
    BY <1>4 DEF Above
  <2>2. Depth(p) = 1 /\ Depth("object") = 0
    BY <2>1 DEF Depth
  <2> QED
    BY <2>1, <2>2
<1> QED
  BY <1>1, <1>2, <1>3, <1>4 DEF Objects, Files, Above

\* The deepest of the objects, or of the files, has nothing in it.
LEMMA DeepestIsLeaf ==
    ASSUME TypeOK, NEW S \in {Objects, Files}, NEW p \in Deepest(server.parts \cap S)
    PROVE  p \in server.parts /\ p \in S /\ IsLeaf(p)
<1>1. p \in server.parts /\ p \in S /\ \A q \in server.parts \cap S : Depth(q) <= Depth(p)
  BY DEF Deepest
<1>2. ASSUME NEW q \in server.parts, Above(q) = p, q \notin Attributes
      PROVE  FALSE
  <2>1. q \in Objects \cup Files
    BY <1>2 DEF TypeOK, ServerType, Parts
  <2>2. p # "none"
    BY <1>1, AbovePlaces DEF Parts
  <2>3. q \in S
    BY <1>1, <1>2, <2>1, <2>2, AbovePlaces
  <2> QED
    BY <1>1, <1>2, <2>1, <2>2, <2>3, DepthBelow
<1> QED
  BY <1>1, <1>2 DEF IsLeaf

LEMMA WholeEmpty ==
    ASSUME NEW parts \in SUBSET Parts, WholeIn(parts)
    PROVE  /\ "object" \notin parts => parts \cap Objects = {}
           /\ "gpt" \notin parts => parts \cap Files = {}
           /\ parts \cap Objects = {} /\ parts \cap Files = {} => parts = {}
<1>1. ASSUME "object" \notin parts
      PROVE  parts \cap Objects = {}
  <2>1. "user_container" \notin parts /\ "machine_container" \notin parts
    BY <1>1 DEF WholeIn, Above
  <2>2. "class_store" \notin parts
    BY <2>1 DEF WholeIn, Above
  <2> QED
    BY <1>1, <2>1, <2>2 DEF Objects
<1>2. ASSUME "gpt" \notin parts
      PROVE  parts \cap Files = {}
  <2>1. "machine_dir" \notin parts /\ "user_dir" \notin parts /\ "ini" \notin parts
    BY <1>2 DEF WholeIn, Above
  <2>2. "pol" \notin parts
    BY <2>1 DEF WholeIn, Above
  <2> QED
    BY <1>2, <2>1, <2>2 DEF Files
<1>3. ASSUME parts \cap Objects = {}, parts \cap Files = {}
      PROVE  parts = {}
  <2>1. \A p \in parts : p \in Attributes
    BY <1>3 DEF Parts
  <2>2. \A p \in parts : Above(p) \in parts \cap (Objects \cup Files)
    BY <2>1, AbovePlaces DEF WholeIn
  <2> QED
    BY <1>3, <2>2
<1> QED
  BY <1>1, <1>2, <1>3

\* What a removal leaves is whole.
LEMMA LeafWhole ==
    ASSUME TypeOK, Whole, NEW p \in Parts, IsLeaf(p)
    PROVE  WholeIn(Without({p}).parts)
<1> DEFINE after == {q \in server.parts : q \notin {p} /\ (q \in Attributes => Above(q) \notin {p})}
<1>1. Without({p}).parts = after
  BY WithoutIs
<1>2. ASSUME NEW q \in after
      PROVE  Above(q) \in after \cup {"none"}
  <2>1. q \in server.parts /\ q # p /\ (q \in Attributes => Above(q) # p)
    BY <1>2
  <2>2. Above(q) \in server.parts \cup {"none"}
    BY <2>1 DEF Whole, WholeIn
  <2>3. Above(q) # p
    BY <2>1 DEF IsLeaf
  <2>4. Above(q) \notin Attributes
    BY <2>1, AbovePlaces DEF TypeOK, ServerType, Parts
  <2> QED
    BY <2>2, <2>3, <2>4
<1> HIDE DEF after
<1> QED
  BY <1>1, <1>2 DEF WholeIn

LEMMA ObjectsWhole ==
    ASSUME TypeOK, Whole
    PROVE  WholeIn(Without(Objects).parts)
<1> DEFINE after == {q \in server.parts : q \notin Objects /\ (q \in Attributes => Above(q) \notin Objects)}
<1>1. Without(Objects).parts = after
  BY WithoutIs
<1>2. ASSUME NEW q \in after
      PROVE  Above(q) \in after \cup {"none"}
  <2>1. q \in server.parts /\ q \notin Objects /\ (q \in Attributes => Above(q) \notin Objects)
    BY <1>2
  <2>2. Above(q) \in server.parts \cup {"none"}
    BY <2>1 DEF Whole, WholeIn
  <2>3. Above(q) \in Files \cup {"none"}
    BY <2>1, AbovePlaces DEF TypeOK, ServerType, Parts
  <2> QED
    BY <2>2, <2>3, AbovePlaces
<1> HIDE DEF after
<1> QED
  BY <1>1, <1>2 DEF WholeIn

\* The protection goes with the object only.
LEMMA WithoutProtects ==
    ASSUME TypeOK, NEW gone
    PROVE  Without(gone).protected <=> server.protected /\ "object" \notin gone
<1> DEFINE
      parts == {p \in server.parts : p \notin gone /\ (p \in Attributes => Above(p) \notin gone)}
      protected == server.protected /\ "object" \notin gone
<1>1. Without(gone) = [server EXCEPT !.parts = parts, !.protected = protected]
  BY DEF Without
<1> HIDE DEF parts, protected
<1>2. Without(gone).protected = protected
  BY <1>1 DEF TypeOK, ServerType
<1> QED
  BY <1>2 DEF protected

\* A server without some of its parts has the shape it had.
LEMMA WithoutShape ==
    ASSUME TypeOK, Shape, NEW gone, server' = Without(gone)
    PROVE  /\ Shape' /\ server'.parts \subseteq server.parts
           /\ server'.target = server.target /\ server'.critical = server.critical
           /\ server'.linked = server.linked
<1>1. /\ server'.target = server.target /\ server'.critical = server.critical
      /\ server'.linked = server.linked
  BY WithoutKeeps
<1>2. server'.parts = {p \in server.parts : p \notin gone /\ (p \in Attributes => Above(p) \notin gone)}
  BY WithoutIs
<1>3. server'.protected => server.protected /\ "object" \notin gone
  BY WithoutProtects
<1>4. server'.protected => "object" \in server'.parts
  BY <1>2, <1>3, AbovePlaces DEF Shape
<1> QED
  BY <1>1, <1>2, <1>4 DEF Shape

-----------------------------------------------------------------------------
(* The steps of an operation.                                              *)

\* The other fields of the records that the steps lead to.
LEMMA FailedFields ==
    ASSUME NEW o \in OpType
    PROVE  /\ Failed(o).before = o.before /\ Failed(o).path = o.path /\ Failed(o).ok = o.ok
           /\ Failed(o).clean <=> o.clean /\ op.pc = "create"
<1> DEFINE clean == o.clean /\ op.pc = "create"
<1>1. clean \in BOOLEAN /\ Failed(o) = [o EXCEPT !.clean = clean]
  BY DEF Failed, OpType
<1> HIDE DEF clean
<1>2. /\ Failed(o).before = o.before /\ Failed(o).path = o.path /\ Failed(o).ok = o.ok
      /\ Failed(o).clean = clean
  BY <1>1 DEF OpType
<1> QED
  BY <1>2 DEF clean

\* What the operation goes on with is the same but for the place, the list and
\* the result.
SameBut(o) ==
    /\ o.kind = op.kind /\ o.before = op.before /\ o.since = op.since
    /\ o.path = op.path /\ o.unread = op.unread

LEMMA GotoFields ==
    ASSUME TypeOK, NEW pc \in Places
    PROVE  /\ Goto(pc) \in OpType /\ SameBut(Goto(pc)) /\ Goto(pc).pc = pc
           /\ Goto(pc).ok = op.ok /\ Goto(pc).clean = op.clean
  BY DEF Goto, SameBut, TypeOK, OpType

LEMMA ObjectReturnedFields ==
    ASSUME TypeOK, NEW ok \in BOOLEAN
    PROVE  /\ ObjectReturned(ok) \in OpType /\ SameBut(ObjectReturned(ok))
           /\ ObjectReturned(ok).clean = op.clean
           /\ op.kind = "add" => ObjectReturned(ok).ok = op.ok
           /\ op.kind = "add" => ObjectReturned(ok).pc = IF IsPolicy THEN "stat" ELSE "returned"
           /\ op.kind = "delete" =>
                ObjectReturned(ok).pc = IF IsPolicy THEN "list" ELSE "returned"
<1> DEFINE told(o) == [o EXCEPT !.deleted = ok, !.ok = ok]
<1>1. ASSUME NEW o \in OpType
      PROVE  /\ told(o).kind = o.kind /\ told(o).before = o.before
             /\ told(o).since = o.since /\ told(o).path = o.path
             /\ told(o).unread = o.unread /\ told(o).clean = o.clean /\ told(o).pc = o.pc
  BY DEF OpType
<1>2. {"stat", "returned", "list"} \subseteq Places
  BY DEF Places
<1>3. ObjectReturned(ok) = CASE op.kind = "add" /\ IsPolicy    -> Goto("stat")
                             [] op.kind = "add" /\ ~IsPolicy   -> Goto("returned")
                             [] op.kind = "delete" /\ IsPolicy -> told(Goto("list"))
                             [] OTHER                          -> told(Goto("returned"))
  BY DEF ObjectReturned
<1>4. /\ told(Goto("list")).ok = ok /\ told(Goto("returned")).ok = ok
      /\ Goto("stat") \in OpType /\ Goto("returned") \in OpType /\ Goto("list") \in OpType
  BY <1>2, GotoFields DEF OpType
<1>5. ObjectReturned(ok) \in OpType
  BY ObjectReturnedType
<1> HIDE DEF told
<1>6. CASE op.kind = "add"
  <2>1. ObjectReturned(ok) = IF IsPolicy THEN Goto("stat") ELSE Goto("returned")
    BY <1>3, <1>6
  <2>2. SameBut(Goto("stat")) /\ SameBut(Goto("returned"))
    BY <1>2, GotoFields
  <2> QED
    BY <1>2, <1>5, <1>6, <2>1, <2>2, GotoFields
<1>7. CASE op.kind # "add"
  <2>1. /\ ObjectReturned(ok) \in {told(Goto("list")), told(Goto("returned"))}
        /\ op.kind = "delete" =>
             ObjectReturned(ok) = IF IsPolicy THEN told(Goto("list")) ELSE told(Goto("returned"))
    BY <1>3, <1>7
  <2>2. SameBut(told(Goto("list"))) /\ SameBut(told(Goto("returned")))
    BY <1>1, <1>2, <1>4, GotoFields DEF SameBut
  <2>3. /\ told(Goto("list")).clean = op.clean /\ told(Goto("returned")).clean = op.clean
        /\ told(Goto("list")).pc = "list" /\ told(Goto("returned")).pc = "returned"
    BY <1>1, <1>2, <1>4, GotoFields
  <2> QED
    BY <1>5, <1>7, <2>1, <2>2, <2>3
<1> QED
  BY <1>6, <1>7

LEMMA FilesReturnedFields ==
    ASSUME TypeOK, NEW ok \in BOOLEAN
    PROVE  /\ FilesReturned(ok) \in OpType /\ SameBut(FilesReturned(ok))
           /\ FilesReturned(ok).clean = op.clean
           /\ op.kind = "add" => FilesReturned(ok).ok = op.ok
           /\ FilesReturned(ok).pc = IF op.kind = "add" THEN "returned" ELSE "links"
<1>1. (op.ok /\ ok) \in BOOLEAN
  OBVIOUS
<1> QED
  BY <1>1, FilesReturnedType DEF FilesReturned, Goto, SameBut, TypeOK, OpType

\* A step of an operation that has been created what it could.
Continues ==
    /\ op.pc \notin {"idle", "create", "returned"} /\ op'.pc \notin {"idle", "create"}
    /\ op'.kind = op.kind /\ op'.before = op.before /\ op'.since = op.since
    /\ op'.clean => op.clean /\ ~op'.unread
    /\ op.kind = "add" => op'.path = op.path /\ op'.ok = op.ok
    /\ op'.pc \in {"cleanup", "stat"} => op.kind = "add"
    /\ op'.pc \in {"read", "links", "unlink"} => op.kind = "delete"
    /\ op'.pc \in {"read", "cleanup", "stat", "list", "files", "links", "unlink"} => IsPolicy

\* What is left to show when nothing has disturbed it.
Advances ==
    Undisturbed' =>
        /\ Deleting' /\ Removing' /\ CleanDeleteFinishes'
        /\ op.kind = "add" /\ op'.pc = "returned" => server'.parts = {}

LEMMA ContinuesProgress ==
    ASSUME QInv, Continues, Whole', Shape', Advances,
           server'.target = server.target, server'.protected => server.protected
    PROVE  Progress'
<1>1. Route'
  BY DEF QInv, Progress, Route, Continues, IsPolicy
<1>2. Creating' /\ CleaningUp'
  BY DEF QInv, Progress, Creating, CleaningUp, Continues
<1>3. Deleting' /\ Removing' /\ CleanDeleteFinishes'
  BY DEF Advances, Undisturbed, Deleting, Removing, CleanDeleteFinishes
<1>4. AddIsAllOrNothing'
  BY DEF QInv, Progress, CleaningUp, AddIsAllOrNothing, Advances, Undisturbed, Continues
<1> QED
  BY <1>1, <1>2, <1>3, <1>4 DEF Progress

\* After a failure nothing is said of what was done.
LEMMA FaultProgress ==
    ASSUME QInv, Continues, server' = server, ~op'.clean
    PROVE  Progress'
<1>1. Whole' /\ Shape'
  BY DEF QInv, Progress, Whole, Shape
<1>2. Advances
  BY DEF Advances, Undisturbed
<1> QED
  BY <1>1, <1>2, ContinuesProgress

\* A critical policy is not deleted.
LEMMA NotCritical ==
    ASSUME QInv, op.clean, op.pc \notin {"idle", "read", "returned"}
    PROVE  ~server.critical
  BY DEF QInv, PInv, CriticalUntouched, Progress, Route

LEMMA IdleProgress ==
    ASSUME QInv, op' = Idle, server' = server
    PROVE  Progress'
<1>1. op'.kind = "none" /\ op'.pc = "idle" /\ ~op'.unread
  BY DEF Idle
<1>2. Whole' /\ Shape'
  BY DEF QInv, Progress, Whole, Shape
<1>3. Route' /\ Creating' /\ CleaningUp' /\ Deleting'
  BY <1>1 DEF Route, Creating, CleaningUp, Deleting
<1>4. Removing'
  BY <1>1 DEF Removing
<1>5. AddIsAllOrNothing' /\ CleanDeleteFinishes'
  BY <1>1 DEF AddIsAllOrNothing, CleanDeleteFinishes
<1> QED
  BY <1>2, <1>3, <1>4, <1>5 DEF Progress

\* A user has nothing but an object and its attributes.
LEMMA UserEmptyNow ==
    ASSUME TypeOK, Whole, Shape, server.target = "user", "object" \notin server.parts
    PROVE  server.parts = {} /\ server.linked = {}
<1>1. server.parts \subseteq {"object", "uac", "edits"} /\ server.linked = {}
  BY DEF Shape, Created
<1>2. Above("uac") = "object" /\ Above("edits") = "object"
  BY DEF Above
<1> QED
  BY <1>1, <1>2 DEF Whole, WholeIn

LEMMA UserEmpty ==
    ASSUME TypeOK', Whole', Shape', server'.target = "user", server'.parts \cap Objects = {}
    PROVE  server'.parts = {} /\ server'.linked = {}
<1>1. server'.parts \subseteq {"object", "uac", "edits"} /\ server'.linked = {}
  BY DEF Shape, Created
<1>2. "object" \notin server'.parts
  BY DEF Objects
<1>3. Above("uac") = "object" /\ Above("edits") = "object"
  BY DEF Above
<1> QED
  BY <1>1, <1>2, <1>3 DEF Whole, WholeIn

\* What object_delete() returns to once the objects have gone, or when it was
\* refused because of the protection.
LEMMA ObjectReturnedProgress ==
    ASSUME QInv, NEW ok \in BOOLEAN, op' = ObjectReturned(ok),
           op.pc \in {"tree", "search", "plain", "below"},
           Whole', Shape', TypeOK', server'.target = server.target,
           server'.protected => server.protected,
           Undisturbed => server'.protected \/ server'.parts \cap Objects = {}
    PROVE  Progress'
<1>0. TypeOK
  BY DEF QInv, PInv, IInv
<1>1. op.kind \in {"add", "delete"}
  BY DEF QInv, Progress, Route
<1>2. /\ op'.kind = op.kind /\ op'.before = op.before /\ op'.since = op.since
      /\ op'.path = op.path /\ op'.unread = op.unread /\ op'.clean = op.clean
      /\ op.kind = "add" =>
            op'.ok = op.ok /\ op'.pc = IF IsPolicy THEN "stat" ELSE "returned"
      /\ op.kind = "delete" => op'.pc = IF IsPolicy THEN "list" ELSE "returned"
  BY <1>0, ObjectReturnedFields DEF SameBut
<1>3. op'.clean => ~op'.unread
  BY <1>2 DEF QInv, Progress, Route
<1>4. Continues
  BY <1>1, <1>2, <1>3 DEF Continues
<1>5. ASSUME Undisturbed'
      PROVE  /\ Deleting' /\ Removing' /\ CleanDeleteFinishes'
             /\ op.kind = "add" /\ op'.pc = "returned" => server'.parts = {}
  <2>1. Undisturbed /\ op'.since = {}
    BY <1>2, <1>5 DEF Undisturbed
  <2>2. op.kind = "add" => ~server'.protected
    BY <2>1 DEF QInv, Progress, CleaningUp, Undisturbed
  <2>3. ~server'.protected /\ ~IsPolicy => server'.parts = {} /\ server'.linked = {}
    <3>1. ~IsPolicy => server'.target = "user"
      BY <1>0 DEF IsPolicy, TypeOK, ServerType
    <3> QED
      BY <2>1, <3>1, UserEmpty
  <2>4. Deleting'
    BY <1>1, <1>2, <2>1 DEF QInv, Progress, Deleting, IsPolicy
  <2>5. Removing'
    BY <1>1, <1>2, <2>1 DEF Removing
  <2>6. CleanDeleteFinishes'
    BY <1>2, <2>3 DEF CleanDeleteFinishes, IsPolicy
  <2> QED
    BY <1>1, <1>2, <2>2, <2>3, <2>4, <2>5, <2>6
<1> QED
  BY <1>4, <1>5, ContinuesProgress DEF Advances

LEMMA DeleteTreeProgress == QInv /\ PInv' /\ DeleteTree => Progress'
<1> SUFFICES ASSUME QInv, PInv', DeleteTree PROVE Progress'
  OBVIOUS
<1>0. TypeOK /\ TypeOK' /\ Whole /\ Shape /\ op.pc = "tree"
  BY DEF QInv, PInv, IInv, Progress, DeleteTree, At
<1> DEFINE failed == Goto("search")
           possible == /\ "object" \in server.parts /\ ~server.critical
                       /\ IF server.tree_delete THEN ~server.protected ELSE IsLeaf("object")
<1>1. \/ server' = Without(Objects) /\ op' = ObjectReturned(TRUE)
      \/ server' = server /\ op' = failed /\ ~possible
      \/ server' = server /\ op' = Failed(failed)
  BY DEF DeleteTree, Call
<1>2. CASE server' = Without(Objects) /\ op' = ObjectReturned(TRUE)
  <2>1. Whole' /\ server'.parts \cap Objects = {}
    BY <1>0, <1>2, ObjectsWhole, ObjectsRemoved DEF Whole
  <2>2. Shape' /\ server'.target = server.target /\ (server'.protected => server.protected)
    BY <1>0, <1>2, WithoutShape, WithoutProtects
  <2> QED
    BY <1>0, <1>2, <2>1, <2>2, ObjectReturnedProgress
<1>3. /\ failed \in OpType /\ SameBut(failed) /\ failed.pc = "search"
      /\ failed.ok = op.ok /\ failed.clean = op.clean
  BY <1>0, GotoFields DEF Places
<1> HIDE DEF failed
<1>4. CASE server' = server /\ op' = Failed(failed)
  <2>1. Continues /\ ~op'.clean
    BY <1>0, <1>3, <1>4, FaultKeeps, FailedFields DEF Continues, SameBut
  <2> QED
    BY <1>4, <2>1, FaultProgress
<1>5. CASE server' = server /\ op' = failed /\ ~possible
  <2>1. Continues
    BY <1>0, <1>3, <1>5 DEF Continues, SameBut, QInv, Progress, Route
  <2>2. ASSUME Undisturbed'
        PROVE  Deleting' /\ Removing' /\ CleanDeleteFinishes' /\ op'.pc # "returned"
    <3>1. Undisturbed /\ ~server.critical
      BY <1>0, <1>3, <1>5, <2>2, NotCritical DEF Undisturbed, SameBut
    <3>2. Deleting'
      BY <1>0, <1>3, <1>5, <3>1 DEF QInv, Progress, Deleting, SameBut, IsPolicy
    <3>3. Removing'
      BY <1>3, <1>5, <3>1 DEF Removing, IsLeaf
    <3> QED
      BY <1>3, <1>5, <3>2, <3>3 DEF CleanDeleteFinishes
  <2> QED
    BY <1>0, <1>5, <2>1, <2>2, ContinuesProgress DEF Advances, Whole, Shape
<1> QED
  BY <1>1, <1>2, <1>4, <1>5

LEMMA SearchTreeProgress == QInv /\ PInv' /\ SearchTree => Progress'
<1> SUFFICES ASSUME QInv, PInv', SearchTree PROVE Progress'
  OBVIOUS
<1>0. /\ TypeOK /\ TypeOK' /\ Whole /\ Shape /\ op.pc = "search"
      /\ server' = server /\ "object" \in server.parts
  BY DEF QInv, PInv, IInv, Progress, SearchTree, Search
<1>1. op' = IF server.protected THEN ObjectReturned(FALSE) ELSE Listed
  BY DEF SearchTree, Search
<1>2. CASE server.protected
  BY <1>0, <1>1, <1>2, ObjectReturnedProgress DEF Whole, Shape
<1>3. CASE ~server.protected
  <2>1. /\ op'.pc = "plain" /\ op'.todo = server.parts \cap Objects /\ op'.kind = op.kind
        /\ op'.before = op.before /\ op'.since = op.since /\ op'.path = op.path
        /\ op'.unread = op.unread /\ op'.ok = op.ok /\ op'.clean = op.clean
    BY <1>0, <1>1, <1>3 DEF Listed, TypeOK, OpType
  <2>2. Continues
    BY <1>0, <2>1 DEF Continues, QInv, Progress, Route
  <2>3. ASSUME Undisturbed'
        PROVE  Deleting' /\ Removing' /\ CleanDeleteFinishes' /\ op'.pc # "returned"
    <3>1. Undisturbed
      BY <2>1, <2>3 DEF Undisturbed
    <3>2. ~IsLeaf("object")
      BY <1>0, <1>3, <3>1 DEF QInv, Progress, Removing
    <3>3. Deleting'
      BY <1>0, <2>1, <3>1 DEF QInv, Progress, Deleting, IsPolicy
    <3>4. Removing'
      BY <1>0, <2>1, <3>2 DEF Removing, IsLeaf
    <3> QED
      BY <2>1, <3>3, <3>4 DEF CleanDeleteFinishes
  <2> QED
    BY <1>0, <2>2, <2>3, ContinuesProgress DEF Advances, Whole, Shape
<1> QED
  BY <1>2, <1>3

LEMMA DeletePlainProgress == QInv /\ PInv' /\ DeletePlain => Progress'
<1> SUFFICES ASSUME QInv, PInv', DeletePlain PROVE Progress'
  OBVIOUS
<1>0. TypeOK /\ TypeOK' /\ Whole /\ Shape /\ op.pc = "plain"
  BY DEF QInv, PInv, IInv, Progress, DeletePlain, At
<1> DEFINE next == [op EXCEPT !.pc = "below"]
           failed == ObjectReturned(FALSE)
           possible == "object" \in server.parts /\ ~(server.critical /\ IsLeaf("object"))
<1>1. \/ /\ server' = IF IsLeaf("object") THEN Without({"object"}) ELSE server
         /\ op' = next
      \/ server' = server /\ op' = failed /\ ~possible
      \/ server' = server /\ op' = Failed(failed)
  BY DEF DeletePlain, Call
<1>2. Undisturbed => ~IsLeaf("object") /\ op.todo = server.parts \cap Objects
  BY <1>0 DEF QInv, Progress, Removing
<1>3. Undisturbed => "object" \in server.parts /\ ~server.critical
  <2>1. ~IsLeaf("object") => "object" \in server.parts
    BY <1>0, AbovePlaces DEF IsLeaf, Whole, WholeIn
  <2> QED
    BY <1>0, <1>2, <2>1, NotCritical DEF Undisturbed
<1>4. /\ failed \in OpType /\ SameBut(failed) /\ failed.clean = op.clean
      /\ op.kind = "add" => failed.ok = op.ok
      /\ op.kind = "add" => failed.pc = IF IsPolicy THEN "stat" ELSE "returned"
      /\ op.kind = "delete" => failed.pc = IF IsPolicy THEN "list" ELSE "returned"
  BY <1>0, ObjectReturnedFields
<1>5. CASE op' = failed /\ server' = server /\ ~possible
  BY <1>0, <1>3, <1>5, ObjectReturnedProgress DEF Whole, Shape
<1> HIDE DEF failed
<1>6. CASE op' = Failed(failed) /\ server' = server
  <2>1. Continues /\ ~op'.clean
    BY <1>0, <1>4, <1>6, FaultKeeps, FailedFields
    DEF Continues, SameBut, QInv, Progress, Route
  <2> QED
    BY <1>6, <2>1, FaultProgress
<1>7. CASE /\ server' = IF IsLeaf("object") THEN Without({"object"}) ELSE server
           /\ op' = next
  <2>1. /\ op'.pc = "below" /\ op'.todo = op.todo /\ op'.kind = op.kind
        /\ op'.before = op.before /\ op'.since = op.since /\ op'.path = op.path
        /\ op'.unread = op.unread /\ op'.ok = op.ok /\ op'.clean = op.clean
    BY <1>0, <1>7 DEF TypeOK, OpType
  <2>2. Continues
    BY <1>0, <2>1 DEF Continues, QInv, Progress, Route
  <2>3. /\ Whole' /\ Shape' /\ server'.target = server.target
        /\ server'.protected => server.protected
    <3>1. CASE IsLeaf("object")
      <4>1. "object" \in Parts /\ server' = Without({"object"})
        BY <1>7, <3>1 DEF Parts, Objects
      <4> QED
        BY <1>0, <3>1, <4>1, LeafWhole, WithoutShape, WithoutProtects DEF Whole
    <3>2. CASE ~IsLeaf("object")
      BY <1>0, <1>7, <3>2 DEF Whole, Shape
    <3> QED
      BY <3>1, <3>2
  <2>4. ASSUME Undisturbed'
        PROVE  Deleting' /\ Removing' /\ CleanDeleteFinishes' /\ op'.pc # "returned"
    <3>1. Undisturbed /\ server' = server
      BY <1>2, <1>7, <2>1, <2>4 DEF Undisturbed
    <3>2. Deleting'
      BY <1>0, <2>1, <3>1 DEF QInv, Progress, Deleting, IsPolicy
    <3>3. Removing'
      BY <1>2, <2>1, <3>1 DEF Removing
    <3> QED
      BY <2>1, <3>2, <3>3 DEF CleanDeleteFinishes
  <2> QED
    BY <2>2, <2>3, <2>4, ContinuesProgress DEF Advances
<1> QED
  BY <1>1, <1>5, <1>6, <1>7

\* What is removed of a list is removed of the server.
LEMMA RemovedOf ==
    ASSUME TypeOK, NEW S \in {Objects, Files}, NEW p \in S
    PROVE  Without({p}).parts \cap S = (server.parts \cap S) \ {p}
<1>1. Without({p}).parts =
        {q \in server.parts : q \notin {p} /\ (q \in Attributes => Above(q) \notin {p})}
  BY WithoutIs
<1>2. \A q \in S : q \notin Attributes
  BY AbovePlaces
<1> QED
  BY <1>1, <1>2

LEMMA DeleteBelowProgress == QInv /\ PInv' /\ DeleteBelow => Progress'
<1> SUFFICES ASSUME QInv, PInv', DeleteBelow PROVE Progress'
  OBVIOUS
<1>0. TypeOK /\ TypeOK' /\ Whole /\ Shape /\ op.pc = "below"
  BY DEF QInv, PInv, IInv, Progress, DeleteBelow, At
<1>1. Undisturbed => op.todo = server.parts \cap Objects /\ ~server.critical
  BY <1>0, NotCritical DEF QInv, Progress, Removing, Undisturbed
<1>2. CASE op.todo = {}
  <2>1. op' = ObjectReturned(TRUE) /\ server' = server
    BY <1>2 DEF DeleteBelow
  <2> QED
    BY <1>0, <1>1, <1>2, <2>1, ObjectReturnedProgress DEF Whole, Shape
<1>3. CASE op.todo # {}
  <2> DEFINE failed == ObjectReturned(FALSE)
             next(p) == [op EXCEPT !.todo = @ \ {p}]
             possible(p) == p \in server.parts /\ IsLeaf(p) /\ ~server.critical
  <2>1. PICK p \in Deepest(op.todo) :
          \/ server' = Without({p}) /\ op' = next(p) /\ possible(p)
          \/ server' = server /\ op' = failed /\ ~possible(p)
          \/ server' = server /\ op' = Failed(failed)
    BY <1>3 DEF DeleteBelow, Call
  <2>2. Undisturbed => possible(p) /\ p \in Objects
    BY <1>0, <1>1, DeepestIsLeaf
  <2>3. /\ failed \in OpType /\ SameBut(failed) /\ failed.clean = op.clean
        /\ op.kind = "add" => failed.ok = op.ok
        /\ op.kind = "add" => failed.pc = IF IsPolicy THEN "stat" ELSE "returned"
        /\ op.kind = "delete" => failed.pc = IF IsPolicy THEN "list" ELSE "returned"
    BY <1>0, ObjectReturnedFields
  <2>4. CASE op' = failed /\ server' = server /\ ~possible(p)
    BY <1>0, <2>2, <2>4, ObjectReturnedProgress DEF Whole, Shape
  <2> HIDE DEF failed
  <2>5. CASE op' = Failed(failed) /\ server' = server
    <3>1. Continues /\ ~op'.clean
      BY <1>0, <2>3, <2>5, FaultKeeps, FailedFields
      DEF Continues, SameBut, QInv, Progress, Route
    <3> QED
      BY <2>5, <3>1, FaultProgress
  <2>6. CASE server' = Without({p}) /\ op' = next(p) /\ possible(p)
    <3>1. /\ op'.pc = "below" /\ op'.todo = op.todo \ {p} /\ op'.kind = op.kind
          /\ op'.before = op.before /\ op'.since = op.since /\ op'.path = op.path
          /\ op'.unread = op.unread /\ op'.ok = op.ok /\ op'.clean = op.clean
      BY <1>0, <2>6 DEF TypeOK, OpType
    <3>2. Continues
      BY <1>0, <3>1 DEF Continues, QInv, Progress, Route
    <3>3. p \in Parts
      BY <1>0, <2>6 DEF TypeOK, ServerType
    <3>4. /\ Whole' /\ Shape' /\ server'.target = server.target
          /\ server'.protected => server.protected
      BY <1>0, <2>6, <3>3, LeafWhole, WithoutShape, WithoutProtects DEF Whole
    <3>5. ASSUME Undisturbed'
          PROVE  Deleting' /\ Removing' /\ CleanDeleteFinishes' /\ op'.pc # "returned"
      <4>1. Undisturbed
        BY <3>1, <3>5 DEF Undisturbed
      <4>2. Deleting'
        BY <1>0, <2>6, <3>1, <3>4, <4>1 DEF QInv, Progress, Deleting, IsPolicy
      <4>3. op'.todo = server'.parts \cap Objects
        BY <1>0, <1>1, <2>2, <2>6, <3>1, <4>1, RemovedOf
      <4>4. Removing'
        BY <3>1, <4>3 DEF Removing
      <4> QED
        BY <3>1, <4>2, <4>4 DEF CleanDeleteFinishes
    <3> QED
      BY <3>2, <3>4, <3>5, ContinuesProgress DEF Advances
  <2> QED
    BY <2>1, <2>4, <2>5, <2>6
<1> QED
  BY <1>2, <1>3

\* What delete_gpt() returns to once the files have gone, or when the policy
\* had no path.
LEMMA FilesReturnedProgress ==
    ASSUME QInv, PInv', NEW ok \in BOOLEAN, op' = FilesReturned(ok), server' = server,
           op.pc \in {"list", "files"},
           Undisturbed => \/ server.parts \cap Files = {}
                          \/ op.kind = "delete" /\ "path" \notin op.before
    PROVE  Progress'
<1>0. TypeOK /\ Whole /\ Shape /\ IsPolicy /\ op.kind \in {"add", "delete"}
  BY DEF QInv, PInv, IInv, Progress, Route
<1>1. /\ op'.kind = op.kind /\ op'.before = op.before /\ op'.since = op.since
      /\ op'.path = op.path /\ op'.unread = op.unread /\ op'.clean = op.clean
      /\ op.kind = "add" => op'.ok = op.ok
      /\ op'.pc = IF op.kind = "add" THEN "returned" ELSE "links"
  BY <1>0, FilesReturnedFields DEF SameBut
<1>2. Continues
  BY <1>0, <1>1 DEF Continues, QInv, Progress, Route
<1>3. ASSUME Undisturbed'
      PROVE  /\ Deleting' /\ Removing' /\ CleanDeleteFinishes'
             /\ op.kind = "add" /\ op'.pc = "returned" => server'.parts = {}
  <2>1. Undisturbed
    BY <1>1, <1>3 DEF Undisturbed
  <2>2. op.kind = "add" => ~server.protected
    BY <2>1 DEF QInv, Progress, CleaningUp, Undisturbed
  <2>4. server.protected \/ server.parts \cap Objects = {}
    BY <2>1 DEF QInv, Progress, Removing
  <2>5. server.protected \/ "path" \notin op.before \/ server.parts = {}
    BY <1>0, <2>1, <2>4, WholeEmpty DEF Whole, TypeOK, ServerType
  <2>6. op.kind = "add" => server.parts = {}
    BY <1>0, <2>1, <2>2, <2>4, WholeEmpty DEF Whole, TypeOK, ServerType
  <2>7. Deleting'
    BY <1>0, <1>1, <2>1 DEF QInv, Progress, Deleting, IsPolicy
  <2>8. Removing'
    BY <1>0, <1>1, <2>4, <2>5 DEF Removing
  <2>9. CleanDeleteFinishes'
    BY <1>1 DEF CleanDeleteFinishes
  <2> QED
    BY <2>6, <2>7, <2>8, <2>9
<1> QED
  BY <1>0, <1>2, <1>3, ContinuesProgress DEF Advances, Whole, Shape

LEMMA ListFilesProgress == QInv /\ PInv' /\ ListFiles => Progress'
<1> SUFFICES ASSUME QInv, PInv', ListFiles PROVE Progress'
  OBVIOUS
<1>0. TypeOK /\ Whole /\ Shape /\ op.pc = "list" /\ IsPolicy
  BY DEF QInv, PInv, IInv, Progress, Route, ListFiles, At
<1> DEFINE next == [op EXCEPT !.pc = "files", !.todo = server.parts \cap Files]
           failed == FilesReturned(FALSE)
           possible == op.path /\ "gpt" \in server.parts
<1>1. /\ server' = server
      /\ \/ op' = next /\ possible
         \/ op' = failed /\ ~possible
         \/ op' = Failed(failed)
  BY DEF ListFiles, Call
<1>2. CASE op' = next /\ possible
  <2>1. /\ op'.pc = "files" /\ op'.todo = server.parts \cap Files /\ op'.kind = op.kind
        /\ op'.before = op.before /\ op'.since = op.since /\ op'.path = op.path
        /\ op'.unread = op.unread /\ op'.ok = op.ok /\ op'.clean = op.clean
    BY <1>0, <1>2 DEF TypeOK, OpType
  <2>2. Continues
    BY <1>0, <2>1 DEF Continues, QInv, Progress, Route
  <2>3. ASSUME Undisturbed'
        PROVE  Deleting' /\ Removing' /\ CleanDeleteFinishes' /\ op'.pc # "returned"
    <3>1. Undisturbed
      BY <2>1, <2>3 DEF Undisturbed
    <3>2. server.protected \/ server.parts \cap Objects = {}
      BY <1>0, <3>1 DEF QInv, Progress, Removing
    <3>3. Deleting'
      BY <1>0, <1>1, <2>1, <3>1 DEF QInv, Progress, Deleting, IsPolicy
    <3>4. Removing'
      BY <1>1, <1>2, <2>1, <3>2 DEF Removing
    <3> QED
      BY <2>1, <3>3, <3>4 DEF CleanDeleteFinishes
  <2> QED
    BY <1>0, <1>1, <2>2, <2>3, ContinuesProgress DEF Advances, Whole, Shape
<1>3. CASE op' = failed /\ ~possible
  <2>1. ASSUME Undisturbed
        PROVE  \/ server.parts \cap Files = {}
               \/ op.kind = "delete" /\ "path" \notin op.before
    <3>1. op.kind = "add" => op.path /\ "gpt" \in server.parts
      BY <1>0, <2>1 DEF QInv, Progress, Route, Removing
    <3>2. op.kind = "delete" /\ "path" \in op.before => op.path
      BY <1>0, <2>1 DEF QInv, Progress, Deleting
    <3>3. op.kind \in {"add", "delete"}
      BY <1>0 DEF QInv, Progress, Route
    <3> QED
      BY <1>0, <1>3, <3>1, <3>2, <3>3, WholeEmpty DEF Whole, TypeOK, ServerType
  <2> QED
    BY <1>0, <1>1, <1>3, <2>1, FilesReturnedProgress
<1>4. CASE op' = Failed(failed)
  <2>1. /\ failed \in OpType /\ SameBut(failed) /\ failed.clean = op.clean
        /\ op.kind = "add" => failed.ok = op.ok
        /\ failed.pc = IF op.kind = "add" THEN "returned" ELSE "links"
    BY <1>0, FilesReturnedFields
  <2> HIDE DEF failed
  <2>2. Continues /\ ~op'.clean
    BY <1>0, <1>4, <2>1, FaultKeeps, FailedFields
    DEF Continues, SameBut, QInv, Progress, Route
  <2> QED
    BY <1>1, <2>2, FaultProgress
<1> QED
  BY <1>1, <1>2, <1>3, <1>4

LEMMA DeleteFileProgress == QInv /\ PInv' /\ DeleteFile => Progress'
<1> SUFFICES ASSUME QInv, PInv', DeleteFile PROVE Progress'
  OBVIOUS
<1>0. TypeOK /\ Whole /\ Shape /\ op.pc = "files" /\ IsPolicy /\ op.todo \subseteq Files
  BY DEF QInv, PInv, IInv, FilesOnly, Progress, Route, DeleteFile, At
<1>1. Undisturbed => op.todo = server.parts \cap Files /\ op.path
  BY <1>0 DEF QInv, Progress, Removing
<1>2. CASE op.todo = {}
  <2>1. op' = FilesReturned(TRUE) /\ server' = server
    BY <1>2 DEF DeleteFile
  <2> QED
    BY <1>0, <1>1, <1>2, <2>1, FilesReturnedProgress
<1>3. CASE op.todo # {}
  <2> DEFINE failed == FilesReturned(FALSE)
             next(p) == [op EXCEPT !.todo = @ \ {p}]
             possible(p) == p \in server.parts /\ IsLeaf(p)
  <2>1. PICK p \in Deepest(op.todo) :
          \/ server' = Without({p}) /\ op' = next(p) /\ possible(p)
          \/ server' = server /\ op' = failed /\ ~possible(p)
          \/ server' = server /\ op' = Failed(failed)
    BY <1>3 DEF DeleteFile, Call
  <2>2. p \in Files /\ (Undisturbed => possible(p))
    <3>1. p \in Files
      BY <1>0 DEF Deepest
    <3> QED
      BY <1>0, <1>1, <3>1, DeepestIsLeaf
  <2>3. /\ failed \in OpType /\ SameBut(failed) /\ failed.clean = op.clean
        /\ op.kind = "add" => failed.ok = op.ok
        /\ failed.pc = IF op.kind = "add" THEN "returned" ELSE "links"
    BY <1>0, FilesReturnedFields
  <2>4. CASE op' = failed /\ server' = server /\ ~possible(p)
    BY <1>0, <2>2, <2>4, FilesReturnedProgress
  <2> HIDE DEF failed
  <2>5. CASE op' = Failed(failed) /\ server' = server
    <3>1. Continues /\ ~op'.clean
      BY <1>0, <2>3, <2>5, FaultKeeps, FailedFields
      DEF Continues, SameBut, QInv, Progress, Route
    <3> QED
      BY <2>5, <3>1, FaultProgress
  <2>6. CASE server' = Without({p}) /\ op' = next(p) /\ possible(p)
    <3>1. /\ op'.pc = "files" /\ op'.todo = op.todo \ {p} /\ op'.kind = op.kind
          /\ op'.before = op.before /\ op'.since = op.since /\ op'.path = op.path
          /\ op'.unread = op.unread /\ op'.ok = op.ok /\ op'.clean = op.clean
      BY <1>0, <2>6 DEF TypeOK, OpType
    <3>2. Continues
      BY <1>0, <3>1 DEF Continues, QInv, Progress, Route
    <3>3. p \in Parts /\ "object" \notin {p}
      BY <2>2, AbovePlaces DEF Parts
    <3>4. /\ Whole' /\ Shape' /\ server'.target = server.target
          /\ server'.protected <=> server.protected
          /\ server'.parts \subseteq server.parts
      BY <1>0, <2>6, <3>3, LeafWhole, WithoutShape, WithoutProtects DEF Whole
    <3>5. ASSUME Undisturbed'
          PROVE  Deleting' /\ Removing' /\ CleanDeleteFinishes' /\ op'.pc # "returned"
      <4>1. Undisturbed
        BY <3>1, <3>5 DEF Undisturbed
      <4>2. server.protected \/ server.parts \cap Objects = {}
        BY <1>0, <4>1 DEF QInv, Progress, Removing
      <4>3. Deleting'
        BY <1>0, <3>1, <3>4, <4>1 DEF QInv, Progress, Deleting, IsPolicy
      <4>4. op'.todo = server'.parts \cap Files
        BY <1>0, <1>1, <2>2, <2>6, <3>1, <4>1, RemovedOf
      <4>5. Removing'
        BY <1>1, <3>1, <3>4, <4>1, <4>2, <4>4 DEF Removing
      <4> QED
        BY <3>1, <4>3, <4>5 DEF CleanDeleteFinishes
    <3> QED
      BY <3>2, <3>4, <3>5, ContinuesProgress DEF Advances
  <2> QED
    BY <2>1, <2>4, <2>5, <2>6
<1> QED
  BY <1>2, <1>3

LEMMA StartDeleteProgress == QInv /\ StartDelete => Progress'
<1> SUFFICES ASSUME QInv, StartDelete PROVE Progress'
  OBVIOUS
<1>1. /\ server' = server /\ op'.kind = "delete" /\ op'.clean /\ ~op'.unread
      /\ op'.pc = IF IsPolicy THEN "read" ELSE "tree"
      /\ op'.before = server.parts
  BY DEF StartDelete, Idle
<1>2. Whole' /\ Shape'
  BY <1>1 DEF QInv, Progress, Whole, Shape
<1>3. Route' /\ Creating' /\ CleaningUp'
  BY <1>1 DEF Route, Creating, CleaningUp, IsPolicy
<1>4. Deleting'
  BY <1>1 DEF Deleting, IsPolicy
<1>5. Removing'
  BY <1>1 DEF Removing
<1> QED
  BY <1>1, <1>2, <1>3, <1>4, <1>5 DEF Progress, AddIsAllOrNothing, CleanDeleteFinishes

LEMMA ReadPolicyProgress == QInv /\ PInv' /\ ReadPolicy => Progress'
<1> SUFFICES ASSUME QInv, PInv', ReadPolicy PROVE Progress'
  OBVIOUS
<1> DEFINE stopped == [Goto("returned") EXCEPT !.ok = FALSE]
           tree == [Goto("tree") EXCEPT !.path = "path" \in server.parts]
           unread == [Goto("tree") EXCEPT !.unread = TRUE]
<1>0. TypeOK /\ Whole /\ Shape /\ op.pc = "read" /\ op.kind = "delete" /\ IsPolicy
  BY DEF QInv, PInv, IInv, Progress, Route, ReadPolicy, At
<1>1. /\ server' = server
      /\ \/ server.critical /\ op' = stopped
         \/ ~server.critical /\ op' = tree
         \/ op' = Failed(unread)
  BY DEF ReadPolicy, Call
<1>2. CASE server.critical /\ op' = stopped
  <2>1. /\ op'.pc = "returned" /\ op'.kind = op.kind /\ op'.before = op.before
        /\ op'.since = op.since /\ op'.unread = op.unread /\ op'.clean = op.clean
    BY <1>0, <1>2 DEF Goto, TypeOK, OpType
  <2>2. Continues
    BY <1>0, <2>1 DEF Continues, QInv, Progress, Route
  <2>3. Deleting' /\ Removing' /\ CleanDeleteFinishes'
    BY <1>0, <1>1, <1>2, <2>1 DEF Deleting, Removing, CleanDeleteFinishes
  <2> QED
    BY <1>0, <1>1, <2>2, <2>3, ContinuesProgress DEF Advances, Whole, Shape
<1>3. CASE ~server.critical /\ op' = tree
  <2>1. /\ op'.pc = "tree" /\ op'.kind = op.kind /\ op'.before = op.before
        /\ op'.since = op.since /\ op'.unread = op.unread /\ op'.clean = op.clean
    BY <1>0, <1>3 DEF Goto, TypeOK, OpType
  <2>2. op'.path <=> "path" \in server.parts
    BY <1>0, <1>3 DEF Goto, TypeOK, OpType
  <2>3. Continues
    BY <1>0, <2>1 DEF Continues, QInv, Progress, Route
  <2>4. ASSUME Undisturbed'
        PROVE  Deleting' /\ Removing' /\ CleanDeleteFinishes'
    <3>1. server.parts = op.before
      BY <1>0, <2>1, <2>4 DEF QInv, Progress, Deleting, Undisturbed
    <3> QED
      BY <1>0, <1>1, <2>1, <2>2, <3>1 DEF Deleting, Removing, CleanDeleteFinishes
  <2> QED
    BY <1>0, <1>1, <2>1, <2>3, <2>4, ContinuesProgress DEF Advances, Whole, Shape
<1>4. CASE op' = Failed(unread)
  <2>1. /\ unread \in OpType /\ unread.pc = "tree" /\ unread.kind = op.kind
        /\ unread.before = op.before /\ unread.since = op.since
    BY <1>0 DEF Goto, TypeOK, OpType, Places
  <2> HIDE DEF unread
  <2>2. /\ op'.pc = "tree" /\ op'.kind = op.kind /\ op'.before = op.before
        /\ op'.since = op.since /\ ~op'.clean
    BY <1>0, <1>4, <2>1, FaultKeeps, FailedFields
  <2>3. Continues
    BY <1>0, <2>2 DEF Continues
  <2> QED
    BY <1>1, <2>2, <2>3, FaultProgress
<1> QED
  BY <1>1, <1>2, <1>3, <1>4

LEMMA SearchLinksProgress == QInv /\ PInv' /\ SearchLinks => Progress'
<1> SUFFICES ASSUME QInv, PInv', SearchLinks PROVE Progress'
  OBVIOUS
<1> DEFINE next == [op EXCEPT !.pc = "unlink", !.todo = server.linked]
           failed == Goto("unlink")
<1>0. TypeOK /\ Whole /\ Shape /\ op.pc = "links" /\ op.kind = "delete" /\ IsPolicy
  BY DEF QInv, PInv, IInv, Progress, Route, SearchLinks, At
<1>1. server' = server /\ (op' = next \/ op' = Failed(failed))
  BY DEF SearchLinks, Call
<1>2. CASE op' = next
  <2>1. /\ op'.pc = "unlink" /\ op'.todo = server.linked /\ op'.kind = op.kind
        /\ op'.before = op.before /\ op'.since = op.since /\ op'.path = op.path
        /\ op'.unread = op.unread /\ op'.ok = op.ok /\ op'.clean = op.clean
    BY <1>0, <1>2 DEF TypeOK, OpType
  <2>2. Continues
    BY <1>0, <2>1 DEF Continues, QInv, Progress, Route
  <2>3. ASSUME Undisturbed'
        PROVE  Deleting' /\ Removing' /\ CleanDeleteFinishes'
    <3>1. Undisturbed
      BY <2>1, <2>3 DEF Undisturbed
    <3>2. /\ server.protected \/ server.parts \cap Objects = {}
          /\ server.protected \/ "path" \notin op.before \/ server.parts = {}
      BY <1>0, <3>1 DEF QInv, Progress, Removing
    <3>3. Deleting'
      BY <1>0, <1>1, <2>1, <3>1 DEF QInv, Progress, Deleting, IsPolicy
    <3>4. Removing'
      BY <1>1, <2>1, <3>2 DEF Removing
    <3> QED
      BY <2>1, <3>3, <3>4 DEF CleanDeleteFinishes
  <2> QED
    BY <1>0, <1>1, <2>2, <2>3, ContinuesProgress DEF Advances, Whole, Shape
<1>3. CASE op' = Failed(failed)
  <2>1. /\ failed \in OpType /\ SameBut(failed) /\ failed.pc = "unlink"
        /\ failed.ok = op.ok /\ failed.clean = op.clean
    BY <1>0, GotoFields DEF Places
  <2> HIDE DEF failed
  <2>2. Continues /\ ~op'.clean
    BY <1>0, <1>3, <2>1, FaultKeeps, FailedFields DEF Continues, SameBut
  <2> QED
    BY <1>1, <2>2, FaultProgress
<1> QED
  BY <1>1, <1>2, <1>3

LEMMA UnlinkProgress == QInv /\ PInv' /\ Unlink => Progress'
<1> SUFFICES ASSUME QInv, PInv', Unlink PROVE Progress'
  OBVIOUS
<1>0. TypeOK /\ Whole /\ Shape /\ op.pc = "unlink" /\ op.kind = "delete" /\ IsPolicy
  BY DEF QInv, PInv, IInv, Progress, Route, Unlink, At
<1>1. ASSUME Undisturbed
      PROVE  /\ server.protected \/ server.parts \cap Objects = {}
             /\ server.protected \/ "path" \notin op.before \/ server.parts = {}
             /\ op.todo = server.linked
  BY <1>0, <1>1 DEF QInv, Progress, Removing
<1>2. CASE op.todo = {}
  <2>1. op' = Goto("returned") /\ server' = server
    BY <1>2 DEF Unlink
  <2>2. SameBut(Goto("returned")) /\ Goto("returned").pc = "returned"
        /\ Goto("returned").ok = op.ok /\ Goto("returned").clean = op.clean
    BY <1>0, GotoFields DEF Places
  <2>3. /\ op'.pc = "returned" /\ op'.kind = op.kind
        /\ op'.before = op.before /\ op'.since = op.since
        /\ op'.unread = op.unread /\ op'.clean = op.clean
    BY <2>1, <2>2 DEF SameBut
  <2>4. Continues
    BY <1>0, <2>3 DEF Continues, QInv, Progress, Route
  <2>5. ASSUME Undisturbed'
        PROVE  Deleting' /\ Removing' /\ CleanDeleteFinishes'
    <3>1. Undisturbed
      BY <2>3, <2>5 DEF Undisturbed
    <3>2. CleanDeleteFinishes'
      BY <1>0, <1>1, <1>2, <2>1, <2>3, <3>1 DEF CleanDeleteFinishes, IsPolicy
    <3> QED
      BY <2>3, <3>2 DEF Deleting, Removing
  <2> QED
    BY <1>0, <2>1, <2>4, <2>5, ContinuesProgress DEF Advances, Whole, Shape
<1>3. CASE op.todo # {}
  <2> DEFINE next(ou) == [op EXCEPT !.todo = @ \ {ou}]
             without(ou) == [server EXCEPT !.linked = @ \ {ou}]
  <2>1. PICK ou \in op.todo : Call(TRUE, without(ou), next(ou), "write", next(ou))
    BY <1>3 DEF Unlink
  <2> HIDE DEF next, without
  <2>2. \/ server' = without(ou) /\ op' = next(ou)
        \/ server' = server /\ op' = Failed(next(ou))
    BY <2>1 DEF Call
  <2>3. /\ next(ou) \in OpType /\ next(ou).pc = "unlink" /\ next(ou).todo = op.todo \ {ou}
        /\ SameBut(next(ou)) /\ next(ou).ok = op.ok /\ next(ou).clean = op.clean
    BY <1>0 DEF next, SameBut, OpType, TypeOK
  <2>4. CASE server' = without(ou) /\ op' = next(ou)
    <3>1. /\ server'.linked = server.linked \ {ou} /\ server'.parts = server.parts
          /\ server'.target = server.target /\ server'.protected = server.protected
      BY <1>0, <2>4 DEF without, TypeOK, ServerType
    <3>2. Continues
      BY <1>0, <2>3, <2>4 DEF Continues, SameBut, QInv, Progress, Route
    <3>3. Whole' /\ Shape'
      BY <1>0, <3>1 DEF Whole, Shape, IsPolicy
    <3>4. ASSUME Undisturbed'
          PROVE  Deleting' /\ Removing' /\ CleanDeleteFinishes'
      <4>1. Undisturbed
        BY <2>3, <2>4, <3>4 DEF Undisturbed, SameBut
      <4>2. Deleting'
        BY <1>0, <2>3, <2>4, <3>1, <4>1 DEF QInv, Progress, Deleting, SameBut, IsPolicy
      <4>3. Removing'
        BY <1>1, <2>3, <2>4, <3>1, <4>1 DEF Removing, SameBut
      <4> QED
        BY <2>3, <2>4, <4>2, <4>3 DEF CleanDeleteFinishes
    <3> QED
      BY <1>0, <2>3, <2>4, <3>1, <3>2, <3>3, <3>4, ContinuesProgress DEF Advances
  <2>5. CASE server' = server /\ op' = Failed(next(ou))
    <3>1. Continues /\ ~op'.clean
      BY <1>0, <2>3, <2>5, FaultKeeps, FailedFields DEF Continues, SameBut
    <3> QED
      BY <2>5, <3>1, FaultProgress
  <2> QED
    BY <2>2, <2>4, <2>5
<1> QED
  BY <1>2, <1>3

LEMMA CleanupProgress == QInv /\ PInv' /\ Cleanup => Progress'
<1> SUFFICES ASSUME QInv, PInv', Cleanup PROVE Progress'
  OBVIOUS
<1>0. TypeOK /\ Whole /\ Shape /\ op.pc = "cleanup" /\ op.kind = "add" /\ IsPolicy
  BY DEF QInv, PInv, IInv, Progress, Route, Cleanup, At
<1>1. /\ server' = server
      /\ \/ op' = Goto("tree")
         \/ op' = Goto("stat") /\ "object" \notin server.parts
         \/ op' = Failed(Goto("stat"))
  BY DEF Cleanup, Call
<1>2. \A pc \in {"tree", "stat"} :
        /\ Goto(pc) \in OpType /\ SameBut(Goto(pc)) /\ Goto(pc).pc = pc
        /\ Goto(pc).ok = op.ok /\ Goto(pc).clean = op.clean
  BY <1>0, GotoFields DEF Places
<1>3. CASE op' = Failed(Goto("stat"))
  <2>1. Continues /\ ~op'.clean
    BY <1>0, <1>2, <1>3, FaultKeeps, FailedFields DEF Continues, SameBut
  <2> QED
    BY <1>1, <2>1, FaultProgress
<1>4. CASE op' = Goto("tree") \/ (op' = Goto("stat") /\ "object" \notin server.parts)
  <2>1. Continues
    BY <1>0, <1>2, <1>4 DEF Continues, SameBut, QInv, Progress, Route
  <2>2. op'.pc = "stat" => server.parts \cap Objects = {}
    BY <1>0, <1>2, <1>4, WholeEmpty DEF Whole, TypeOK, ServerType
  <2>3. op'.pc \in {"tree", "stat"} /\ op'.kind = "add"
    BY <1>0, <1>2, <1>4 DEF SameBut
  <2>4. Deleting' /\ CleanDeleteFinishes' /\ Removing'
    BY <1>1, <2>2, <2>3 DEF Deleting, CleanDeleteFinishes, Removing
  <2> QED
    BY <1>0, <1>1, <2>1, <2>3, <2>4, ContinuesProgress DEF Advances, Whole, Shape
<1> QED
  BY <1>1, <1>3, <1>4

LEMMA StatFilesProgress == QInv /\ PInv' /\ StatFiles => Progress'
<1> SUFFICES ASSUME QInv, PInv', StatFiles PROVE Progress'
  OBVIOUS
<1>0. TypeOK /\ Whole /\ Shape /\ op.pc = "stat" /\ op.kind = "add" /\ IsPolicy
  BY DEF QInv, PInv, IInv, Progress, Route, StatFiles, At
<1>1. /\ server' = server
      /\ \/ op' = Goto("list") /\ "gpt" \in server.parts
         \/ op' = Goto("returned") /\ "gpt" \notin server.parts
         \/ op' = Failed(Goto("returned"))
  BY DEF StatFiles, Call
<1>2. \A pc \in {"list", "returned"} :
        /\ Goto(pc) \in OpType /\ SameBut(Goto(pc)) /\ Goto(pc).pc = pc
        /\ Goto(pc).ok = op.ok /\ Goto(pc).clean = op.clean
  BY <1>0, GotoFields DEF Places
<1>3. CASE op' = Failed(Goto("returned"))
  <2>1. Continues /\ ~op'.clean
    BY <1>0, <1>2, <1>3, FaultKeeps, FailedFields DEF Continues, SameBut
  <2> QED
    BY <1>1, <2>1, FaultProgress
<1>4. CASE \/ op' = Goto("list") /\ "gpt" \in server.parts
           \/ op' = Goto("returned") /\ "gpt" \notin server.parts
  <2>1. Continues
    BY <1>0, <1>2, <1>4 DEF Continues, SameBut, QInv, Progress, Route
  <2>2. /\ op'.pc \in {"list", "returned"} /\ op'.kind = "add" /\ SameBut(op')
        /\ op'.clean = op.clean
        /\ op'.pc = "list" <=> "gpt" \in server.parts
    BY <1>0, <1>2, <1>4 DEF SameBut
  <2>3. ASSUME Undisturbed'
        PROVE  /\ Deleting' /\ Removing' /\ CleanDeleteFinishes'
               /\ op'.pc = "returned" => server.parts = {}
    <3>1. Undisturbed
      BY <2>2, <2>3 DEF Undisturbed, SameBut
    <3>2. server.parts \cap Objects = {}
      BY <1>0, <3>1 DEF QInv, Progress, Removing, CleaningUp, Undisturbed
    <3>3. op'.pc = "returned" => server.parts = {}
      BY <1>0, <2>2, <3>2, WholeEmpty DEF Whole, TypeOK, ServerType
    <3>4. Deleting' /\ CleanDeleteFinishes' /\ Removing'
      BY <1>1, <2>2, <3>2 DEF Deleting, CleanDeleteFinishes, Removing
    <3> QED
      BY <3>3, <3>4
  <2> QED
    BY <1>0, <1>1, <2>1, <2>3, ContinuesProgress DEF Advances, Whole, Shape
<1> QED
  BY <1>1, <1>3, <1>4

-----------------------------------------------------------------------------
(* Creating, what others do, and the results.                              *)

LEMMA StartAddProgress == QInv /\ StartAdd => Progress'
<1> SUFFICES ASSUME QInv, StartAdd PROVE Progress'
  OBVIOUS
<1>1. /\ server' = server /\ op'.kind = "add" /\ op'.clean /\ ~op'.unread /\ op'.path
      /\ op'.pc = "create" /\ op'.before = server.parts /\ op'.ok
      /\ op'.todo = Created(server.target)
  BY DEF StartAdd, Idle
<1>2. Whole' /\ Shape'
  BY <1>1 DEF QInv, Progress, Whole, Shape
<1>3. Route' /\ CleaningUp'
  BY <1>1 DEF Route, CleaningUp
<1>4. Creating'
  BY <1>1 DEF Creating, IsPolicy, StartAdd
<1>5. Deleting' /\ Removing'
  BY <1>1 DEF Deleting, Removing
<1> QED
  BY <1>1, <1>2, <1>3, <1>4, <1>5 DEF Progress, AddIsAllOrNothing, CleanDeleteFinishes

\* What is created of a user first is the object.
LEMMA FirstOfUser ==
    ASSUME NEW p \in First(Created("user"))
    PROVE  p = "object"
<1>1. /\ Order("object") = 6 /\ Order("uac") = 7 /\ Order("edits") = 8
  BY DEF Order
<1>2. p \in {"object", "uac", "edits"} /\ Order(p) <= Order("object")
  BY DEF First, Created
<1> QED
  BY <1>1, <1>2

\* A call that created a part.
LEMMA CreatedProgress ==
    ASSUME QInv, PInv', op.pc = "create", NEW p \in First(op.todo),
           p \notin server.parts, Above(p) \in server.parts \cup {"none"},
           server' = [server EXCEPT !.parts = @ \cup {p}],
           op' = AfterCreating([op EXCEPT !.todo = @ \ {p}])
    PROVE  Progress'
<1> DEFINE next == [op EXCEPT !.todo = @ \ {p}]
<1>0. /\ TypeOK /\ Whole /\ Shape /\ op.kind = "add" /\ op.path /\ op.clean /\ ~op.unread
      /\ op.todo \subseteq Created(server.target)
      /\ IsPolicy => op.ok /\ op.before = {}
  BY DEF QInv, PInv, IInv, Progress, Route, Creating
<1>1. /\ next.pc = "create" /\ next.todo = op.todo \ {p} /\ next.kind = "add"
      /\ next.before = op.before /\ next.since = op.since /\ next.path /\ ~next.unread
      /\ next.ok = op.ok /\ next.clean /\ next \in OpType
  BY <1>0 DEF TypeOK, OpType
<1> HIDE DEF next
<1>2. /\ op'.pc = IF op'.todo # {} THEN "create" ELSE IF op.ok THEN "returned" ELSE "tree"
      /\ op'.todo = op.todo \ {p} /\ op'.kind = "add" /\ op'.before = op.before
      /\ op'.since = op.since /\ op'.path /\ ~op'.unread /\ op'.ok = op.ok /\ op'.clean
  <2>1. op' = AfterCreating(next)
    BY DEF next
  <2> QED
    BY <1>1, <2>1, ZenonT(30) DEF AfterCreating, OpType
<1>3. p \in op.todo /\ p \in Created(server.target)
  BY <1>0 DEF First
<1>4. /\ server'.parts = server.parts \cup {p} /\ server'.target = server.target
      /\ server'.protected = server.protected /\ server'.linked = server.linked
  BY <1>0, <1>3 DEF TypeOK, ServerType
<1>5. Whole'
  BY <1>0, <1>4 DEF Whole, WholeIn
<1>6. Shape'
  BY <1>0, <1>3, <1>4 DEF Shape
<1>7. ASSUME op.since = {}
      PROVE  /\ op.before = {} /\ ~server.protected
             /\ server'.parts \subseteq Created(server.target) \ op'.todo
             /\ op.ok => Created(server.target) \ op'.todo \subseteq server'.parts
  <2>1. CASE op.todo = Created(server.target) /\ server.parts = op.before
    <3>1. CASE IsPolicy
      BY <1>0, <1>2, <1>3, <1>4, <2>1, <3>1 DEF Shape
    <3>2. CASE ~IsPolicy
      <4>1. server.target = "user"
        BY <1>0, <3>2 DEF IsPolicy, TypeOK, ServerType
      <4>2. "object" \notin server.parts
        BY <2>1, <4>1, FirstOfUser
      <4>3. server.parts = {}
        BY <1>0, <4>1, <4>2, UserEmptyNow
      <4> QED
        BY <1>0, <1>2, <1>3, <1>4, <2>1, <4>3 DEF Shape
    <3> QED
      BY <3>1, <3>2
  <2>2. CASE /\ op.before = {} /\ ~server.protected
             /\ server.parts \subseteq Created(server.target) \ op.todo
             /\ op.ok => Created(server.target) \ op.todo \subseteq server.parts
    BY <1>2, <1>3, <1>4, <2>2
  <2> QED
    BY <1>7, <2>1, <2>2 DEF QInv, Progress, Creating
<1>8. Route'
  BY <1>2 DEF Route
<1>9. Creating' /\ CleaningUp'
  <2>1. IsPolicy' => IsPolicy
    BY <1>4 DEF IsPolicy
  <2> QED
    BY <1>0, <1>2, <1>4, <1>7, <2>1 DEF Creating, CleaningUp
<1>10. Deleting' /\ Removing' /\ CleanDeleteFinishes'
  BY <1>2 DEF Deleting, Removing, CleanDeleteFinishes
<1>11. AddIsAllOrNothing'
  BY <1>2, <1>4, <1>7 DEF AddIsAllOrNothing
<1> QED
  BY <1>5, <1>6, <1>8, <1>9, <1>10, <1>11 DEF Progress

\* A call that created nothing.
LEMMA NotCreatedProgress ==
    ASSUME QInv, PInv', op.pc = "create", NEW p \in First(op.todo), server' = server,
           op' = CreateFailed(p) \/ op' = Failed(CreateFailed(p))
    PROVE  Progress'
<1> DEFINE next == [op EXCEPT !.ok = FALSE, !.todo = @ \ {p}]
           gone(pc) == [Goto(pc) EXCEPT !.ok = FALSE]
<1>0. /\ TypeOK /\ Whole /\ Shape /\ op.kind = "add" /\ op.path /\ op.clean /\ ~op.unread
      /\ op.todo \subseteq Created(server.target)
      /\ IsPolicy => op.ok /\ op.before = {}
  BY DEF QInv, PInv, IInv, Progress, Route, Creating
<1>1. /\ next.pc = "create" /\ next.todo = op.todo \ {p} /\ next.kind = "add"
      /\ next.before = op.before /\ next.since = op.since /\ next.path /\ ~next.unread
      /\ ~next.ok /\ next.clean /\ next \in OpType
  BY <1>0 DEF TypeOK, OpType
<1>2. \A pc \in {"cleanup", "returned"} :
        /\ gone(pc).pc = pc /\ gone(pc).kind = "add"
        /\ gone(pc).before = op.before /\ gone(pc).since = op.since
        /\ gone(pc).path /\ ~gone(pc).unread /\ ~gone(pc).ok /\ gone(pc).clean
  BY <1>0 DEF Goto, TypeOK, OpType
<1>3. CreateFailed(p) = CASE IsPolicy                  -> gone("cleanup")
                          [] ~IsPolicy /\ p = "object" -> gone("returned")
                          [] OTHER                     -> AfterCreating(next)
  BY DEF CreateFailed
<1> HIDE DEF next, gone
<1>4. /\ AfterCreating(next).pc = IF op.todo \ {p} # {} THEN "create" ELSE "tree"
      /\ AfterCreating(next).todo = op.todo \ {p} /\ AfterCreating(next).kind = "add"
      /\ AfterCreating(next).before = op.before /\ AfterCreating(next).since = op.since
      /\ AfterCreating(next).path /\ ~AfterCreating(next).unread
      /\ ~AfterCreating(next).ok /\ AfterCreating(next).clean
  BY <1>1 DEF AfterCreating, OpType
<1>5. /\ op'.kind = "add" /\ op'.before = op.before /\ op'.since = op.since
      /\ op'.path /\ ~op'.unread /\ ~op'.ok /\ op'.clean
      /\ IsPolicy => op'.pc = "cleanup"
      /\ ~IsPolicy /\ p = "object" => op'.pc = "returned"
      /\ ~IsPolicy /\ p # "object" =>
            /\ op'.pc = IF op.todo \ {p} # {} THEN "create" ELSE "tree"
            /\ op'.todo = op.todo \ {p}
  <2> DEFINE o == CreateFailed(p)
  <2>1. /\ o.kind = "add" /\ o.before = op.before /\ o.since = op.since
        /\ o.path /\ ~o.unread /\ ~o.ok /\ o.clean
        /\ IsPolicy => o.pc = "cleanup"
        /\ ~IsPolicy /\ p = "object" => o.pc = "returned"
        /\ ~IsPolicy /\ p # "object" =>
              /\ o.pc = IF op.todo \ {p} # {} THEN "create" ELSE "tree"
              /\ o.todo = op.todo \ {p}
    BY <1>2, <1>3, <1>4
  <2>2. o \in OpType
    BY <1>0, CreateFailedType
  <2> HIDE DEF o
  <2>3. op' = o \/ op' = Failed(o)
    BY DEF o
  <2>4. /\ Failed(o).pc = o.pc /\ Failed(o).kind = o.kind /\ Failed(o).since = o.since
        /\ Failed(o).unread = o.unread /\ Failed(o).todo = o.todo
        /\ Failed(o).before = o.before /\ Failed(o).path = o.path /\ Failed(o).ok = o.ok
        /\ Failed(o).clean <=> o.clean /\ op.pc = "create"
    BY <2>2, FaultKeeps, FailedFields
  <2> QED
    BY <2>1, <2>3, <2>4
<1>6. Whole' /\ Shape'
  BY <1>0 DEF Whole, Shape
<1>7. p \in op.todo
  BY DEF First
<1>8. ASSUME op.since = {}
      PROVE  /\ IsPolicy => ~server.protected
             /\ ~IsPolicy /\ p = "object" => server.parts = op.before
             /\ ~IsPolicy /\ p # "object" =>
                   /\ op.before = {} /\ ~server.protected
                   /\ server.parts \subseteq Created(server.target) \ op.todo
  <2>1. ~IsPolicy => server.target = "user"
    BY <1>0 DEF IsPolicy, TypeOK, ServerType
  <2>2. CASE op.todo = Created(server.target) /\ server.parts = op.before
    <3>1. ~IsPolicy => p = "object"
      BY <2>1, <2>2, FirstOfUser
    <3> QED
      BY <1>0, <2>2, <3>1 DEF Shape
  <2>3. CASE /\ op.before = {} /\ ~server.protected
             /\ server.parts \subseteq Created(server.target) \ op.todo
    <3>1. ~IsPolicy /\ p = "object" => server.parts = {}
      BY <1>0, <1>7, <2>1, <2>3, UserEmptyNow
    <3> QED
      BY <2>3, <3>1
  <2> QED
    BY <1>8, <2>2, <2>3 DEF QInv, Progress, Creating
<1>9. Route'
  BY <1>5 DEF Route, IsPolicy
<1>10. Creating' /\ CleaningUp'
  <2>1. IsPolicy' <=> IsPolicy
    BY DEF IsPolicy
  <2>2. Creating'
    BY <1>0, <1>5, <1>8, <2>1 DEF Creating
  <2>3. CleaningUp'
    BY <1>0, <1>5, <1>8 DEF CleaningUp
  <2> QED
    BY <2>2, <2>3
<1>11. Deleting' /\ Removing' /\ CleanDeleteFinishes'
  BY <1>5 DEF Deleting, Removing, CleanDeleteFinishes
<1>12. AddIsAllOrNothing'
  BY <1>5, <1>8 DEF AddIsAllOrNothing
<1> QED
  BY <1>6, <1>9, <1>10, <1>11, <1>12 DEF Progress

LEMMA CreateProgress == QInv /\ PInv' /\ Create => Progress'
<1> SUFFICES ASSUME QInv, PInv', Create PROVE Progress'
  OBVIOUS
<1>1. op.pc = "create"
  BY DEF Create, At
<1>2. PICK p \in First(op.todo) :
        \/ /\ p \notin server.parts /\ Above(p) \in server.parts \cup {"none"}
           /\ server' = [server EXCEPT !.parts = @ \cup {p}]
           /\ op' = AfterCreating([op EXCEPT !.todo = @ \ {p}])
        \/ server' = server /\ (op' = CreateFailed(p) \/ op' = Failed(CreateFailed(p)))
  BY DEF Create, Call
<1> QED
  BY <1>1, <1>2, CreatedProgress, NotCreatedProgress

\* What others change is recorded, and keeps the parts whole.
LEMMA OthersProgress ==
    ASSUME QInv, PInv', OthersProtect \/ OthersLink \/ OthersAdd \/ OthersDelete
    PROVE  Progress'
<1>0. TypeOK /\ Whole /\ Shape
  BY DEF QInv, PInv, IInv, Progress
<1>1. /\ op'.pc = op.pc /\ op'.kind = op.kind /\ op'.todo = op.todo
      /\ op'.unread = op.unread /\ op'.before = op.before /\ op'.path = op.path
      /\ op'.ok = op.ok /\ op'.clean = op.clean
      /\ op.pc = "idle" \/ op'.since # {}
  BY <1>0 DEF OthersProtect, OthersLink, OthersAdd, OthersDelete, Others, TypeOK, OpType
<1>2. Whole' /\ Shape' /\ server'.target = server.target
  <2>1. CASE OthersProtect
    <3>1. /\ server' = [server EXCEPT !.protected = ~server.protected]
          /\ "object" \in server.parts
      BY <2>1 DEF OthersProtect, Others
    <3>2. /\ server'.parts = server.parts /\ server'.target = server.target
          /\ server'.linked = server.linked
      BY <1>0, <3>1 DEF TypeOK, ServerType
    <3> QED
      BY <1>0, <3>1, <3>2 DEF Whole, Shape
  <2>2. CASE OthersLink
    <3>1. PICK ou \in OUs : server' = [server EXCEPT !.linked = @ \cup {ou}] /\ IsPolicy
      BY <2>2 DEF OthersLink, Others
    <3>2. /\ server'.parts = server.parts /\ server'.target = server.target
          /\ server'.protected = server.protected
      BY <1>0, <3>1 DEF TypeOK, ServerType
    <3> QED
      BY <1>0, <3>1, <3>2 DEF Whole, Shape, IsPolicy
  <2>3. CASE OthersAdd
    <3>1. PICK p \in {"class_store", "pol"} :
            Above(p) \in server.parts /\ server' = [server EXCEPT !.parts = @ \cup {p}]
      BY <2>3 DEF OthersAdd, Others
    <3>2. /\ server'.parts = server.parts \cup {p} /\ server'.target = server.target
          /\ server'.protected = server.protected /\ server'.linked = server.linked
      BY <1>0, <3>1 DEF TypeOK, ServerType, Parts, Objects, Files
    <3>3. Whole'
      BY <1>0, <3>1, <3>2 DEF Whole, WholeIn
    <3>4. server.target # "user"
      BY <1>0, <3>1 DEF Shape, Created, Above
    <3> QED
      BY <1>0, <3>2, <3>3, <3>4 DEF Shape
  <2>4. CASE OthersDelete
    <3>1. server' = Without(Objects)
      BY <2>4 DEF OthersDelete, Others
    <3> QED
      BY <1>0, <3>1, ObjectsWhole, WithoutShape DEF Whole
  <2> QED
    BY <2>1, <2>2, <2>3, <2>4
<1>3. IsPolicy' <=> IsPolicy
  BY <1>2 DEF IsPolicy
<1>4. Route'
  BY <1>1, <1>3 DEF QInv, Progress, Route
<1>5. Creating'
  BY <1>1, <1>2, <1>3, <1>4 DEF QInv, Progress, Creating
<1>6. CleaningUp'
  BY <1>1, <1>4 DEF QInv, Progress, CleaningUp, Route
<1>7. op.pc = "idle" => op'.kind = "none"
  BY <1>1 DEF QInv, Progress, Route
<1>8. Deleting' /\ Removing'
  BY <1>1, <1>7 DEF Deleting, Removing, Undisturbed
<1>9. AddIsAllOrNothing' /\ CleanDeleteFinishes'
  BY <1>1 DEF AddIsAllOrNothing, CleanDeleteFinishes
<1> QED
  BY <1>2, <1>4, <1>5, <1>6, <1>8, <1>9 DEF Progress

LEMMA NextQInv == QInv /\ [Next]_vars => QInv'
<1> SUFFICES ASSUME QInv, [Next]_vars PROVE QInv'
  OBVIOUS
<1>0. PInv'
  BY NextPInv DEF QInv
<1>1. CASE SearchFails \/ Crash \/ Return
  <2>1. op' = Idle /\ server' = server
    BY <1>1 DEF SearchFails, Crash, Killed, Return
  <2> QED
    BY <1>0, <2>1, IdleProgress DEF QInv
<1>2. CASE Refresh \/ UNCHANGED vars
  <2>1. UNCHANGED <<server, op>>
    BY <1>2 DEF Refresh, vars
  <2> QED
    BY <1>0, <2>1 DEF QInv, Progress, Whole, Shape, Route, Creating, CleaningUp, Deleting,
       Removing, Undisturbed, AddIsAllOrNothing, CleanDeleteFinishes, IsPolicy, IsLeaf
<1>3. CASE Add
  BY <1>0, <1>3, StartAddProgress, CreateProgress, CleanupProgress, StatFilesProgress
  DEF Add, QInv
<1>4. CASE Delete
  BY <1>0, <1>4, StartDeleteProgress, ReadPolicyProgress, SearchLinksProgress, UnlinkProgress
  DEF Delete, QInv
<1>5. CASE DeleteTree \/ SearchTree \/ DeletePlain \/ DeleteBelow
  BY <1>0, <1>5, DeleteTreeProgress, SearchTreeProgress, DeletePlainProgress,
     DeleteBelowProgress DEF QInv
<1>6. CASE ListFiles \/ DeleteFile
  BY <1>0, <1>6, ListFilesProgress, DeleteFileProgress DEF QInv
<1>7. CASE OthersProtect \/ OthersLink \/ OthersAdd \/ OthersDelete
  BY <1>0, <1>7, OthersProgress DEF QInv
<1> QED
  BY <1>1, <1>2, <1>3, <1>4, <1>5, <1>6, <1>7 DEF Next, Step, DeleteObject

LEMMA InitQInv == Init => QInv
<1> SUFFICES ASSUME Init PROVE QInv
  OBVIOUS
<1>1. PInv
  BY InitPInv
<1>2. op.pc = "idle" /\ op.kind = "none" /\ ~op.unread
  BY DEF Init, Idle
<1>3. PICK target \in Targets, exists \in BOOLEAN :
        /\ server.target = target /\ ~server.protected
        /\ server.parts = IF exists THEN Created(target) ELSE {}
        /\ server.linked = IF exists /\ target = "policy" THEN OUs ELSE {}
  BY DEF Init
<1>4. Shape
  BY <1>3 DEF Shape
<1>5. WholeIn({}) /\ WholeIn(Created(server.target))
  <2>1. WholeIn({})
    BY DEF WholeIn
  <2>2. CASE server.target = "user"
    BY <2>2 DEF WholeIn, Created, Above
  <2>3. CASE server.target # "user"
    <3>1. /\ Above("gpt") = "none" /\ Above("object") = "none" /\ Above("machine_dir") = "gpt"
          /\ Above("user_dir") = "gpt" /\ Above("ini") = "gpt" /\ Above("version") = "ini"
          /\ Above("path") = "object" /\ Above("name") = "object"
          /\ Above("user_container") = "object" /\ Above("machine_container") = "object"
      BY DEF Above
    <3> QED
      BY <2>3, <3>1 DEF WholeIn, Created
  <2> QED
    BY <2>1, <2>2, <2>3
<1>6. Whole
  BY <1>3, <1>5 DEF Whole
<1> QED
  BY <1>1, <1>2, <1>4, <1>6 DEF QInv, Progress, Route, Creating, CleaningUp, Deleting,
     Removing, AddIsAllOrNothing, CleanDeleteFinishes

\* gpo_add() and CreateObjectHelper::accept(): success means that all parts are
\* there; failure that there is what was there before, whichever calls of the
\* creation failed, unless one of the clean-up failed too or others changed the
\* object meanwhile.
THEOREM CreationIsAllOrNothing == Spec => []AddIsAllOrNothing
<1>1. QInv => AddIsAllOrNothing
  BY DEF QInv, Progress
<1> QED
  BY <1>1, InitQInv, NextQInv, PTL DEF Spec

\* object_delete() and gpo_delete(): whatever earlier attempts, crashes and other
\* administrators left, an attempt that nothing disturbs removes the object, the
\* files and the links of a policy that has its path, and of a user everything.
THEOREM DeletionFinishes == Spec => []CleanDeleteFinishes
<1>1. QInv => CleanDeleteFinishes
  BY DEF QInv, Progress
<1> QED
  BY <1>1, InitQInv, NextQInv, PTL DEF Spec
=============================================================================
