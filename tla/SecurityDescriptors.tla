------------------------ MODULE SecurityDescriptors ------------------------
(***************************************************************************)
(* The rights in the access control list of an object (ad_security.cpp):   *)
(* which entries grant or deny a right, which rights contain which others, *)
(* and how a right is set and unset so that the list keeps saying what a   *)
(* list of check boxes can show.                                           *)
(*                                                                         *)
(* The list is a function from what identifies an entry to its mask, the   *)
(* set of its bits; no entry is an empty mask.  A right, and the rights    *)
(* above and below it, match the entries of one trustee, flags and         *)
(* inherited type only, so that the operators are about the entries of     *)
(* one trustee and one scope.  The order of the entries is left to         *)
(* PropertiesDialog.  Inherited entries are apart: their flags are never   *)
(* those of a right, so that nothing here can change them, and they match  *)
(* the rights of every scope.                                              *)
(***************************************************************************)
EXTENDS Sequences, Naturals

CONSTANTS
    Trustees,
    Self, Everyone,     \* the trustees "cannot change password" is about
    Scopes,             \* flags and inherited type: what an entry applies to
    ThisObject,         \* no flags: the object itself
    Types, NoType,      \* object types: attributes, classes, extended rights
    ChangePassword,     \* the extended right User-Change-Password
    TypedRights         \* TypedRights[s]: the <<bit, type>> of the class that s is
                        \* about, in the order of ad_security_get_right_list_for_class

Bits == {"create_child", "delete_child", "list", "self_write", "read_prop",
         "write_prop", "delete_tree", "list_object", "control_access",
         "delete", "read_control", "write_dac", "write_owner"}

\* Bits that a right about one object type may have.
TypedBits == {"create_child", "delete_child", "read_prop", "write_prop",
              "control_access"}

ASSUME SecurityDescriptorsAssumption ==
    /\ {Self, Everyone} \subseteq Trustees /\ ThisObject \in Scopes
    /\ NoType \notin Types /\ ChangePassword \in Types
    /\ TypedRights \in [Scopes -> Seq(TypedBits \X Types)]

GenericAll == Bits
\* Without "list_object": GENERIC_READ_FIXED.
GenericRead == {"read_control", "list", "read_prop"}
GenericWrite == {"read_control", "self_write", "write_prop"}

\* COMMON_RIGHTS_LIST
CommonMasks == {GenericAll, GenericRead, GenericWrite}
                   \cup {{b} : b \in Bits \ {"list_object"}}

AnyType == Types \cup {NoType}
Right(mask, type) == [mask |-> mask, object_type |-> type]
CommonRights == {Right(m, NoType) : m \in CommonMasks}

TypedRightList(s) ==
    {Right({TypedRights[s][i][1]}, TypedRights[s][i][2]) : i \in DOMAIN TypedRights[s]}

\* ad_security_get_right_list_for_class()
RightList(s) == CommonRights \cup TypedRightList(s)

\* ad_security_get_subordinate_right_list(): does it list r for the mask?
Holds(mask, r) ==
    \/ mask = GenericAll   /\ r.mask # GenericAll
    \/ mask = GenericRead  /\ r.mask \in {{"read_prop"}, {"list"}}
    \/ mask = GenericWrite /\ r.mask \in {{"write_prop"}, {"self_write"}}
    \/ \E b \in TypedBits : mask = {b} /\ r.mask = {b} /\ r.object_type # NoType

\* The bits of the subordinate rights of each common right, by object type.
Below ==
    [s \in Scopes |-> [mask \in CommonMasks |-> [type \in AnyType |->
        UNION {r.mask : r \in {r \in RightList(s) :
                                  r.object_type = type /\ Holds(mask, r)}}]]]

Subordinates(s, r) ==
    IF r.object_type = NoType THEN Below[s][r.mask] ELSE [type \in AnyType |-> {}]

\* ad_security_get_superior_right_list()
SuperiorMasks(r) ==
    IF r.object_type # NoType
    THEN {m \in {GenericAll, GenericRead, GenericWrite, r.mask} : Holds(m, r)}
    ELSE IF r.mask \in {GenericRead, GenericWrite} THEN {GenericAll} ELSE {}

-----------------------------------------------------------------------------
(* The entries of one trustee and one scope: entries[allow][object type].  *)

\* The two columns of check boxes; "allow" in the code is the first.
Columns == {"allow", "deny"}
Opposite(column) == IF column = "allow" THEN "deny" ELSE "allow"

Entries == [Columns -> [AnyType -> SUBSET Bits]]
Dacl == [Trustees -> [Scopes -> Entries]]
None == [allow \in Columns |-> [type \in AnyType |-> {}]]

\* ace_match(): an entry without an object type is about every type.
IsSet(entries, r, allow) ==
    \E type \in {NoType, r.object_type} : r.mask \subseteq entries[allow][type]

\* Fault: the bit that "Read" and "Write" share is taken from both.
MaskToUnsetWhole(mask, unset) == unset

\* get_mask_to_unset(): "Read" and "Write" share a bit.
MaskToUnset(mask, unset) ==
    IF \/ unset = GenericRead /\ GenericWrite \subseteq mask
       \/ unset = GenericWrite /\ GenericRead \subseteq mask
    THEN unset \ {"read_control"}
    ELSE unset

\* security_descriptor_add_right_base()
Set(entries, r, allow) == [entries EXCEPT ![allow][r.object_type] = @ \cup r.mask]

\* security_descriptor_remove_right_base()
Unset(entries, r, allow) ==
    [entries EXCEPT ![allow][r.object_type] =
        IF r.mask \subseteq @ THEN @ \ MaskToUnset(@, r.mask) ELSE @]

\* The loops over the subordinate rights.  Those of more than one bit are only
\* below "Full control", where each of their bits is a right as well.
SetSubordinates(entries, s, r, allow) ==
    [entries EXCEPT ![allow] = [type \in AnyType |-> @[type] \cup Subordinates(s, r)[type]]]
UnsetSubordinates(entries, s, r, allow) ==
    [entries EXCEPT ![allow] = [type \in AnyType |-> @[type] \ Subordinates(s, r)[type]]]

\* Superior rights that are set are replaced by their subordinates, the more
\* superior ones first.
Split(entries, s, r, allow) ==
    LET SplitAt(e, mask) ==
          LET superior == Right(mask, NoType)
          IN  IF mask \in SuperiorMasks(r) /\ IsSet(e, superior, allow)
              THEN SetSubordinates(Unset(e, superior, allow), s, superior, allow)
              ELSE e
    IN  SplitAt(SplitAt(SplitAt(SplitAt(entries, GenericAll), GenericRead),
                        GenericWrite), r.mask)

\* Fault: the opposite rights below the one set are left.
AddRightOnly(entries, s, r, allow) ==
    LET removed == UnsetSubordinates(Split(entries, s, r, Opposite(allow)), s, r, allow)
    IN  Set(Unset(removed, r, Opposite(allow)), r, allow)

\* security_descriptor_add_right()
AddRight(entries, s, r, allow) ==
    LET removed == UnsetSubordinates(Split(entries, s, r, Opposite(allow)), s, r, allow)
        opposite == UnsetSubordinates(Unset(removed, r, Opposite(allow)), s, r, Opposite(allow))
    IN  Set(opposite, r, allow)

\* Fault: superior rights are left.
RemoveRightOnly(entries, s, r, allow) ==
    UnsetSubordinates(Unset(entries, r, allow), s, r, allow)

\* Fault: superior rights are removed with all that they contain.
RemoveRightWhole(entries, s, r, allow) ==
    LET without == [entries EXCEPT ![allow][NoType] = @ \ UNION SuperiorMasks(r)]
    IN  UnsetSubordinates(Unset(without, r, allow), s, r, allow)

\* security_descriptor_remove_right()
RemoveRight(entries, s, r, allow) ==
    UnsetSubordinates(Unset(Split(entries, s, r, allow), r, allow), s, r, allow)

\* security_descriptor_remove_trustee()
RemoveTrustees(dacl, trustees) ==
    [t \in Trustees |->
        IF t \in trustees THEN [s \in Scopes |-> None] ELSE dacl[t]]

\* security_descriptor_get_trustee_list()
TrusteeList(dacl, inherited) ==
    {t \in Trustees : inherited[t] # None \/ \E s \in Scopes : dacl[t][s] # None}

-----------------------------------------------------------------------------
(* What the general tab and the account tab change.                        *)

\* PROTECT_DELETION_MASK_LIST
DeleteRight == Right({"delete"}, NoType)
DeleteTreeRight == Right({"delete_tree"}, NoType)

\* ad_security_get_protected_against_deletion()
IsProtected(dacl) ==
    \A r \in {DeleteRight, DeleteTreeRight} : IsSet(dacl[Everyone][ThisObject], r, "deny")

\* ad_security_set_protected_against_deletion()
Protect(dacl, on) ==
    IF IsProtected(dacl) = on THEN dacl
    ELSE [dacl EXCEPT ![Everyone][ThisObject] =
             IF on THEN Set(Set(@, DeleteTreeRight, "deny"), DeleteRight, "deny")
             ELSE Unset(Unset(@, DeleteTreeRight, "deny"), DeleteRight, "deny")]

ChangePasswordRight == Right({"control_access"}, ChangePassword)

\* is_password_change_denied(): for either of the two.
CantChangePass(dacl) ==
    \E t \in {Self, Everyone} : IsSet(dacl[t][ThisObject], ChangePasswordRight, "deny")

SetPassword(entries, on) ==
    LET allow == IF on THEN "deny" ELSE "allow"
    IN  Set(Unset(entries, ChangePasswordRight, Opposite(allow)), ChangePasswordRight, allow)

\* Fault: only the user's own entry.
SetCantChangePassSelf(dacl, on) == [dacl EXCEPT ![Self][ThisObject] = SetPassword(@, on)]

\* ad_security_set_user_cant_change_pass(): "can't" is to deny.
SetCantChangePass(dacl, on) ==
    [dacl EXCEPT ![Self][ThisObject] = SetPassword(@, on),
                 ![Everyone][ThisObject] = SetPassword(@, on)]
=============================================================================
