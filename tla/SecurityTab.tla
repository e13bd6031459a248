---------------------------- MODULE SecurityTab ----------------------------
(***************************************************************************)
(* The check boxes of the security tab (permissions.cpp,                   *)
(* common_permissions.cpp): for the selected trustee and scope a box       *)
(* "allowed" and a box "denied" of every right, the common rights in one   *)
(* page and the rights about a type of objects in others.  Showing the     *)
(* common rights adds the right that contains others if all these are set. *)
(* The two edits of other tabs that write the same list to the server and  *)
(* have this tab loaded again are part of the model.                       *)
(***************************************************************************)
EXTENDS SecurityDescriptors

CONSTANTS
    Start,      \* access control lists to start from: [own, inherited]
    Clicked,    \* masks of the common rights that the user clicks
    MaxEdits    \* bound: clicks, and changes in the other tabs

ASSUME SecurityTabAssumption ==
    /\ \A s \in Start : s.own \in Dacl /\ s.inherited \in [Trustees -> Entries]
    /\ Clicked \subseteq CommonMasks /\ MaxEdits \in Nat

VARIABLES
    server,         \* the entries of the object
    inherited,      \* the inherited entries, of both
    sd,             \* the entries in the tab
    trustee, page, scope,   \* what is selected
    edits

vars == <<server, inherited, sd, trustee, page, scope, edits>>
selection == <<trustee, page, scope>>

Pages == {"common", "typed"}

IsChecked(d, t, s, r, allow) == IsSet(d[t][s], r, allow) \/ IsSet(inherited[t], r, allow)

\* The rights with the bit of the class that scope c is about: appliable_class
\* of the widget, which is not always that of the rows.
Subordinate(c, b) == SelectSeq(TypedRights[c], LAMBDA x : x[1] = b)

\* The first n of them have entries of their own in scope s.
AllOwn(d, t, s, c, b, n, allow) ==
    \A i \in 1..n :
        LET r == Right({b}, Subordinate(c, b)[i][2])
        IN  IsSet(d[t][s], r, allow) /\ ~IsSet(inherited[t], r, allow)

\* The loop over the rights with the bit ends the function if neither "all are
\* allowed" nor "all are denied" can hold any more, but looks only before the
\* next of them.
Ended(d, t, s, c, b) ==
    LET length == Len(Subordinate(c, b))
    IN  \/ \E n \in 0..(length - 1) : \A allow \in Columns : ~AllOwn(d, t, s, c, b, n, allow)
        \/ \A allow \in Columns : AllOwn(d, t, s, c, b, length, allow)

\* update_object_typed_permission()
UpdateTyped(d, t, s, c, b) ==
    IF Ended(d, t, s, c, b) THEN d
    ELSE LET allAllowed == AllOwn(d, t, s, c, b, Len(Subordinate(c, b)), "allow")
         IN  [d EXCEPT ![t][s] =
                 AddRight(@, c, Right({b}, NoType), IF allAllowed THEN "allow" ELSE "deny")]

\* CommonPermissionsWidget::update_permissions(), in the order of the bits, for
\* rows of scope s and the class of scope c.
UpdateCommon(d, t, s, c) ==
    LET Update(e, b) ==
          IF \E allow \in Columns : IsChecked(e, t, s, Right({b}, NoType), allow)
          THEN e ELSE UpdateTyped(e, t, s, c, b)
    IN  Update(Update(Update(Update(Update(d,
            "create_child"), "delete_child"), "read_prop"), "write_prop"), "control_access")

\* load_sd(): the trustee stays selected if it can, and is shown in rows of scope s.
LoadSd(d, s) ==
    \E t \in TrusteeList(d, inherited) :
        /\ trustee \in TrusteeList(d, inherited) => t = trustee
        /\ trustee' = t
        /\ sd' = UpdateCommon(d, t, s, scope)

\* SecurityTab::load() of an object that was loaded before: init() makes the
\* rows again, for this object, while the class is still that of the selected
\* scope; the rows get their scope back after the trustee is shown.
Load(d) == LoadSd(d, ThisObject)

TypeOK ==
    /\ server \in Dacl /\ sd \in Dacl /\ inherited \in [Trustees -> Entries]
    /\ trustee \in Trustees /\ page \in Pages /\ scope \in Scopes
    /\ edits \in 0..MaxEdits

\* The first load(): no class is known yet, so that no right is added.
Init ==
    /\ \E s \in Start : server = s.own /\ inherited = s.inherited
    /\ trustee \in TrusteeList(server, inherited)
    /\ page = "common" /\ scope = ThisObject
    /\ sd = server
    /\ edits = 0

-----------------------------------------------------------------------------
(* Showing.                                                                *)

\* The slot of currentChanged: every page is updated.
SelectTrustee(t) ==
    /\ t \in TrusteeList(sd, inherited) \ {trustee}
    /\ trustee' = t
    /\ sd' = UpdateCommon(sd, t, scope, scope)
    /\ UNCHANGED <<server, inherited, page, scope, edits>>

SelectPage(p) ==
    /\ p # page
    /\ page' = p
    /\ sd' = IF p = "common" THEN UpdateCommon(sd, trustee, scope, scope) ELSE sd
    /\ UNCHANGED <<server, inherited, trustee, scope, edits>>

\* on_applied_objs_cmbbox(): only the base class shows the rights again.
SelectScope(s) ==
    /\ s # scope
    /\ scope' = s
    /\ UNCHANGED <<server, inherited, sd, trustee, page, edits>>

-----------------------------------------------------------------------------
(* Editing.                                                                *)

\* The rows of the page.
PageRights ==
    IF page = "common" THEN {Right(m, NoType) : m \in Clicked}
    ELSE TypedRightList(scope)

\* The boxes of inherited rights are disabled unless there is more to unset.
Enabled(r, allow) ==
    IsSet(inherited[trustee], r, allow) => IsSet(sd[trustee][scope], r, allow)

\* on_item_changed(), and the page shown again.
Click(r, allow) ==
    /\ edits < MaxEdits
    /\ Enabled(r, allow)
    /\ LET clicked ==
              [sd EXCEPT ![trustee][scope] =
                  IF IsChecked(sd, trustee, scope, r, allow)
                  THEN RemoveRight(@, scope, r, allow)
                  ELSE AddRight(@, scope, r, allow)]
       IN  sd' = IF page = "common" THEN UpdateCommon(clicked, trustee, scope, scope) ELSE clicked
    /\ edits' = edits + 1
    /\ UNCHANGED <<server, inherited, selection>>

ClickAny == \E r \in PageRights, allow \in Columns : Click(r, allow)

\* on_clear_all(): the trustee stays selected, without entries of its own.
ClearAll ==
    /\ edits < MaxEdits
    /\ sd' = UpdateCommon(RemoveTrustees(sd, {trustee}), trustee, scope, scope)
    /\ edits' = edits + 1
    /\ UNCHANGED <<server, inherited, selection>>

\* on_remove_trustee_button(): load_sd() alone, the rows keep their scope.
RemoveTrusteeButton ==
    /\ edits < MaxEdits
    /\ LoadSd(RemoveTrustees(sd, {trustee}), scope)
    /\ edits' = edits + 1
    /\ UNCHANGED <<server, inherited, page, scope>>

\* SecurityTabEdit::apply() and the reset that follows.
Apply ==
    /\ server # sd
    /\ server' = sd
    /\ Load(sd)
    /\ UNCHANGED <<inherited, page, scope, edits>>

\* "Protect against deletion" of the general tab is applied.
SetProtected(on) ==
    /\ edits < MaxEdits
    /\ server' = Protect(server, on)
    /\ Load(server')
    /\ edits' = edits + 1
    /\ UNCHANGED <<inherited, page, scope>>

\* "User cannot change password" of the account tab is applied.
SetCantChange(on) ==
    /\ edits < MaxEdits
    /\ server' = SetCantChangePass(server, on)
    /\ Load(server')
    /\ edits' = edits + 1
    /\ UNCHANGED <<inherited, page, scope>>

Show ==
    \/ \E t \in Trustees : SelectTrustee(t)
    \/ \E p \in Pages : SelectPage(p)
    \/ \E s \in Scopes : SelectScope(s)

Next ==
    \/ Show \/ ClickAny \/ ClearAll \/ RemoveTrusteeButton \/ Apply
    \/ \E on \in BOOLEAN : SetProtected(on) \/ SetCantChange(on)

Spec == Init /\ [][Next]_vars

-----------------------------------------------------------------------------
(* Properties.                                                             *)

Own == sd[trustee][scope]

Conflict(entries, r) == IsSet(entries, r, "allow") /\ IsSet(entries, r, "deny")

\* Loading the object again may set a right of the object itself by the rights
\* of another class, that of the selected scope.
SetForOtherClass(t, s) ==
    /\ Apply
    /\ TypedRights[scope] # TypedRights[ThisObject]
    /\ t = trustee' /\ s = ThisObject

\* "Setting a right should unset it's opposite" (admc_test_ad_security.cpp): the
\* boxes "allowed" and "denied" of a right are never both set by the tab,
\* through any sequence of clicks on rights that contain each other; but for
\* "read permissions", a bit that "Read" and "Write" share.  Left out are the
\* edits of the other tabs, which keep what the opposite entries hold, and the
\* entries of this object when the tab is loaded again while the scope of a
\* class with other rights is selected.
NoNewConflict ==
    [][~(\E on \in BOOLEAN : SetProtected(on) \/ SetCantChange(on)) =>
         \A t \in Trustees, s \in Scopes : \A r \in RightList(s) :
             Conflict(sd'[t][s], r) =>
                 Conflict(sd[t][s], r) \/ "read_control" \in r.mask \/ SetForOtherClass(t, s)]_vars

\* The rights that the common page may set when it is shown.
Added(r) == page = "common" /\ r.mask \in {{b} : b \in TypedBits}

\* A click on a box does what it shows: the box changes, and the opposite box is
\* not set; whichever superior right the entries were part of.  A box that is
\* unset may be set again by the common page when it is shown.
ClickTold ==
    [][\A r \in PageRights, allow \in Columns :
         Click(r, allow) =>
           IF IsChecked(sd, trustee, scope, r, allow)
           THEN Added(r) \/ ~IsSet(Own', r, allow)
           ELSE IsSet(Own', r, allow) /\ ~IsSet(Own', r, Opposite(allow))]_vars

\* Two rights that may share an entry's bits.
Related(r, s) ==
    /\ r.mask \cap s.mask # {}
    /\ r.object_type = s.object_type \/ NoType \in {r.object_type, s.object_type}

\* A click changes no right but those that have bits in common with the one
\* clicked: splitting "Full control", "Read" or "All extended rights" loses none
\* of the other rights in them.  Left out are "read permissions", the bit that
\* "Read" and "Write" share, and what the common page adds when it is shown.
UnrelatedKept ==
    [][\A r \in PageRights, allow \in Columns :
         Click(r, allow) =>
           \A s \in RightList(scope), a \in Columns :
               \/ Related(r, s)
               \/ "read_control" \in s.mask
               \/ page = "common" /\ s.mask \cap TypedBits # {}
               \/ IsSet(Own', s, a) = IsSet(Own, s, a)]_vars

AllExtended == Right({"control_access"}, NoType)

\* The boxes of the general tab and the account tab show what was applied,
\* whatever entries there were, unless more than the password is denied.
OtherTabsTold ==
    [][\A on \in BOOLEAN :
         /\ SetProtected(on) => IsProtected(server') = on
         /\ SetCantChange(on) =>
              (CantChangePass(server') = on
                 \/ \E t \in {Self, Everyone} :
                        IsSet(server[t][ThisObject], AllExtended, "deny"))]_vars

\* "If all subordinate permissions are set then corresponding superior
\* permission should be set" (common_permissions.cpp), and only then: selecting
\* a trustee or a page sets no right that contains others unless all these
\* were set alike.
ShowsSuperiorOfAll ==
    [][Show =>
         \A t \in Trustees, s \in Scopes, b \in TypedBits, allow \in Columns :
             IsSet(sd'[t][s], Right({b}, NoType), allow) =>
                 \/ IsSet(sd[t][s], Right({b}, NoType), allow)
                 \/ \A r \in TypedRightList(s) :
                        r.mask = {b} => IsSet(sd[t][s], r, allow)]_vars
=============================================================================
