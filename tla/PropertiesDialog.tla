-------------------------- MODULE PropertiesDialog --------------------------
(***************************************************************************)
(* The properties dialog of one object (properties.cpp) with its edits     *)
(* (AttributeEdits).  An edit that the user changes is put on the apply    *)
(* list; Apply and OK apply the list, Reset loads everything again.  Going *)
(* to or from the attributes tab with something on the list asks first     *)
(* whether to apply or to discard it, going to the security tab whether to *)
(* sort its entries.  Other administrators change the object meanwhile.    *)
(***************************************************************************)
EXTENDS AttributeEdits

CONSTANTS
    Start,              \* objects to start from, by class: [class, object]
    Touched,            \* Touched[class]: the edits the user touches
    Typed,              \* what the user types, logon names apart
    OtherFlags, OtherGroups,    \* what others change
    MaxChanges,         \* bound: changes in the dialog and by others
    MaxOpens            \* bound: times it is opened

ASSUME PropertiesDialogAssumption ==
    /\ \A s \in Start : s.class \in {"user", "group"} /\ s.object \in Objects
    /\ Touched \in [{"user", "group"} -> SUBSET Edits]
    /\ Typed \subseteq Texts
    /\ OtherFlags \subseteq Flags /\ OtherGroups \subseteq Groups
    /\ MaxChanges \in Nat /\ MaxOpens \in Nat

VARIABLES
    class, object,      \* the server
    dialog,             \* the dialog
    changes, opens      \* counters of the bounds

vars == <<class, object, dialog, changes, opens>>

Tabs == {"Other", "Attributes", "Security"}

Closed ==
    [open |-> FALSE, advanced |-> FALSE, tab |-> "Other", warning |-> "none",
     going |-> "Other", shown |-> << >>, loaded |-> {}, apply_list |-> << >>,
     buttons |-> FALSE, read_only |-> FALSE, previous_sd |-> {},
     undiscarded |-> FALSE]

EditList(d) == EditsOf(class, d.advanced)

OnList(d, e) == \E i \in DOMAIN d.apply_list : d.apply_list[i] = e

Init ==
    /\ \E s \in Start : class = s.class /\ object = s.object
    /\ dialog = Closed
    /\ changes = 0 /\ opens = 0

\* The connection a handler of the dialog makes.
Connects == {TRUE} \cup MayFail("connect", FALSE)

\* Fault: an edit that is on the list already is added again.
EditedAgain(d, e) ==
    [d EXCEPT !.apply_list = Append(@, e), !.buttons = TRUE]

\* The slot of AttributeEdit::edited.
Edited(d, e) ==
    [d EXCEPT !.apply_list = IF OnList(d, e) THEN @ ELSE Append(@, e),
              !.buttons = TRUE]

\* Fault: the list is emptied before the edits are loaded, which emit edited()
\* as their widgets change.
ResetInternalListFirst(d, o) ==
    [d EXCEPT !.shown = [e \in EditList(d) |-> Load(e, o)],
              !.loaded = {o},
              !.apply_list =
                  SetToSeq({e \in EditList(d) :
                                d.shown # << >> /\ d.shown[e] # Load(e, o)}),
              !.buttons = FALSE]

\* reset_internal().  "loaded" is the object, and "undiscarded" whether changes
\* are left that were to be discarded, both for the properties only.
ResetInternal(d, o) ==
    [d EXCEPT !.shown = [e \in EditList(d) |-> Load(e, o)],
              !.loaded = {o},
              !.apply_list = << >>,
              !.buttons = FALSE,
              !.undiscarded = FALSE]

\* open_security_warning(), called with the tab it finds.
OpenSecurityWarning(d) ==
    IF /\ d.tab = "Security"
       /\ ~d.read_only
       /\ ~d.shown["security"].ordered
    THEN [d EXCEPT !.warning = "security"]
    ELSE d

\* apply_internal(): every outcome, as the object, whether it succeeded and the
\* dialog.  UnlockEdit::apply() clears its box whatever comes of it.
ApplyInternal(d) ==
    LET none == [object |-> object, ok |-> TRUE, previous_sd |-> d.previous_sd]
        After(r) == [object |-> r.object, ok |-> r.ok,
                     dialog |-> [d EXCEPT !.previous_sd = r.previous_sd,
                                          !.buttons = IF r.ok THEN FALSE ELSE @,
                                          !.shown = IF OnList(d, "unlock")
                                                    THEN [@ EXCEPT !["unlock"] = FALSE]
                                                    ELSE @]]
    IN  UNION {IF verified
               THEN {After(r) : r \in ApplyAll(d.apply_list, d.shown, none)}
               ELSE {[object |-> object, ok |-> FALSE, dialog |-> d]} :
                   verified \in VerifyAll(d.apply_list, d.shown)}

-----------------------------------------------------------------------------
(* Opening and closing.                                                    *)

\* open_for_target() of an object without a dialog; the constructor.  The
\* security tab and the attributes tab are there in the advanced view only.
Open(advanced) ==
    /\ ~dialog.open /\ opens < MaxOpens
    /\ opens' = opens + 1
    /\ dialog' = ResetInternal([Closed EXCEPT !.open = TRUE, !.advanced = advanced],
                               object)
    /\ UNCHANGED <<class, object, changes>>

\* No dialog over the properties dialog.
Ready == dialog.open /\ dialog.warning = "none"

Cancel ==
    /\ Ready
    /\ dialog' = Closed
    /\ UNCHANGED <<class, object, changes, opens>>

\* accept(): the dialog closes if everything was applied.
Accept ==
    /\ Ready
    /\ \E r \in ApplyInternal(dialog) :
           /\ object' = r.object
           /\ dialog' = IF r.ok THEN Closed ELSE r.dialog
    /\ UNCHANGED <<class, changes, opens>>

ApplyButton ==
    /\ Ready /\ dialog.buttons
    /\ \E r \in ApplyInternal(dialog) :
           /\ object' = r.object
           /\ dialog' = IF r.ok THEN ResetInternal(r.dialog, r.object) ELSE r.dialog
    /\ UNCHANGED <<class, changes, opens>>

\* reset(): nothing happens without a connection.
ResetOutcomes(d) == {IF connects THEN ResetInternal(d, object) ELSE d : connects \in Connects}

Reset ==
    /\ Ready /\ dialog.buttons
    /\ dialog' \in ResetOutcomes(dialog)
    /\ UNCHANGED <<class, object, changes, opens>>

-----------------------------------------------------------------------------
(* Switching tabs.                                                         *)

\* Fault: no question on the way from the attributes tab.
WarningNeededToAttributes(d, tab) ==
    tab = "Attributes" /\ d.apply_list # << >>

AttributesWarningNeeded(d, tab) ==
    "Attributes" \in {d.tab, tab} /\ d.apply_list # << >>

\* on_current_tab_changed()
SwitchTab(tab) ==
    /\ Ready /\ dialog.advanced /\ tab # dialog.tab
    /\ dialog' = IF AttributesWarningNeeded(dialog, tab)
                 THEN [dialog EXCEPT !.warning = "attributes", !.going = tab]
                 ELSE OpenSecurityWarning([dialog EXCEPT !.tab = tab])
    /\ UNCHANGED <<class, object, changes, opens>>

Asked == [dialog EXCEPT !.warning = "none", !.going = "Other"]

\* Apply in the attributes warning: the dialog is reset whether or not
\* everything was applied, and stays on its tab if there is no connection.
WarningApplied ==
    /\ dialog.warning = "attributes"
    /\ \/ \E r \in ApplyInternal(Asked) :
              /\ object' = r.object
              /\ dialog' = OpenSecurityWarning(
                     [ResetInternal(r.dialog, r.object) EXCEPT !.tab = dialog.going])
       \/ /\ "connect" \in Faults
          /\ dialog' = OpenSecurityWarning(Asked)
          /\ UNCHANGED object
    /\ UNCHANGED <<class, changes, opens>>

\* Discard: the tab is changed whether or not anything was discarded.
WarningDiscarded ==
    /\ dialog.warning = "attributes"
    /\ \E d \in ResetOutcomes(Asked) :
           dialog' = OpenSecurityWarning([d EXCEPT !.tab = dialog.going,
                                                   !.undiscarded = d.apply_list # << >>])
    /\ UNCHANGED <<class, object, changes, opens>>

WarningRejected ==
    /\ dialog.warning = "attributes"
    /\ dialog' = OpenSecurityWarning(Asked)
    /\ UNCHANGED <<class, object, changes, opens>>

\* on_security_warning_accepted(): fix_acl_order().
SortAccepted ==
    /\ dialog.warning = "security"
    /\ dialog' = Edited([Asked EXCEPT !.shown["security"].ordered = TRUE], "security")
    /\ UNCHANGED <<class, object, changes, opens>>

\* on_security_warning_rejected(): the tab is read only from now on.
SortRejected ==
    /\ dialog.warning = "security"
    /\ dialog' = [Asked EXCEPT !.read_only = TRUE]
    /\ UNCHANGED <<class, object, changes, opens>>

-----------------------------------------------------------------------------
(* The user's changes.  Each emits edited(), also when it changes nothing.  *)

CanEdit(e, tab) ==
    /\ Ready /\ changes < MaxChanges
    /\ e \in Touched[class] \cap EditList(dialog) /\ dialog.tab = tab

Showing(e, value) ==
    /\ changes' = changes + 1
    /\ dialog' = Edited([dialog EXCEPT !.shown[e] = value], e)
    /\ UNCHANGED <<class, object, opens>>

TypeText ==
    \E e \in {"description", "upn"} :
        \E t \in IF e = "upn" THEN Texts ELSE Typed :
            /\ CanEdit(e, "Other") /\ t # dialog.shown[e]
            /\ Showing(e, t)

TypePhone ==
    \E t \in Typed :
        /\ CanEdit("phone", "Other") /\ t # dialog.shown["phone"].main
        /\ Showing("phone", [dialog.shown["phone"] EXCEPT !.main = t])

\* on_other_button(): the list of other values, trimmed or not.
EditOtherPhone ==
    \E t \in Typed :
        /\ CanEdit("phone", "Other") /\ t # dialog.shown["phone"].other
        /\ Showing("phone", [dialog.shown["phone"] EXCEPT !.other = t])

\* Fault: an option keeps another from being set, not the other way round.
BlockersOneWay(e) ==
    IF e = "expired" THEN {"dont_expire", "cant_change"} ELSE {}

\* account_option_setup_conflicts(): which options keep an option from being
\* set; the slots run on clicks only.
Blockers(e) ==
    CASE e = "expired" -> {"dont_expire", "cant_change"}
      [] e \in {"dont_expire", "cant_change"} -> {"expired"}
      [] OTHER -> {}

ClickOption ==
    \E e \in AccountOptions :
        /\ CanEdit(e, "Other")
        /\ Showing(e, /\ ~dialog.shown[e]
                       /\ \A b \in Blockers(e) : ~dialog.shown[b])

ClickCheck ==
    \E e \in {"unlock", "delegation", "protect"} :
        /\ CanEdit(e, "Other")
        /\ Showing(e, ~dialog.shown[e])

ChooseScope ==
    \E scope \in GroupScope :
        /\ CanEdit("scope", "Other") /\ scope # dialog.shown["scope"]
        /\ Showing("scope", scope)

ChooseType ==
    \E type \in GroupType :
        /\ CanEdit("type", "Other") /\ type # dialog.shown["type"]
        /\ Showing("type", type)

AddMember ==
    \E e \in {"members", "member_of"}, g \in Groups :
        /\ CanEdit(e, "Other")
        /\ Showing(e, [dialog.shown[e] EXCEPT !.current_values = @ \cup {g}])

\* on_remove_button(): not the primary one.
RemoveMember ==
    \E e \in {"members", "member_of"}, g \in Groups :
        /\ CanEdit(e, "Other")
        /\ g \in dialog.shown[e].current_values \ dialog.shown[e].current_primary_values
        /\ Showing(e, [dialog.shown[e] EXCEPT !.current_values = @ \ {g}])

MakePrimary ==
    \E g \in Groups :
        /\ CanEdit("member_of", "Other")
        /\ g \in dialog.shown["member_of"].current_values
        /\ g \notin dialog.shown["member_of"].current_primary_values
        /\ Showing("member_of", WithPrimary(dialog.shown["member_of"], g))

\* edit_attribute(): any value, not trimmed.
EditAttribute ==
    \E a \in TextAttributes, t \in Typed :
        /\ CanEdit("attributes", "Attributes")
        /\ t # dialog.shown["attributes"].current[a]
        /\ Showing("attributes", [dialog.shown["attributes"] EXCEPT !.current[a] = t])

\* on_load_optional(): what was edited is dropped, the edit stays on the list.
LoadOptional ==
    /\ Ready /\ dialog.tab = "Attributes"
    /\ dialog.shown["attributes"].current # dialog.shown["attributes"].original
    /\ dialog' = [dialog EXCEPT !.shown["attributes"].current =
                                    dialog.shown["attributes"].original]
    /\ UNCHANGED <<class, object, changes, opens>>

\* The permissions: adding or removing a right sorts the entries.
SetRight ==
    \E t \in Trustees, on \in BOOLEAN :
        /\ CanEdit("security", "Security") /\ ~dialog.read_only
        /\ Showing("security", [dialog.shown["security"] EXCEPT
                                   !.others = With(@, t, on), !.ordered = TRUE])

\* "Remove" and "Clear all" take a trustee's entries away; "Clear all" is not
\* disabled when the tab is read only.
RemoveTrustee ==
    \E t \in dialog.shown["security"].others :
        Showing("security", [dialog.shown["security"] EXCEPT !.others = @ \ {t}])

RemoveTrusteeButton ==
    CanEdit("security", "Security") /\ ~dialog.read_only /\ RemoveTrustee

ClearAll == CanEdit("security", "Security") /\ RemoveTrustee

\* on_restore_previous_sd()
Rollback ==
    /\ CanEdit("security", "Security")
    /\ \E sd \in dialog.previous_sd : Showing("security", sd)

-----------------------------------------------------------------------------
(* Other administrators, and other windows of this one.  Nothing that the  *)
(* dialog does reads the object but when it is loaded and applied, so that *)
(* it is enough that they act while something is pending.                  *)

OtherChange(o) ==
    /\ Ready /\ dialog.apply_list # << >> /\ changes < MaxChanges
    /\ changes' = changes + 1
    /\ object' = o
    /\ UNCHANGED <<class, dialog, opens>>

OthersSetFlag ==
    \E f \in OtherFlags : OtherChange([object EXCEPT !.flags = With(@, f, f \notin @)])

\* A right of a trustee and the protection from deletion.
OthersWriteDescriptor ==
    \E t \in Trustees :
        OtherChange([object EXCEPT !.sd.others = With(@, t, t \notin @),
                                   !.sd.protected = ~@, !.sd.ordered = TRUE])

OthersChangeGroups ==
    \E g \in OtherGroups \ object.primary :
        OtherChange([object EXCEPT !.groups = With(@, g, g \notin @)])

Edit ==
    \/ TypeText \/ TypePhone \/ EditOtherPhone \/ ClickOption \/ ClickCheck
    \/ ChooseScope \/ ChooseType \/ AddMember \/ RemoveMember \/ MakePrimary
    \/ EditAttribute \/ LoadOptional
    \/ SetRight \/ RemoveTrusteeButton \/ ClearAll \/ Rollback

Others == OthersSetFlag \/ OthersWriteDescriptor \/ OthersChangeGroups

Applying == Accept \/ ApplyButton \/ WarningApplied

Next ==
    \/ \E advanced \in BOOLEAN : Open(advanced)
    \/ Cancel \/ Accept \/ ApplyButton \/ Reset
    \/ \E tab \in Tabs : SwitchTab(tab)
    \/ WarningApplied \/ WarningDiscarded \/ WarningRejected
    \/ SortAccepted \/ SortRejected
    \/ Edit \/ Others

Spec == Init /\ [][Next]_vars

-----------------------------------------------------------------------------
(* Properties.                                                             *)

ShownBy(e) ==
    CASE e \in {"description", "upn"} -> Texts
      [] e = "phone" -> [main : Texts, other : Texts]
      [] e = "scope" -> GroupScope
      [] e = "type"  -> GroupType
      [] e \in {"members", "member_of"} -> Membership
      [] e = "attributes" -> [original : [TextAttributes -> Texts],
                              current : [TextAttributes -> Texts]]
      [] e = "security" -> Descriptor
      [] OTHER -> BOOLEAN

\* The object stays one, each edit shows values of its kind, and no edit is on
\* the list twice: PropertiesDialog's edit_list and apply_list.
TypeOK ==
    /\ object \in Objects
    /\ dialog.tab \in Tabs /\ dialog.warning \in {"none", "attributes", "security"}
    /\ dialog.open =>
          /\ DOMAIN dialog.shown = EditList(dialog)
          /\ \A e \in EditList(dialog) : dialog.shown[e] \in ShownBy(e)
          /\ \A i \in DOMAIN dialog.apply_list : dialog.apply_list[i] \in EditList(dialog)
          /\ IsInjective(dialog.apply_list)

\* Whatever the dialog shows that differs from what it loaded is on the list
\* and can be applied, and an edit that shows what was loaded without having
\* been touched is not: with nothing on the list the buttons are disabled.
PendingIsListed ==
    dialog.open =>
        /\ \A o \in dialog.loaded : \A e \in EditList(dialog) :
              dialog.shown[e] # Load(e, o) => OnList(dialog, e)
        /\ dialog.buttons = (dialog.apply_list # << >>)

\* "Can't set ... when ... is set" (account_option_edit.cpp): the dialog never
\* shows two options in conflict unless it loaded them so.
ConflictsAreLoaded ==
    dialog.open /\ class = "user" =>
        \A e \in {"dont_expire", "cant_change"} :
            dialog.shown["expired"] /\ dialog.shown[e] =>
                \A o \in dialog.loaded : o.expired /\ Load(e, o)

\* The warning's purpose (properties.cpp, on_current_tab_changed): changes made
\* in the attributes tab and changes made in others are never applied
\* together, unless they were to be discarded and there was no connection.
AttributesAlone ==
    dialog.open /\ ~dialog.undiscarded =>
        /\ OnList(dialog, "attributes") => dialog.apply_list = <<"attributes">>
        /\ dialog.tab = "Attributes" /\ dialog.apply_list # << >> =>
              OnList(dialog, "attributes")

\* The edit shares data with one after it on the list.
Overwritten(d, i) ==
    \E j \in DOMAIN d.apply_list :
        /\ j > i
        /\ Parts(d.apply_list[i], d.shown[d.apply_list[i]])
             \cap Parts(d.apply_list[j], d.shown[d.apply_list[j]]) # {}

\* OK and Apply leave an object that is what the edits on the list show, but
\* for those that an edit after them writes over: the security tab replaces
\* the whole descriptor, protection and "cannot change password" included.
AppliedIsShown ==
    [][(Accept \/ ApplyButton) /\ (~dialog'.open \/ dialog'.apply_list = << >>) =>
         \A i \in DOMAIN dialog.apply_list :
             Overwritten(dialog, i) \/
                 Reflects(object', dialog.apply_list[i], dialog.shown[dialog.apply_list[i]])]_vars

\* Applying writes to no part of the object but those of the edits on the list:
\* the other options in userAccountControl, the other groups and the rest of
\* the descriptor stay as they are on the server, whoever changed them since
\* the dialog was loaded.
OthersKept ==
    [][Applying =>
         \A p \in AllParts :
             Part(object', p) # Part(object, p) =>
                 \E i \in DOMAIN dialog.apply_list :
                     p \in Parts(dialog.apply_list[i],
                                 dialog.shown[dialog.apply_list[i]])]_vars
=============================================================================
