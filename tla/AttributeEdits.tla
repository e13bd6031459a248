--------------------------- MODULE AttributeEdits ---------------------------
(***************************************************************************)
(* What the edits of the properties dialogs read from an object (load) and *)
(* write to it (apply): one edit of each way of writing there is.          *)
(*   a string edit trims what was typed and replaces one attribute;        *)
(*   a string edit with "other" values replaces two, one after the other;  *)
(*   an account option is a bit of userAccountControl, read when it is     *)
(*     applied, or pwdLastSet, or two entries of the security descriptor;  *)
(*   protection from deletion rewrites the descriptor, unless it is as     *)
(*     wanted already; the security tab replaces it whole;                 *)
(*   the scope of a group may need two writes;                             *)
(*   a membership edit writes the difference to what it loaded, and so     *)
(*     does the attributes tab.                                            *)
(* Every write may fail, and some of the reads; an apply is the set of its *)
(* outcomes.  A read of the descriptor always succeeds in this model.      *)
(***************************************************************************)
EXTENDS Naturals, Sequences, SequencesExt, FiniteSets

CONSTANTS
    Texts, NoText,      \* what may be typed; an empty field
    Trim,               \* Trim[t]: t without spaces at its ends
    Taken,              \* logon names of other users
    Groups,             \* groups of a user, or members of a group
    Trustees,           \* trustees with entries in the descriptor
    Faults              \* "connect", "read", "write"

ASSUME AttributeEditsAssumption ==
    /\ NoText \in Texts /\ Taken \subseteq Texts
    /\ Trim \in [Texts -> Texts] /\ Trim[NoText] = NoText
    /\ \A t \in Texts : Trim[Trim[t]] = Trim[t]
    /\ Faults \subseteq {"connect", "read", "write"}

TextAttributes ==
    {"description", "telephoneNumber", "otherTelephone", "userPrincipalName"}

\* Two of the bits of userAccountControl, by the edit that shows each.
Flags == {"dont_expire", "delegation"}
AccountOptions == {"dont_expire", "expired", "cant_change"}

GroupScope == {"Global", "DomainLocal", "Universal"}
GroupType == {"Security", "Distribution"}

\* A security descriptor: whether it denies deletion to everyone and the
\* change of the password to the user, the trustees with other entries, and
\* whether the entries are in canonical order.
Descriptor == [protected : BOOLEAN, cant_change : BOOLEAN,
               others : SUBSET Trustees, ordered : BOOLEAN]

Objects ==
    [text : [TextAttributes -> Texts], flags : SUBSET Flags,
     expired : BOOLEAN, locked : BOOLEAN,
     scope : GroupScope, type : GroupType,
     groups : SUBSET Groups, primary : SUBSET Groups, sd : Descriptor]

UserEdits == {"description", "phone", "upn", "dont_expire", "expired",
              "cant_change", "unlock", "delegation", "member_of"}
GroupEdits == {"description", "scope", "type", "members"}
AdvancedEdits == {"protect", "attributes", "security"}
Edits == UserEdits \cup GroupEdits \cup AdvancedEdits

\* The tabs of a class of objects, as the edits they hold.
EditsOf(class, advanced) ==
    (IF class = "user" THEN UserEdits ELSE GroupEdits)
        \cup (IF advanced THEN AdvancedEdits ELSE {})

-----------------------------------------------------------------------------
(* The server.                                                             *)

MayFail(fault, outcome) == IF fault \in Faults THEN {outcome} ELSE {}

\* What has come of an apply: the object, whether all went well, and what the
\* apply changes in the dialog.
Done(r, object) == [r EXCEPT !.object = object]
Failed(r) == [r EXCEPT !.ok = FALSE]

Write(r, object) == {Done(r, object)} \cup MayFail("write", Failed(r))

\* attribute_replace_values(): no write if there is nothing to replace.
ReplaceText(r, attribute, text) ==
    IF r.object.text[attribute] = NoText /\ text = NoText THEN {r}
    ELSE Write(r, [r.object EXCEPT !.text[attribute] = text])

\* A step for every outcome of the step before.
Then(results, Step(_)) == UNION {Step(r) : r \in results}

-----------------------------------------------------------------------------
(* Account options.                                                        *)

With(S, x, on) == IF on THEN S \cup {x} ELSE S \ {x}

\* get_uac(): a failed read is an account without any option.
Uac(object) == {object.flags} \cup MayFail("read", {})

\* Fault: the other bits are those the dialog loaded.
SetFlagAsLoaded(r, flag, on) ==
    Write(r, [r.object EXCEPT !.flags = With({}, flag, on)])

SetFlag(r, flag, on) ==
    UNION {Write(r, [r.object EXCEPT !.flags = With(flags, flag, on)]) :
               flags \in Uac(r.object)}

SetExpired(r, on) == Write(r, [r.object EXCEPT !.expired = on])

\* ad_security_set_user_cant_change_pass(): on the descriptor as it is now.
SetCantChange(r, on) ==
    Write(r, [r.object EXCEPT !.sd.cant_change = on, !.sd.ordered = TRUE])

\* ad_security_set_protected_against_deletion()
SetProtected(r, on) ==
    IF r.object.sd.protected = on THEN {r}
    ELSE Write(r, [r.object EXCEPT !.sd.protected = on, !.sd.ordered = TRUE])

Unlock(r) == Write(r, [r.object EXCEPT !.locked = FALSE])

-----------------------------------------------------------------------------
(* Groups.                                                                 *)

\* There is no way from "Global" to "DomainLocal" or back but over
\* "Universal".
IsUniversalScopeNeeded(object, scope) ==
    \/ object.scope = "Global" /\ scope = "DomainLocal"
    \/ object.scope = "DomainLocal" /\ scope = "Global"

\* Scope and type are bits of groupType; a failed read is a group without
\* any, that of a security group among them.
GroupTypeRead(object) == {object.type} \cup MayFail("read", "Distribution")

\* The server refuses the change of scope it does not know.
WriteScope(r, scope) ==
    IF IsUniversalScopeNeeded(r.object, scope) THEN {Failed(r)}
    ELSE UNION {Write(r, [r.object EXCEPT !.scope = scope, !.type = type]) :
                    type \in GroupTypeRead(r.object)}

\* group_set_scope(): the result of the step over "Universal" is ignored.
SetScope(r, scope) ==
    Then(IF IsUniversalScopeNeeded(r.object, scope)
         THEN {[s EXCEPT !.ok = r.ok] : s \in WriteScope(r, "Universal")}
         ELSE {r},
         LAMBDA s : WriteScope(s, scope))

\* group_set_type(): the server refuses a group without a scope, which is what
\* a failed read leads to.
SetType(r, type) ==
    Write(r, [r.object EXCEPT !.type = type]) \cup MayFail("read", Failed(r))

\* What a membership edit shows, and what it compares it with.
Membership == [original_values : SUBSET Groups, current_values : SUBSET Groups,
               original_primary_values : SUBSET Groups,
               current_primary_values : SUBSET Groups]

LoadMembership(object) ==
    [original_values |-> object.groups, current_values |-> object.groups,
     original_primary_values |-> object.primary,
     current_primary_values |-> object.primary]

Added(m) == m.current_values \ m.original_values
Removed(m) == m.original_values \ m.current_values

\* group_add_member() and group_remove_member() for each of two sets.  The
\* server refuses to add a member and to remove what is none.
ChangeGroups(r, added, removed) ==
    LET accepted == (added \ (r.object.groups \cup r.object.primary))
                        \cup (removed \cap r.object.groups)
    IN  {[r EXCEPT
            !.object.groups = (@ \ (done \cap removed)) \cup (done \cap added),
            !.ok = @ /\ done = added \cup removed] :
                done \in {accepted}
                    \cup (IF "write" \in Faults THEN SUBSET accepted ELSE {})}

\* The server's part: the old primary group becomes a normal one.
WritePrimaryGroup(r, group) ==
    IF group \notin r.object.groups \cup r.object.primary THEN {Failed(r)}
    ELSE Write(r, [r.object EXCEPT !.groups = (@ \cup r.object.primary) \ {group},
                                   !.primary = {group}])

\* user_set_primary_group(): the result of the addition is ignored.
SetPrimaryGroup(r, group) ==
    Then({[s EXCEPT !.ok = r.ok] :
              s \in ChangeGroups(r, {group} \ r.object.groups, {})},
         LAMBDA s : WritePrimaryGroup(s, group))

ApplyMembers(r, m) == ChangeGroups(r, Added(m), Removed(m))

\* The primary group first; groups that were or are primary are left alone.
ApplyMemberOf(r, m) ==
    LET primary == m.original_primary_values \cup m.current_primary_values
    IN  Then(IF m.current_primary_values = m.original_primary_values THEN {r}
             ELSE UNION {SetPrimaryGroup(r, g) : g \in m.current_primary_values},
             LAMBDA s : ChangeGroups(s, Added(m) \ primary, Removed(m) \ primary))

\* on_primary_button()
WithPrimary(m, group) ==
    [m EXCEPT !.current_values = (@ \cup m.current_primary_values) \ {group},
              !.current_primary_values = {group}]

-----------------------------------------------------------------------------
(* The attributes tab and the security tab.                                *)

LoadAttributes(object) == [original |-> object.text, current |-> object.text]

ChangedAttributes(shown) ==
    {a \in TextAttributes : shown.current[a] # shown.original[a]}

\* Every attribute that was changed; what cannot be written does not keep the
\* rest from being written.
ApplyAttributes(r, shown) ==
    LET changed == {a \in ChangedAttributes(shown) :
                        r.object.text[a] # NoText \/ shown.current[a] # NoText}
    IN  {[r EXCEPT
            !.object.text = [a \in TextAttributes |-> IF a \in written THEN shown.current[a]
                                                     ELSE @[a]],
            !.ok = @ /\ written = changed] :
                written \in {changed}
                    \cup (IF "write" \in Faults THEN SUBSET changed ELSE {})}

\* The descriptor to roll back to is the one the server has by now.
ApplySecurity(r, sd) ==
    Write([r EXCEPT !.previous_sd = {r.object.sd}], [r.object EXCEPT !.sd = sd])
        \cup MayFail("read", Failed(r))

-----------------------------------------------------------------------------
(* The edits.                                                              *)

\* What an edit shows after it is loaded.
Load(e, object) ==
    CASE e = "description" -> object.text["description"]
      [] e = "upn"         -> object.text["userPrincipalName"]
      [] e = "phone"       -> [main  |-> object.text["telephoneNumber"],
                               other |-> object.text["otherTelephone"]]
      [] e \in Flags       -> e \in object.flags
      [] e = "expired"     -> object.expired
      [] e = "cant_change" -> object.sd.cant_change
      [] e = "unlock"      -> FALSE
      [] e = "protect"     -> object.sd.protected
      [] e = "scope"       -> object.scope
      [] e = "type"        -> object.type
      [] e \in {"members", "member_of"} -> LoadMembership(object)
      [] e = "attributes"  -> LoadAttributes(object)
      [] e = "security"    -> object.sd

\* UpnEdit::verify(): no spaces at the ends, and nobody else's name as far as
\* a search tells.
Verify(e, shown) ==
    IF e # "upn" THEN {TRUE}
    ELSE {shown = Trim[shown] /\ shown \notin Taken}
             \cup (IF shown = Trim[shown] THEN MayFail("read", TRUE) ELSE {})

\* The outcomes of applying edit e, which shows "shown".
Apply(e, shown, r) ==
    CASE e = "description" -> ReplaceText(r, "description", Trim[shown])
      [] e = "upn"         -> ReplaceText(r, "userPrincipalName", Trim[shown])
      [] e = "phone"       ->
             Then(ReplaceText(r, "telephoneNumber", Trim[shown.main]),
                  LAMBDA s : ReplaceText(s, "otherTelephone", shown.other))
      [] e \in Flags       -> SetFlag(r, e, shown)
      [] e = "expired"     -> SetExpired(r, shown)
      [] e = "cant_change" -> SetCantChange(r, shown)
      [] e = "unlock"      -> IF shown THEN Unlock(r) ELSE {r}
      [] e = "protect"     -> SetProtected(r, shown)
      [] e = "scope"       -> SetScope(r, shown)
      [] e = "type"        -> SetType(r, shown)
      [] e = "members"     -> ApplyMembers(r, shown)
      [] e = "member_of"   -> ApplyMemberOf(r, shown)
      [] e = "attributes"  -> ApplyAttributes(r, shown)
      [] e = "security"    -> ApplySecurity(r, shown)

\* AttributeEdit::verify() and apply() of a list: nothing is written if an edit
\* does not verify; a failed edit does not keep the next from being applied.
VerifyAll(list, shown) ==
    {\A i \in DOMAIN list : verdicts[i] :
         verdicts \in {v \in [DOMAIN list -> BOOLEAN] :
                           \A i \in DOMAIN list : v[i] \in Verify(list[i], shown[list[i]])}}

\* The outcomes of the first n edits of a list, given those of fewer.
Applied(results, list, shown, r, n) ==
    IF n \notin 1..Len(list) THEN {r}
    ELSE Then(results[n - 1], LAMBDA s : Apply(list[n], shown[list[n]], s))

\* Fault: whether the last edit succeeded.
ApplyAllLast(list, shown, r) ==
    LET results[n \in Nat] ==
            IF n = 0 THEN {r}
            ELSE Then(results[n - 1],
                      LAMBDA s : Apply(list[n], shown[list[n]], [s EXCEPT !.ok = TRUE]))
    IN  results[Len(list)]

ApplyAll(list, shown, r) ==
    LET results[n \in Nat] == Applied(results, list, shown, r, n) IN results[Len(list)]

-----------------------------------------------------------------------------
(* What an object must be like when an edit has been applied.              *)

\* The group that was primary is left to the server, which makes it a normal
\* one: apply() keeps a user in it who was taken out of it.
Reflects(object, e, shown) ==
    CASE e \in {"description", "upn"} -> Load(e, object) = Trim[shown]
      [] e = "phone" ->
             Load(e, object) = [main |-> Trim[shown.main], other |-> shown.other]
      [] e = "unlock" -> shown => ~object.locked
      [] e \in {"members", "member_of"} ->
             /\ Added(shown) \ shown.original_primary_values
                    \subseteq object.groups \cup object.primary
             /\ Removed(shown) \cap object.groups
                    \subseteq shown.original_primary_values
             /\ shown.current_primary_values # shown.original_primary_values =>
                    object.primary = shown.current_primary_values
      [] e = "attributes" ->
             \A a \in ChangedAttributes(shown) : object.text[a] = shown.current[a]
      [] OTHER -> Load(e, object) = shown

\* The parts of an object an edit may write to.
Parts(e, shown) ==
    CASE e = "description" -> {"description"}
      [] e = "upn"         -> {"userPrincipalName"}
      [] e = "phone"       -> {"telephoneNumber", "otherTelephone"}
      [] e = "unlock"      -> {"locked"}
      [] e \in {"members", "member_of"} -> {"groups", "primary"}
      [] e = "attributes"  -> ChangedAttributes(shown)
      [] e = "security"    -> {"cant_change", "protect", "others"}
      [] OTHER             -> {e}

Part(object, p) ==
    CASE p \in TextAttributes -> object.text[p]
      [] p \in Flags          -> p \in object.flags
      [] p = "expired"        -> object.expired
      [] p = "locked"         -> object.locked
      [] p = "scope"          -> object.scope
      [] p = "type"           -> object.type
      [] p = "groups"         -> object.groups
      [] p = "primary"        -> object.primary
      [] p = "cant_change"    -> object.sd.cant_change
      [] p = "protect"        -> object.sd.protected
      [] p = "others"         -> object.sd.others

AllParts == TextAttributes \cup Flags \cup
    {"expired", "locked", "scope", "type", "groups", "primary",
     "cant_change", "protect", "others"}
=============================================================================
