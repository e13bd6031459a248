----------------------------- MODULE GplinkEdit -----------------------------
(***************************************************************************)
(* One Gplink object, built from any attribute value and edited by any     *)
(* sequence of its methods (src/src/adldap/gplink.cpp).                    *)
(***************************************************************************)
EXTENDS Gplink

CONSTANT MaxParts       \* bound on the parts of the attribute it starts from

ASSUME MaxPartsAssumption == MaxParts \in Nat

VARIABLE link

\* Attributes may name a GPO twice: the parser does not look for that.
Init == \E str \in BoundedSeq(Part, MaxParts) : link = Parse(str)

AddGpo(g) == link' = add(link, g)
RemoveGpo(g) == link' = remove(link, g)
MoveGpoUp(g) == link' = move_up(link, g)
MoveGpoDown(g) == link' = move_down(link, g)
MoveGpo(from, to) == link' = move(link, from, to)
SetGpoOption(g, o, value) == link' = set_option(link, g, o, value)

\* The orders move() is called with; the first and the last are out of range.
Orders == 0..(Len(link.gpo_list) + 1)

Next ==
    \/ \E g \in GPOs :
        AddGpo(g) \/ RemoveGpo(g) \/ MoveGpoUp(g) \/ MoveGpoDown(g)
    \/ \E from, to \in Orders : MoveGpo(from, to)
    \/ \E g \in GPOs, o \in GplinkOption, value \in BOOLEAN :
        SetGpoOption(g, o, value)

Spec == Init /\ [][Next]_link

-----------------------------------------------------------------------------
\* The class keeps what it knows twice, in gpo_list and in options: contains()
\* asks the hash and to_string() walks the list, so both must name the same
\* GPOs after any sequence of edits.
ListMatchesOptions == Range(link.gpo_list) = DOMAIN link.options

\* Writing the object and reading it back yields the same object: order,
\* duplicates and options survive the round trip through the attribute.
RoundTrip == Parse(to_string(link)) = link

Attr == INSTANCE GplinkAttr WITH attr <- to_string(link), Options <- GplinkOption

\* What each method does to the attribute that to_string() prints is the edit
\* its name says, of the GPO it is called for: add() puts a link without
\* options first, remove() takes out just that GPO's parts, move_up() and
\* move_down() trade places with the link above and below, move() changes one
\* link's order, set_option() changes one option.  On a GPO that is not
\* linked, at the end of the list and for orders out of range nothing changes.
\* The list runs against the attribute, so every one of them is mirrored.
EditsAttribute ==
    [][/\ \A g \in GPOs :
            /\ AddGpo(g)      => Attr!Link(g)
            /\ RemoveGpo(g)   => Attr!Unlink(g)
            /\ MoveGpoUp(g)   => Attr!Raise(g)
            /\ MoveGpoDown(g) => Attr!Lower(g)
       /\ \A from, to \in Orders : MoveGpo(from, to) => Attr!Reorder(from, to)
       /\ \A g \in GPOs, o \in GplinkOption, value \in BOOLEAN :
            SetGpoOption(g, o, value) => Attr!SetOption(g, o, value)]_link
=============================================================================
