----------------------------- MODULE GplinkAttr -----------------------------
(***************************************************************************)
(* What an editor of a gPLink attribute promises: the attribute is an      *)
(* ordered list of links, each with its option bits, and each operation is *)
(* one edit of membership, order or one link's option, and only that.  The *)
(* dialog numbers the links from the end: the last part has order 1 and    *)
(* the highest precedence.                                                 *)
(***************************************************************************)
EXTENDS Naturals, SequencesExt

CONSTANTS GPOs, Options

VARIABLE attr       \* the parts [gpo, option] in the attribute's order

Linked == {attr[i].gpo : i \in DOMAIN attr}

\* The part an operation on g's place is about: the last one that names it.
PlaceOf(g) ==
    CHOOSE i \in DOMAIN attr :
        attr[i].gpo = g /\ \A j \in DOMAIN attr : attr[j].gpo = g => j <= i

\* One GPO may be named twice, with the same option, if it was so at first.
Init == attr \in Seq([gpo : GPOs, option : SUBSET Options])

\* A new link has no option and the lowest precedence: it comes first.
Link(g) ==
    IF g \in Linked THEN UNCHANGED attr
    ELSE attr' = <<[gpo |-> g, option |-> {}]>> \o attr

\* Every part naming g goes; the others keep their order and options.
Unlink(g) ==
    \E n \in 0..Len(attr) : \E kept \in [1..n -> {i \in DOMAIN attr : attr[i].gpo # g}] :
        /\ \A i, j \in 1..n : i < j => kept[i] < kept[j]
        /\ \A i \in DOMAIN attr : attr[i].gpo # g => \E j \in 1..n : kept[j] = i
        /\ attr' = [i \in 1..n |-> attr[kept[i]]]

Swap(i, j) == attr' = [attr EXCEPT ![i] = attr[j], ![j] = attr[i]]

\* g trades places with the link next above it in precedence.
Raise(g) ==
    IF g \in Linked /\ PlaceOf(g) < Len(attr) THEN Swap(PlaceOf(g), PlaceOf(g) + 1)
    ELSE UNCHANGED attr

\* g trades places with the link next below it in precedence.
Lower(g) ==
    IF g \in Linked /\ PlaceOf(g) > 1 THEN Swap(PlaceOf(g), PlaceOf(g) - 1)
    ELSE UNCHANGED attr

\* The link of order from gets order to; the others keep their order.
Reorder(from, to) ==
    IF {from, to} \subseteq DOMAIN attr
    THEN LET i == Len(attr) + 1 - from
             j == Len(attr) + 1 - to
         IN  attr' = InsertAt(RemoveAt(attr, i), j, attr[i])
    ELSE UNCHANGED attr

SetOption(g, o, value) ==
    attr' = [i \in DOMAIN attr |->
                IF attr[i].gpo # g THEN attr[i]
                ELSE [gpo    |-> g,
                      option |-> IF value THEN attr[i].option \cup {o}
                                 ELSE attr[i].option \ {o}]]

Next ==
    \/ \E g \in GPOs : Link(g) \/ Unlink(g) \/ Raise(g) \/ Lower(g)
    \/ \E from, to \in DOMAIN attr : Reorder(from, to)
    \/ \E g \in GPOs, o \in Options, value \in BOOLEAN : SetOption(g, o, value)

Spec == Init /\ [][Next]_attr
=============================================================================
