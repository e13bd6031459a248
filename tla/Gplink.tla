------------------------------- MODULE Gplink -------------------------------
(***************************************************************************)
(* Gplink (src/src/adldap/gplink.cpp): an editable copy of an OU's gPLink  *)
(* attribute.  The attribute is a list of parts "[LDAP://<gpo>;<option>]"; *)
(* the class keeps the GPOs in the order the user sees, which is the       *)
(* reverse of the attribute's order, and a hash from GPO to option bits.   *)
(*                                                                         *)
(* A GPO is an opaque value: the letter case of its DN, which to_string()  *)
(* and get_gpo_list() restore, is abstracted.  Text of the attribute that  *)
(* is not a part is skipped by the parser and is not represented.          *)
(***************************************************************************)
EXTENDS Naturals, SequencesExt

CONSTANT GPOs

\* The two bits of a link's option; no bit set is GplinkOption_NoOption.
GplinkOption == {"Disabled", "Enforced"}

\* One "[LDAP://gpo;option]" of the attribute.
Part == [gpo : GPOs, option : SUBSET GplinkOption]

-----------------------------------------------------------------------------
(* Parsing and printing.                                                   *)

Named(str) == {str[i].gpo : i \in DOMAIN str}

\* The last part naming g is the one whose option stays in the hash.
LastPart(str, g) ==
    str[CHOOSE i \in DOMAIN str :
            str[i].gpo = g /\ \A j \in DOMAIN str : str[j].gpo = g => j <= i]

\* Fault: parts are appended.
ParseInOrder(str) ==
    [gpo_list |-> [i \in 1..Len(str) |-> str[i].gpo],
     options  |-> [g \in Named(str) |-> LastPart(str, g).option]]

\* Gplink(const QString &): every part is prepended to gpo_list.
Parse(str) ==
    [gpo_list |-> [i \in 1..Len(str) |-> str[Len(str) + 1 - i].gpo],
     options  |-> [g \in Named(str) |-> LastPart(str, g).option]]

\* QHash::operator[]: the default value, no bits, for an absent key.
OptionBits(link, g) ==
    IF g \in DOMAIN link.options THEN link.options[g] ELSE {}

to_string(link) ==
    [i \in 1..Len(link.gpo_list) |->
        LET g == link.gpo_list[Len(link.gpo_list) + 1 - i]
        IN  [gpo |-> g, option |-> OptionBits(link, g)]]

-----------------------------------------------------------------------------
(* Queries.                                                                *)

contains(link, g) == g \in DOMAIN link.options

\* indexOf() + 1: the order shown to the user, 0 for a GPO not in the list.
get_gpo_order(link, g) ==
    LET at == {i \in DOMAIN link.gpo_list : link.gpo_list[i] = g}
    IN  IF at = {} THEN 0 ELSE CHOOSE i \in at : \A j \in at : i <= j

get_option(link, g, o) == contains(link, g) /\ o \in OptionBits(link, g)

equals(link, other) == to_string(link) = to_string(other)

-----------------------------------------------------------------------------
(* Edits.                                                                  *)

add(link, g) ==
    IF contains(link, g) THEN link
    ELSE [gpo_list |-> Append(link.gpo_list, g),
          options  |-> [h \in DOMAIN link.options \cup {g} |->
                            IF h = g THEN {} ELSE link.options[h]]]

\* QList::removeAll.  A value listed once, as in every list without
\* duplicates, leaves at its position.
RemoveAll(list, g) ==
    IF \E i \in DOMAIN list : \A j \in DOMAIN list : list[j] = g <=> j = i
    THEN RemoveAt(list, CHOOSE i \in DOMAIN list : list[i] = g)
    ELSE SelectSeq(list, LAMBDA h : h # g)

\* Fault: the option of a removed link stays in the hash.
RemoveFromList(link, g) ==
    IF ~contains(link, g) THEN link
    ELSE [link EXCEPT !.gpo_list = RemoveAll(@, g)]

remove(link, g) ==
    IF ~contains(link, g) THEN link
    ELSE [gpo_list |-> RemoveAll(link.gpo_list, g),
          options  |-> [h \in DOMAIN link.options \ {g} |-> link.options[h]]]

\* QList::move: the item leaves position from and ends up at position to.
MoveItem(list, from, to) ==
    [i \in 1..Len(list) |->
        CASE i = to                  -> list[from]
          [] i \in from .. (to - 1)  -> list[i + 1]
          [] i \in (to + 1) .. from  -> list[i - 1]
          [] OTHER                   -> list[i]]

\* move(from_order, to_order); orders out of range change nothing.
move(link, from, to) ==
    IF {from, to} \subseteq 1..Len(link.gpo_list)
    THEN [link EXCEPT !.gpo_list = MoveItem(@, from, to)]
    ELSE link

\* Fault: towards the end of the list.
MoveUpDown(link, g) ==
    LET at == get_gpo_order(link, g)
    IN  IF contains(link, g) /\ at < Len(link.gpo_list)
        THEN move(link, at, at + 1) ELSE link

move_up(link, g) ==
    LET at == get_gpo_order(link, g)
    IN  IF contains(link, g) /\ at > 1 THEN move(link, at, at - 1) ELSE link

move_down(link, g) ==
    LET at == get_gpo_order(link, g)
    IN  IF contains(link, g) /\ at < Len(link.gpo_list)
        THEN move(link, at, at + 1) ELSE link

set_option(link, g, o, value) ==
    IF ~contains(link, g) THEN link
    ELSE [link EXCEPT !.options[g] = IF value THEN @ \cup {o} ELSE @ \ {o}]

-----------------------------------------------------------------------------
(* The values the rest of the project edits: each GPO linked at most once, *)
(* and the hash and the list name the same GPOs.                           *)

NoDuplicates(str) ==
    \A i, j \in DOMAIN str : str[i].gpo = str[j].gpo => i = j

GplinkString == {str \in Seq(Part) : NoDuplicates(str)}

WellFormed(link) ==
    /\ link = [gpo_list |-> link.gpo_list, options |-> link.options]
    /\ link.gpo_list \in Seq(GPOs)
    /\ \A i, j \in DOMAIN link.gpo_list :
            link.gpo_list[i] = link.gpo_list[j] => i = j
    /\ link.options \in [Range(link.gpo_list) -> SUBSET GplinkOption]
=============================================================================
