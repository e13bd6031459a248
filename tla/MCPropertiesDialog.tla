------------------------- MODULE MCPropertiesDialog -------------------------
(* A user and a group to edit, with two texts of which one is typed with a  *)
(* space and one is somebody's logon name.                                  *)
EXTENDS PropertiesDialog

MCTexts == {"", "a", "a ", "b"}
MCTrim == [t \in MCTexts |-> IF t = "a " THEN "a" ELSE t]

MCObject ==
    [text |-> [a \in TextAttributes |-> ""], flags |-> {"delegation"},
     expired |-> FALSE, locked |-> TRUE, scope |-> "Global", type |-> "Security",
     groups |-> {"B"}, primary |-> {"A"},
     sd |-> [protected |-> FALSE, cant_change |-> FALSE, others |-> {"t"},
             ordered |-> FALSE]]

\* Of the edits that write alike, one: the description of a group, the other
\* telephone number, the option "password doesn't expire".
MCTouched ==
    [user  |-> Edits \ {"description", "delegation"},
     group |-> {"description", "scope", "type", "members"}]

MCStart == [class : {"user", "group"}, object : {MCObject}]
=============================================================================
