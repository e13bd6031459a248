---------------------------- MODULE MCPolicyLinks ----------------------------
EXTENDS PolicyLinks, TLC

CONSTANTS A, B, dom, ou1, ou2

Link(g) == [gpo |-> g, option |-> {}]

\* Attributes without links, with one and with two.
MCStrings == {<< >>, <<Link(A)>>, <<Link(A), Link(B)>>}

OneLinkAtMost == {<< >>, <<Link(A)>>}

\* Every OU directly under the domain.
MCFlat == [ou \in OUs |-> IF ou = Domain THEN OUs \ {Domain} ELSE {}]

\* ou1 under the domain, and ou2, where there is one, under ou1.
MCBelow ==
    [ou \in OUs |-> CASE ou = Domain -> OUs \ {Domain}
                      [] ou = ou1    -> OUs \ {Domain, ou1}
                      [] OTHER       -> {}]
=============================================================================
