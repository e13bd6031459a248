--------------------------- MODULE MCSecurityTab ---------------------------
(* A user object with two attributes and two extended rights, one of which  *)
(* is the change of the password.  Lists: "Full control" of the user, with  *)
(* reading inherited, and "Read" and a denied right of everyone.            *)
EXTENDS SecurityTab

MCTypedRights ==
    [s \in Scopes |->
        IF s = ThisObject
        THEN << <<"read_prop", "p">>, <<"read_prop", "q">>,
                <<"control_access", "password">>, <<"control_access", "x">> >>
        ELSE << <<"read_prop", "p">> >>]

Untyped(allowed, denied) ==
    [None EXCEPT !["allow"][NoType] = allowed, !["deny"][NoType] = denied]

MCOwn(full, denied) ==
    [t \in Trustees |-> [s \in Scopes |->
        IF s # ThisObject THEN None
        ELSE IF t = full THEN Untyped(GenericAll, {})
        ELSE Untyped(GenericRead \cup {"list_object"}, denied)]]

MCInherited ==
    [t \in Trustees |-> IF t = Self THEN Untyped({"read_prop", "delete"}, {}) ELSE None]

MCClicked ==
    {GenericAll, GenericRead, GenericWrite, {"control_access"}, {"delete"}}

MCStart ==
    {[own |-> MCOwn(Self, {"delete"}), inherited |-> MCInherited],
     [own |-> MCOwn(Everyone, {"control_access"}), inherited |-> MCInherited]}
=============================================================================
