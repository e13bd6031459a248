------------------------- MODULE SecurityTab_proofs -------------------------
(***************************************************************************)
(* A click in the security tab does what it shows, for every list of       *)
(* entries, every class with its typed rights, every trustee and scope.    *)
(*                                                                         *)
(* The argument is about the entries of the selected trustee and scope.    *)
(* Unset() leaves a common right incomplete although "Read" and "Write"    *)
(* share a bit (UnsetIncomplete); Split() leaves no untyped entry that     *)
(* says something about a typed right (SplitTyped); and showing the common *)
(* page only adds untyped bits that were neither allowed nor denied        *)
(* (UpdateGrows).                                                          *)
(***************************************************************************)
EXTENDS SecurityTab, TLAPS

AnyRight == [mask : SUBSET Bits, object_type : AnyType]

\* The rights of a page and those above them are rights, and sets of bits.
LEMMA RightType ==
    ASSUME NEW s \in Scopes
    PROVE  /\ RightList(s) \subseteq AnyRight
           /\ \A m \in CommonMasks : Right(m, NoType) \in RightList(s)
           /\ \A r \in RightList(s) :
                \/ r.object_type = NoType /\ r.mask \in CommonMasks
                \/ r.object_type \in Types /\ \E b \in TypedBits : r.mask = {b}
<1>1. CommonMasks \subseteq SUBSET Bits
  BY DEF CommonMasks, GenericAll, GenericRead, GenericWrite, Bits
<1>2. \A i \in DOMAIN TypedRights[s] : TypedRights[s][i] \in TypedBits \X Types
  BY SecurityDescriptorsAssumption
<1>3. \A r \in TypedRightList(s) :
        r \in AnyRight /\ r.object_type \in Types /\ \E b \in TypedBits : r.mask = {b}
  BY <1>2, TypedBits \subseteq Bits DEF TypedRightList, Right, AnyRight, AnyType, TypedBits, Bits
<1>4. \A r \in CommonRights :
        r \in AnyRight /\ r.object_type = NoType /\ r.mask \in CommonMasks
  BY <1>1 DEF CommonRights, Right, AnyRight, AnyType
<1>5. \A m \in CommonMasks : Right(m, NoType) \in CommonRights
  BY DEF CommonRights
<1> QED
  BY <1>3, <1>4, <1>5 DEF RightList

\* The bits below a right.
LEMMA SubordinatesType ==
    ASSUME NEW s \in Scopes, NEW r \in RightList(s)
    PROVE  Subordinates(s, r) \in [AnyType -> SUBSET Bits]
<1>1. CASE r.object_type = NoType
  <2>1. r.mask \in CommonMasks
    BY <1>1, RightType, SecurityDescriptorsAssumption
  <2>2. \A type \in AnyType :
          UNION {x.mask : x \in {x \in RightList(s) : x.object_type = type /\ Holds(r.mask, x)}}
            \in SUBSET Bits
    BY RightType DEF AnyRight
  <2>3. Below[s][r.mask] = [type \in AnyType |->
          UNION {x.mask : x \in {x \in RightList(s) : x.object_type = type /\ Holds(r.mask, x)}}]
    BY <2>1 DEF Below
  <2> QED
    BY <1>1, <2>2, <2>3 DEF Subordinates
<1>2. CASE r.object_type # NoType
  BY <1>2 DEF Subordinates
<1> QED
  BY <1>1, <1>2

\* A typed bit has no untyped right below it.
LEMMA NothingUntypedBelow ==
    ASSUME NEW s \in Scopes, NEW b \in TypedBits
    PROVE  Subordinates(s, Right({b}, NoType))[NoType] = {}
<1>1. {b} \in CommonMasks
  BY DEF CommonMasks, TypedBits, Bits
<1>2. {b} # GenericAll /\ {b} # GenericRead /\ {b} # GenericWrite
  BY DEF GenericAll, GenericRead, GenericWrite, Bits, TypedBits
<1>3. \A x \in RightList(s) : ~(x.object_type = NoType /\ Holds({b}, x))
  BY <1>2 DEF Holds
<1>4. Below[s][{b}][NoType] =
        UNION {x.mask : x \in {x \in RightList(s) : x.object_type = NoType /\ Holds({b}, x)}}
  BY <1>1 DEF Below, AnyType
<1>5. {x \in RightList(s) : x.object_type = NoType /\ Holds({b}, x)} = {}
  BY <1>3
<1> QED
  BY <1>4, <1>5 DEF Subordinates, Right

-----------------------------------------------------------------------------
(* The base operations.                                                    *)

\* What the base operations leave, entry by entry.
LEMMA SetAt ==
    ASSUME NEW e \in Entries, NEW r \in AnyRight, NEW allow \in Columns
    PROVE  /\ Set(e, r, allow) \in Entries
           /\ Set(e, r, allow)[allow][r.object_type] = e[allow][r.object_type] \cup r.mask
           /\ \A type \in AnyType \ {r.object_type} :
                Set(e, r, allow)[allow][type] = e[allow][type]
           /\ \A a \in Columns \ {allow} : Set(e, r, allow)[a] = e[a]
BY DEF Set, Entries, AnyRight

\* The same for unsetting, ...
LEMMA UnsetAt ==
    ASSUME NEW e \in Entries, NEW r \in AnyRight, NEW allow \in Columns
    PROVE  /\ Unset(e, r, allow) \in Entries
           /\ Unset(e, r, allow)[allow][r.object_type] =
                 LET mask == e[allow][r.object_type]
                 IN  IF r.mask \subseteq mask THEN mask \ MaskToUnset(mask, r.mask) ELSE mask
           /\ \A type \in AnyType \ {r.object_type} :
                Unset(e, r, allow)[allow][type] = e[allow][type]
           /\ \A a \in Columns \ {allow} : Unset(e, r, allow)[a] = e[a]
BY DEF Unset, Entries, AnyRight

\* ... for setting the subordinate rights ...
LEMMA SetSubordinatesAt ==
    ASSUME NEW e \in Entries, NEW s \in Scopes, NEW r \in RightList(s), NEW allow \in Columns
    PROVE  /\ SetSubordinates(e, s, r, allow) \in Entries
           /\ \A type \in AnyType :
                SetSubordinates(e, s, r, allow)[allow][type] = e[allow][type] \cup Subordinates(s, r)[type]
           /\ \A a \in Columns \ {allow} : SetSubordinates(e, s, r, allow)[a] = e[a]
<1> DEFINE S == Subordinates(s, r)
<1>1. S \in [AnyType -> SUBSET Bits]
  BY SubordinatesType
<1>2. SetSubordinates(e, s, r, allow) =
        [e EXCEPT ![allow] = [type \in AnyType |-> @[type] \cup S[type]]]
  BY DEF SetSubordinates
<1> HIDE DEF S
<1>3. [type \in AnyType |-> e[allow][type] \cup S[type]] \in [AnyType -> SUBSET Bits]
  BY <1>1 DEF Entries
<1> QED
  BY <1>2, <1>3 DEF Entries, S

\* ... and for unsetting them.
LEMMA UnsetSubordinatesAt ==
    ASSUME NEW e \in Entries, NEW s \in Scopes, NEW r \in RightList(s), NEW allow \in Columns
    PROVE  /\ UnsetSubordinates(e, s, r, allow) \in Entries
           /\ \A type \in AnyType :
                UnsetSubordinates(e, s, r, allow)[allow][type] = e[allow][type] \ Subordinates(s, r)[type]
           /\ \A a \in Columns \ {allow} : UnsetSubordinates(e, s, r, allow)[a] = e[a]
<1> DEFINE S == Subordinates(s, r)
<1>1. UnsetSubordinates(e, s, r, allow) =
        [e EXCEPT ![allow] = [type \in AnyType |-> @[type] \ S[type]]]
  BY DEF UnsetSubordinates
<1> HIDE DEF S
<1>2. [type \in AnyType |-> e[allow][type] \ S[type]] \in [AnyType -> SUBSET Bits]
  BY DEF Entries
<1> QED
  BY <1>1, <1>2 DEF Entries, S

\* Unsetting a right leaves its mask incomplete, although "Read" may leave the
\* bit it shares with "Write", and the other way round.
LEMMA UnsetIncomplete ==
    ASSUME NEW e \in Entries, NEW r \in AnyRight, NEW allow \in Columns,
           r.mask \in CommonMasks
    PROVE  ~(r.mask \subseteq Unset(e, r, allow)[allow][r.object_type])
<1> DEFINE mask == e[allow][r.object_type]
<1>0. Unset(e, r, allow)[allow][r.object_type] =
        IF r.mask \subseteq mask THEN mask \ MaskToUnset(mask, r.mask) ELSE mask
  BY UnsetAt
<1> HIDE DEF mask
<1>1. CASE r.mask \subseteq mask
  <2>1. Unset(e, r, allow)[allow][r.object_type] = mask \ MaskToUnset(mask, r.mask)
    BY <1>0, <1>1
  <2>2. r.mask \ {"read_control"} \subseteq MaskToUnset(mask, r.mask)
    BY DEF MaskToUnset
  <2>3. CASE r.mask \in {GenericRead, GenericWrite}
    <3>1. "read_prop" \in GenericRead /\ "write_prop" \in GenericWrite
      BY DEF GenericRead, GenericWrite
    <3> QED
      BY <2>1, <2>2, <2>3, <3>1
  <2>4. CASE r.mask \notin {GenericRead, GenericWrite}
    <3>1. MaskToUnset(mask, r.mask) = r.mask
      BY <2>4 DEF MaskToUnset
    <3>2. r.mask # {}
      BY DEF CommonMasks, GenericAll, GenericRead, GenericWrite, Bits
    <3> QED
      BY <2>1, <3>1, <3>2
  <2> QED
    BY <2>3, <2>4
<1>2. CASE ~(r.mask \subseteq mask)
  BY <1>0, <1>2
<1> QED
  BY <1>1, <1>2

-----------------------------------------------------------------------------
(* Superior rights.                                                        *)

\* The inner definition of Split().
SplitAt(e, s, r, allow, mask) ==
    IF mask \in SuperiorMasks(r) /\ IsSet(e, Right(mask, NoType), allow)
    THEN SetSubordinates(Unset(e, Right(mask, NoType), allow), s, Right(mask, NoType), allow)
    ELSE e

\* Split() is four of its steps, each of which keeps the type of the entries.
LEMMA SplitUnfolded ==
    ASSUME NEW e, NEW s, NEW r, NEW allow
    PROVE  Split(e, s, r, allow) =
             SplitAt(SplitAt(SplitAt(SplitAt(e, s, r, allow, GenericAll),
                                     s, r, allow, GenericRead),
                             s, r, allow, GenericWrite),
                     s, r, allow, r.mask)
BY DEF Split, SplitAt

\* One step.
LEMMA SplitAtType ==
    ASSUME NEW e \in Entries, NEW s \in Scopes, NEW r \in RightList(s),
           NEW allow \in Columns, NEW mask
    PROVE  SplitAt(e, s, r, allow, mask) \in Entries
<1>1. CASE mask \in SuperiorMasks(r)
  <2>1. mask \in CommonMasks
    BY <1>1, RightType DEF SuperiorMasks, CommonMasks, TypedBits, Bits
  <2>2. Right(mask, NoType) \in RightList(s) /\ Right(mask, NoType) \in AnyRight
    BY <2>1, RightType
  <2> QED
    BY <2>2, UnsetAt, SetSubordinatesAt DEF SplitAt
<1>2. CASE mask \notin SuperiorMasks(r)
  BY <1>2 DEF SplitAt
<1> QED
  BY <1>1, <1>2

\* All four.
LEMMA SplitType ==
    ASSUME NEW e \in Entries, NEW s \in Scopes, NEW r \in RightList(s), NEW allow \in Columns
    PROVE  Split(e, s, r, allow) \in Entries
BY SplitUnfolded, SplitAtType

\* After the superior rights of a typed right are split, no untyped entry has
\* its bit.
LEMMA SplitTyped ==
    ASSUME NEW e \in Entries, NEW s \in Scopes, NEW r \in RightList(s),
           NEW allow \in Columns, r.object_type # NoType
    PROVE  ~(r.mask \subseteq Split(e, s, r, allow)[allow][NoType])
<1>1. PICK d \in Entries : Split(e, s, r, allow) = SplitAt(d, s, r, allow, r.mask)
  BY SplitUnfolded, SplitAtType
<1>2. PICK b \in TypedBits : r.mask = {b}
  BY RightType
<1> DEFINE superior == Right({b}, NoType)
<1>3. {b} \in CommonMasks
  BY DEF CommonMasks, TypedBits, Bits
<1>4. superior \in RightList(s) /\ superior \in AnyRight
  BY <1>3, RightType
<1>5. superior.mask = {b} /\ superior.object_type = NoType
  BY DEF Right
<1>6. r.mask \in SuperiorMasks(r)
  BY <1>2 DEF SuperiorMasks, Holds
<1>7. CASE IsSet(d, superior, allow)
  <2>1. ~({b} \subseteq Unset(d, superior, allow)[allow][NoType])
    BY <1>3, <1>4, <1>5, UnsetIncomplete
  <2>2. Unset(d, superior, allow) \in Entries
    BY <1>4, UnsetAt
  <2>3. SetSubordinates(Unset(d, superior, allow), s, superior, allow)[allow][NoType] =
          Unset(d, superior, allow)[allow][NoType]
    <3> DEFINE u == Unset(d, superior, allow)
    <3>1. Subordinates(s, superior)[NoType] = {}
      BY NothingUntypedBelow
    <3>2. NoType \in AnyType
      BY DEF AnyType
    <3>3. \A type \in AnyType :
            SetSubordinates(u, s, superior, allow)[allow][type] =
              u[allow][type] \cup Subordinates(s, superior)[type]
      BY <2>2, <1>4, SetSubordinatesAt
    <3> HIDE DEF u, superior
    <3>4. SetSubordinates(u, s, superior, allow)[allow][NoType] = u[allow][NoType]
      BY <3>1, <3>2, <3>3
    <3> QED
      BY <3>4 DEF u
  <2>4. SplitAt(d, s, r, allow, r.mask) =
          SetSubordinates(Unset(d, superior, allow), s, superior, allow)
    BY <1>2, <1>6, <1>7 DEF SplitAt
  <2> QED
    BY <1>1, <1>2, <2>1, <2>3, <2>4
<1>8. CASE ~IsSet(d, superior, allow)
  <2>1. SplitAt(d, s, r, allow, r.mask) = d
    BY <1>2, <1>8 DEF SplitAt
  <2>2. ~({b} \subseteq d[allow][NoType])
    BY <1>8, <1>5 DEF IsSet
  <2> QED
    BY <1>1, <1>2, <2>1, <2>2
<1> QED
  BY <1>7, <1>8

-----------------------------------------------------------------------------
(* The complete operations.                                                *)

\* A right is not set once it is unset below no untyped entry that has its bit,
\* nor after its subordinates are.
LEMMA UnsetNotSet ==
    ASSUME NEW e \in Entries, NEW s \in Scopes, NEW r \in RightList(s), NEW allow \in Columns,
           r.object_type # NoType => ~(r.mask \subseteq e[allow][NoType])
    PROVE  /\ UnsetSubordinates(Unset(e, r, allow), s, r, allow) \in Entries
           /\ ~IsSet(UnsetSubordinates(Unset(e, r, allow), s, r, allow), r, allow)
<1> DEFINE u == Unset(e, r, allow)
           v == UnsetSubordinates(u, s, r, allow)
<1>1. r \in AnyRight /\ r.mask \in CommonMasks
  BY RightType DEF CommonMasks, TypedBits, Bits
<1>2. u \in Entries /\ ~(r.mask \subseteq u[allow][r.object_type])
  BY <1>1, UnsetAt, UnsetIncomplete
<1>3. r.object_type # NoType => ~(r.mask \subseteq u[allow][NoType])
  <2>1. NoType \in AnyType
    BY DEF AnyType
  <2>2. \A type \in AnyType \ {r.object_type} : u[allow][type] = e[allow][type]
    BY <1>1, UnsetAt
  <2> HIDE DEF u
  <2> QED
    BY <2>1, <2>2
<1>4. \A type \in AnyType : v[allow][type] \subseteq u[allow][type]
  <2>1. \A type \in AnyType : v[allow][type] = u[allow][type] \ Subordinates(s, r)[type]
    BY <1>2, UnsetSubordinatesAt
  <2> HIDE DEF v, u
  <2> QED
    BY <2>1
<1>5. v \in Entries
  BY <1>2, UnsetSubordinatesAt
<1>6. r.object_type \in AnyType /\ NoType \in AnyType
  BY <1>1 DEF AnyRight, AnyType
<1>7. ~IsSet(v, r, allow)
  <2> HIDE DEF v, u
  <2> QED
    BY <1>2, <1>3, <1>4, <1>6 DEF IsSet
<1> QED
  BY <1>5, <1>7

\* Removing a right leaves it unset.
LEMMA RemoveRightNotSet ==
    ASSUME NEW e \in Entries, NEW s \in Scopes, NEW r \in RightList(s), NEW allow \in Columns
    PROVE  RemoveRight(e, s, r, allow) \in Entries /\ ~IsSet(RemoveRight(e, s, r, allow), r, allow)
<1> DEFINE d == Split(e, s, r, allow)
<1>1. d \in Entries /\ (r.object_type # NoType => ~(r.mask \subseteq d[allow][NoType]))
  BY SplitType, SplitTyped
<1>2. RemoveRight(e, s, r, allow) = UnsetSubordinates(Unset(d, r, allow), s, r, allow)
  BY DEF RemoveRight
<1> HIDE DEF d
<1> QED
  BY <1>1, <1>2, UnsetNotSet

\* The other of the two columns.
LEMMA OppositeColumn ==
    ASSUME NEW allow \in Columns
    PROVE  Opposite(allow) \in Columns \ {allow} /\ Opposite(Opposite(allow)) = allow
BY DEF Opposite, Columns

\* Setting a right sets it and leaves its opposite unset.
LEMMA AddRightSet ==
    ASSUME NEW e \in Entries, NEW s \in Scopes, NEW r \in RightList(s), NEW allow \in Columns
    PROVE  /\ AddRight(e, s, r, allow) \in Entries
           /\ IsSet(AddRight(e, s, r, allow), r, allow)
           /\ ~IsSet(AddRight(e, s, r, allow), r, Opposite(allow))
<1> DEFINE d == Split(e, s, r, Opposite(allow))
           removed == UnsetSubordinates(d, s, r, allow)
           opposite == UnsetSubordinates(Unset(removed, r, Opposite(allow)), s, r, Opposite(allow))
           added == Set(opposite, r, allow)
<1>1. r \in AnyRight /\ r.object_type \in AnyType /\ NoType \in AnyType
  BY RightType DEF AnyRight, AnyType
<1>2. d \in Entries /\ (r.object_type # NoType => ~(r.mask \subseteq d[Opposite(allow)][NoType]))
  BY SplitType, SplitTyped, OppositeColumn
<1>3. /\ removed \in Entries
      /\ r.object_type # NoType => ~(r.mask \subseteq removed[Opposite(allow)][NoType])
  <2>1. removed \in Entries /\ \A a \in Columns \ {allow} : removed[a] = d[a]
    BY <1>2, UnsetSubordinatesAt
  <2> HIDE DEF removed, d
  <2>2. removed[Opposite(allow)] = d[Opposite(allow)]
    BY <2>1, OppositeColumn
  <2> QED
    BY <1>2, <2>1, <2>2
<1>4. opposite \in Entries /\ ~IsSet(opposite, r, Opposite(allow))
  <2> HIDE DEF removed
  <2> QED
    BY <1>3, OppositeColumn, UnsetNotSet
<1>5. /\ added \in Entries
      /\ added[allow][r.object_type] = opposite[allow][r.object_type] \cup r.mask
      /\ \A a \in Columns \ {allow} : added[a] = opposite[a]
  <2> HIDE DEF opposite
  <2> QED
    BY <1>1, <1>4, SetAt
<1>6. AddRight(e, s, r, allow) = added
  BY DEF AddRight
<1>7. IsSet(added, r, allow)
  <2> HIDE DEF added, opposite
  <2> QED
    BY <1>1, <1>5 DEF IsSet
<1>8. ~IsSet(added, r, Opposite(allow))
  <2> HIDE DEF added, opposite
  <2>1. added[Opposite(allow)] = opposite[Opposite(allow)]
    BY <1>5, OppositeColumn
  <2> QED
    BY <1>1, <1>4, <2>1 DEF IsSet
<1> HIDE DEF added
<1> QED
  BY <1>5, <1>6, <1>7, <1>8

-----------------------------------------------------------------------------
(* Showing the common page.                                                *)

\* Some untyped bits that were neither allowed nor denied are added.
Grows(e, f) ==
    \A a \in Columns :
        /\ e[a][NoType] \subseteq f[a][NoType]
        /\ f[a][NoType] \ e[a][NoType]
              \subseteq TypedBits \ (e["allow"][NoType] \cup e["deny"][NoType])

LEMMA GrowsTransitive ==
    ASSUME NEW e, NEW f, NEW g, Grows(e, f), Grows(f, g)
    PROVE  Grows(e, g)
<1>1. /\ e["allow"][NoType] \subseteq f["allow"][NoType]
      /\ e["deny"][NoType] \subseteq f["deny"][NoType]
  BY DEF Grows, Columns
<1> QED
  BY <1>1 DEF Grows

\* Unsetting what is below an untyped right of one bit, or the right itself if
\* it is not set, leaves the untyped entries.
LEMMA UnsetBelowBit ==
    ASSUME NEW e \in Entries, NEW s \in Scopes, NEW b \in TypedBits, NEW c \in Columns
    PROVE  /\ UnsetSubordinates(e, s, Right({b}, NoType), c) \in Entries
           /\ \A a \in Columns :
                UnsetSubordinates(e, s, Right({b}, NoType), c)[a][NoType] = e[a][NoType]
<1> DEFINE r == Right({b}, NoType)
           u == UnsetSubordinates(e, s, r, c)
<1>1. r \in RightList(s)
  BY RightType DEF CommonMasks, TypedBits, Bits
<1>2. Subordinates(s, r)[NoType] = {} /\ NoType \in AnyType
  BY NothingUntypedBelow DEF AnyType
<1> HIDE DEF r
<1>3. u \in Entries
  BY <1>1, UnsetSubordinatesAt
<1>4. u[c][NoType] = e[c][NoType] \ Subordinates(s, r)[NoType]
  <2>1. \A type \in AnyType : u[c][type] = e[c][type] \ Subordinates(s, r)[type]
    BY <1>1, UnsetSubordinatesAt
  <2> HIDE DEF u
  <2> QED
    BY <1>2, <2>1
<1>5. \A a \in Columns \ {c} : u[a] = e[a]
  BY <1>1, UnsetSubordinatesAt
<1> HIDE DEF u
<1>6. u[c][NoType] = e[c][NoType]
  BY <1>2, <1>4
<1>7. \A a \in Columns : u[a][NoType] = e[a][NoType]
  BY <1>5, <1>6
<1> QED
  BY <1>3, <1>7 DEF r, u

LEMMA UnsetNoBit ==
    ASSUME NEW e \in Entries, NEW b \in TypedBits, NEW c \in Columns, b \notin e[c][NoType]
    PROVE  Unset(e, Right({b}, NoType), c) = e
<1> DEFINE r == Right({b}, NoType)
<1>1. r.mask = {b} /\ r.object_type = NoType /\ NoType \in AnyType
  BY DEF Right, AnyType
<1> HIDE DEF r
<1>2. ~(r.mask \subseteq e[c][r.object_type])
  BY <1>1
<1>3. Unset(e, r, c) = [e EXCEPT ![c][r.object_type] = e[c][r.object_type]]
  BY <1>2 DEF Unset
<1>4. [e EXCEPT ![c][r.object_type] = e[c][r.object_type]] = e
  BY <1>1 DEF Entries
<1> QED
  BY <1>3, <1>4 DEF r

\* Adding an untyped right of one bit that was neither allowed nor denied
\* changes that bit only.
LEMMA AddUntypedBit ==
    ASSUME NEW e \in Entries, NEW s \in Scopes, NEW b \in TypedBits, NEW v \in Columns,
           b \notin e["allow"][NoType] \cup e["deny"][NoType]
    PROVE  Grows(e, AddRight(e, s, Right({b}, NoType), v))
<1> DEFINE r == Right({b}, NoType)
           w == Opposite(v)
           removed == UnsetSubordinates(e, s, r, v)
           opposite == UnsetSubordinates(removed, s, r, w)
           added == Set(opposite, r, v)
<1>1. Split(e, s, r, w) = e
  <2>1. r.mask = {b} /\ r.object_type = NoType /\ {b} # GenericRead /\ {b} # GenericWrite
    BY DEF Right, GenericRead, GenericWrite, TypedBits
  <2>2. SuperiorMasks(r) = {}
    BY <2>1 DEF SuperiorMasks
  <2> HIDE DEF r, w
  <2> QED
    BY <2>2, SplitUnfolded DEF SplitAt
<1>2. \A a \in Columns : b \notin e[a][NoType]
  BY DEF Columns
<1>3. w \in Columns
  BY OppositeColumn
<1>4. removed \in Entries /\ \A a \in Columns : removed[a][NoType] = e[a][NoType]
  BY UnsetBelowBit
<1>5. Unset(removed, r, w) = removed
  <2> HIDE DEF removed, w
  <2> QED
    BY <1>2, <1>3, <1>4, UnsetNoBit
<1>6. opposite \in Entries /\ \A a \in Columns : opposite[a][NoType] = e[a][NoType]
  <2>1. opposite \in Entries /\ \A a \in Columns : opposite[a][NoType] = removed[a][NoType]
    <3> HIDE DEF removed, w
    <3> QED
      BY <1>3, <1>4, UnsetBelowBit
  <2> HIDE DEF opposite, removed
  <2> QED
    BY <1>4, <2>1
<1>7. /\ added[v][NoType] = opposite[v][NoType] \cup {b}
      /\ \A a \in Columns \ {v} : added[a] = opposite[a]
  <2>1. r \in AnyRight /\ r.mask = {b} /\ r.object_type = NoType
    BY DEF Right, AnyRight, AnyType, TypedBits, Bits
  <2> HIDE DEF opposite, r
  <2>2. Set(opposite, r, v)[v][r.object_type] = opposite[v][r.object_type] \cup r.mask
    BY <1>6, <2>1, SetAt
  <2>3. \A a \in Columns \ {v} : Set(opposite, r, v)[a] = opposite[a]
    BY <1>6, <2>1, SetAt
  <2> QED
    BY <2>1, <2>2, <2>3
<1>8. AddRight(e, s, r, v) = added
  BY <1>1, <1>5 DEF AddRight
<1> HIDE DEF added, opposite
<1>9. \A a \in Columns : /\ e[a][NoType] \subseteq added[a][NoType]
                         /\ added[a][NoType] \ e[a][NoType] \subseteq {b}
  BY <1>6, <1>7
<1>10. b \in TypedBits \ (e["allow"][NoType] \cup e["deny"][NoType])
  OBVIOUS
<1>11. Grows(e, added)
  BY <1>9, <1>10 DEF Grows
<1> QED
  BY <1>8, <1>11 DEF r

\* The inner definition of UpdateCommon().
Update(d, t, s, c, b) ==
    IF \E allow \in Columns : IsChecked(d, t, s, Right({b}, NoType), allow)
    THEN d ELSE UpdateTyped(d, t, s, c, b)

\* One step of it.
LEMMA UpdateOneGrows ==
    ASSUME NEW d \in Dacl, NEW t \in Trustees, NEW s \in Scopes, NEW c \in Scopes,
           NEW b \in TypedBits
    PROVE  Update(d, t, s, c, b) \in Dacl /\ Grows(d[t][s], Update(d, t, s, c, b)[t][s])
<1> DEFINE r == Right({b}, NoType)
           e == d[t][s]
<1>1. e \in Entries
  BY DEF Dacl
<1>2. \E v \in Columns :
        UpdateTyped(d, t, s, c, b) \in {d, [d EXCEPT ![t][s] = AddRight(@, c, r, v)]}
  <2> DEFINE v == IF AllOwn(d, t, s, c, b, Len(Subordinate(c, b)), "allow")
                    THEN "allow" ELSE "deny"
  <2>1. UpdateTyped(d, t, s, c, b) = d
          \/ UpdateTyped(d, t, s, c, b) = [d EXCEPT ![t][s] = AddRight(@, c, r, v)]
    BY DEF UpdateTyped
  <2>2. v \in Columns
    BY DEF Columns
  <2> HIDE DEF v
  <2> QED
    BY <2>1, <2>2
<1>3. CASE \E allow \in Columns : IsChecked(d, t, s, r, allow)
  BY <1>3 DEF Update, Grows
<1>4. CASE ~\E allow \in Columns : IsChecked(d, t, s, r, allow)
  <2>1. b \notin e["allow"][NoType] \cup e["deny"][NoType]
    BY <1>4 DEF IsChecked, IsSet, Right, Columns
  <2>2. PICK v \in Columns :
          UpdateTyped(d, t, s, c, b) \in {d, [d EXCEPT ![t][s] = AddRight(@, c, r, v)]}
    BY <1>2
  <2>3. Update(d, t, s, c, b) = UpdateTyped(d, t, s, c, b)
    BY <1>4 DEF Update
  <2>4. r \in RightList(c)
    BY RightType DEF CommonMasks, TypedBits, Bits
  <2>5. AddRight(e, c, r, v) \in Entries /\ Grows(e, AddRight(e, c, r, v))
    BY <1>1, <2>1, <2>4, AddRightSet, AddUntypedBit
  <2>6. Grows(e, e)
    BY DEF Grows
  <2> QED
    BY <2>2, <2>3, <2>5, <2>6 DEF Dacl
<1> QED
  BY <1>3, <1>4

\* All five.
LEMMA UpdateGrows ==
    ASSUME NEW d \in Dacl, NEW t \in Trustees, NEW s \in Scopes, NEW c \in Scopes
    PROVE  UpdateCommon(d, t, s, c) \in Dacl /\ Grows(d[t][s], UpdateCommon(d, t, s, c)[t][s])
<1> DEFINE d1 == Update(d, t, s, c, "create_child")
           d2 == Update(d1, t, s, c, "delete_child")
           d3 == Update(d2, t, s, c, "read_prop")
           d4 == Update(d3, t, s, c, "write_prop")
           d5 == Update(d4, t, s, c, "control_access")
<1>1. d1 \in Dacl /\ Grows(d[t][s], d1[t][s])
  BY UpdateOneGrows DEF TypedBits
<1>2. d2 \in Dacl /\ Grows(d1[t][s], d2[t][s])
  BY <1>1, UpdateOneGrows DEF TypedBits
<1>3. d3 \in Dacl /\ Grows(d2[t][s], d3[t][s])
  BY <1>2, UpdateOneGrows DEF TypedBits
<1>4. d4 \in Dacl /\ Grows(d3[t][s], d4[t][s])
  BY <1>3, UpdateOneGrows DEF TypedBits
<1>5. d5 \in Dacl /\ Grows(d4[t][s], d5[t][s])
  BY <1>4, UpdateOneGrows DEF TypedBits
<1>6. UpdateCommon(d, t, s, c) = d5
  BY DEF UpdateCommon, Update
<1> HIDE DEF d1, d2, d3, d4, d5
<1>7. Grows(d[t][s], d3[t][s])
  BY <1>1, <1>2, <1>3, GrowsTransitive
<1> QED
  BY <1>4, <1>5, <1>6, <1>7, GrowsTransitive

\* Removing a right that is not of one typed bit takes a bit that the common
\* page never adds.
LEMMA RemoveRightTakes ==
    ASSUME NEW e \in Entries, NEW s \in Scopes, NEW m \in CommonMasks, NEW allow \in Columns,
           m \notin {{b} : b \in TypedBits}
    PROVE  \E x \in m \ TypedBits :
             x \notin RemoveRight(e, s, Right(m, NoType), allow)[allow][NoType]
<1> DEFINE r == Right(m, NoType)
           removed == RemoveRight(e, s, r, allow)
<1>1. r \in RightList(s) /\ r \in AnyRight /\ r.mask = m /\ r.object_type = NoType
  BY RightType DEF Right
<1>2. NoType \in AnyType
  BY DEF AnyType
<1>3. CASE m \in {GenericAll, GenericRead, GenericWrite}
  <2>1. PICK x \in Bits \ TypedBits :
          /\ x \in m /\ x # "list_object"
          /\ Holds(m, Right({x}, NoType))
    <3>1. CASE m = GenericAll
      <4>1. "delete" \in Bits \ TypedBits /\ {"delete"} # GenericAll
        BY DEF Bits, TypedBits, GenericAll
      <4> QED
        BY <3>1, <4>1 DEF Holds, Right, GenericAll
    <3>2. CASE m = GenericRead
      <4>1. "list" \in Bits \ TypedBits /\ "list" \in GenericRead
        BY DEF Bits, TypedBits, GenericRead
      <4> QED
        BY <3>2, <4>1 DEF Holds, Right
    <3>3. CASE m = GenericWrite
      <4>1. "self_write" \in Bits \ TypedBits /\ "self_write" \in GenericWrite
        BY DEF Bits, TypedBits, GenericWrite
      <4> QED
        BY <3>3, <4>1 DEF Holds, Right
    <3> QED
      BY <1>3, <3>1, <3>2, <3>3
  <2>2. x \in Subordinates(s, r)[NoType]
    <3> DEFINE p == Right({x}, NoType)
    <3>1. p \in RightList(s) /\ p.object_type = NoType /\ p.mask = {x}
      BY <2>1, RightType DEF Right, CommonMasks
    <3>2. p \in {y \in RightList(s) : y.object_type = NoType /\ Holds(m, y)}
      BY <2>1, <3>1
    <3>3. Below[s][m][NoType] =
            UNION {y.mask : y \in {y \in RightList(s) : y.object_type = NoType /\ Holds(m, y)}}
      BY <1>2 DEF Below
    <3> HIDE DEF p
    <3> QED
      BY <1>1, <3>1, <3>2, <3>3 DEF Subordinates
  <2>3. PICK u \in Entries : removed = UnsetSubordinates(u, s, r, allow)
    BY <1>1, SplitType, UnsetAt DEF RemoveRight
  <2> HIDE DEF removed, r
  <2>4. \A type \in AnyType :
          UnsetSubordinates(u, s, r, allow)[allow][type] = u[allow][type] \ Subordinates(s, r)[type]
    BY <1>1, UnsetSubordinatesAt
  <2>5. x \notin removed[allow][NoType]
    BY <1>2, <2>2, <2>3, <2>4
  <2> QED
    BY <2>1, <2>5 DEF removed, r
<1>4. CASE m \notin {GenericAll, GenericRead, GenericWrite}
  <2>1. PICK x \in Bits : m = {x}
    BY <1>4 DEF CommonMasks
  <2>2. x \notin TypedBits
    BY <2>1
  <2>3. ~IsSet(removed, r, allow)
    BY <1>1, RemoveRightNotSet
  <2> HIDE DEF removed
  <2>4. x \notin removed[allow][NoType]
    BY <1>1, <2>1, <2>3 DEF IsSet
  <2> QED
    BY <2>1, <2>2, <2>4 DEF removed
<1> QED
  BY <1>3, <1>4

-----------------------------------------------------------------------------
(* The theorems.                                                           *)

\* The lists that other operations make are lists.
LEMMA OtherListsType ==
    ASSUME NEW d \in Dacl, NEW t \in Trustees, NEW on \in BOOLEAN
    PROVE  /\ RemoveTrustees(d, {t}) \in Dacl
           /\ Protect(d, on) \in Dacl
           /\ SetCantChangePass(d, on) \in Dacl
<1>1. None \in Entries
  BY DEF None, Entries
<1>2. RemoveTrustees(d, {t}) \in Dacl
  BY <1>1 DEF RemoveTrustees, Dacl
<1>3. Everyone \in Trustees /\ Self \in Trustees /\ ThisObject \in Scopes
  BY SecurityDescriptorsAssumption
<1>4. {DeleteRight, DeleteTreeRight, ChangePasswordRight} \subseteq AnyRight
  BY SecurityDescriptorsAssumption
  DEF DeleteRight, DeleteTreeRight, ChangePasswordRight, Right, AnyRight, AnyType, Bits
<1>5. "deny" \in Columns /\ "allow" \in Columns
  BY DEF Columns
<1>6. \A e \in Entries : /\ Set(Set(e, DeleteTreeRight, "deny"), DeleteRight, "deny") \in Entries
                         /\ Unset(Unset(e, DeleteTreeRight, "deny"), DeleteRight, "deny") \in Entries
  BY <1>4, <1>5, SetAt, UnsetAt
<1>7. \A e \in Entries : SetPassword(e, on) \in Entries
  BY <1>4, <1>5, SetAt, UnsetAt, OppositeColumn DEF SetPassword
<1>8. Protect(d, on) \in Dacl
  BY <1>3, <1>6 DEF Protect, Dacl
<1>9. SetCantChangePass(d, on) \in Dacl
  BY <1>3, <1>7 DEF SetCantChangePass, Dacl
<1> QED
  BY <1>2, <1>8, <1>9

\* The variables have their types: every list that the tab makes has a mask for
\* every entry, and a trustee and a scope are always selected.
THEOREM SecurityTabType == Spec => []TypeOK
<1>1. Init => TypeOK
  <2> SUFFICES ASSUME Init PROVE TypeOK
    OBVIOUS
  <2>1. server \in Dacl /\ inherited \in [Trustees -> Entries]
    BY SecurityTabAssumption DEF Init
  <2>2. trustee \in Trustees /\ page \in Pages /\ scope \in Scopes
    BY SecurityDescriptorsAssumption DEF Init, TrusteeList, Pages
  <2>3. sd \in Dacl
    BY <2>1 DEF Init
  <2> QED
    BY <2>1, <2>2, <2>3, SecurityTabAssumption DEF Init, TypeOK
<1>2. TypeOK /\ [Next]_vars => TypeOK'
  <2> SUFFICES ASSUME TypeOK, [Next]_vars PROVE TypeOK'
    OBVIOUS
  <2> USE DEF TypeOK
  <2>1. ASSUME NEW d \in Dacl, NEW s \in Scopes, LoadSd(d, s)
        PROVE  trustee' \in Trustees /\ sd' \in Dacl
    BY <2>1, UpdateGrows DEF LoadSd, TrusteeList
  <2>1a. ASSUME NEW d \in Dacl, Load(d) PROVE trustee' \in Trustees /\ sd' \in Dacl
    BY <2>1, <2>1a, SecurityDescriptorsAssumption DEF Load
  <2>2. ASSUME NEW t \in Trustees, SelectTrustee(t) PROVE TypeOK'
    BY <2>2, UpdateGrows DEF SelectTrustee
  <2>3. ASSUME NEW p \in Pages, SelectPage(p) PROVE TypeOK'
    BY <2>3, UpdateGrows DEF SelectPage
  <2>4. ASSUME NEW s \in Scopes, SelectScope(s) PROVE TypeOK'
    BY <2>4 DEF SelectScope
  <2>5. ASSUME NEW r \in PageRights, NEW allow \in Columns, Click(r, allow) PROVE TypeOK'
    <3> DEFINE X == IF IsChecked(sd, trustee, scope, r, allow)
                    THEN RemoveRight(sd[trustee][scope], scope, r, allow)
                    ELSE AddRight(sd[trustee][scope], scope, r, allow)
               clicked == [sd EXCEPT ![trustee][scope] = X]
    <3>1. r \in RightList(scope)
      BY RightType, SecurityTabAssumption DEF PageRights, RightList
    <3>2. X \in Entries
      BY <3>1, RemoveRightNotSet, AddRightSet DEF Dacl
    <3> HIDE DEF X
    <3>3. clicked \in Dacl
      BY <3>2 DEF Dacl
    <3>4. sd' = IF page = "common" THEN UpdateCommon(clicked, trustee, scope, scope) ELSE clicked
      BY <2>5 DEF Click, X
    <3> HIDE DEF clicked
    <3>5. sd' \in Dacl
      BY <3>3, <3>4, UpdateGrows
    <3>6. /\ edits < MaxEdits /\ edits' = edits + 1
          /\ UNCHANGED <<server, inherited, trustee, page, scope>>
      BY <2>5 DEF Click, selection
    <3> QED
      BY <3>5, <3>6, SecurityTabAssumption
  <2> DEFINE without == RemoveTrustees(sd, {trustee})
  <2>0. without \in Dacl
    BY OtherListsType, TRUE \in BOOLEAN
  <2>6. ASSUME ClearAll PROVE TypeOK'
    <3>1. sd' = UpdateCommon(without, trustee, scope, scope)
      BY <2>6 DEF ClearAll
    <3>2. sd' \in Dacl
      BY <2>0, <3>1, UpdateGrows
    <3> QED
      BY <2>6, <3>2, SecurityTabAssumption DEF ClearAll, selection
  <2>7. ASSUME RemoveTrusteeButton PROVE TypeOK'
    <3>1. LoadSd(without, scope)
      BY <2>7 DEF RemoveTrusteeButton
    <3>2. trustee' \in Trustees /\ sd' \in Dacl
      BY <2>0, <2>1, <3>1
    <3> QED
      BY <2>7, <3>2, SecurityTabAssumption DEF RemoveTrusteeButton
  <2>8. ASSUME Apply PROVE TypeOK'
    BY <2>1a, <2>8 DEF Apply
  <2>9. ASSUME NEW on \in BOOLEAN, SetProtected(on) PROVE TypeOK'
    <3>1. server' \in Dacl
      BY <2>9, OtherListsType DEF SetProtected
    <3> QED
      BY <2>1a, <2>9, <3>1, SecurityTabAssumption DEF SetProtected
  <2>10. ASSUME NEW on \in BOOLEAN, SetCantChange(on) PROVE TypeOK'
    <3>1. server' \in Dacl
      BY <2>10, OtherListsType DEF SetCantChange
    <3> QED
      BY <2>1a, <2>10, <3>1, SecurityTabAssumption DEF SetCantChange
  <2>11. CASE UNCHANGED vars
    BY <2>11 DEF vars
  <2> QED
    BY <2>2, <2>3, <2>4, <2>5, <2>6, <2>7, <2>8, <2>9, <2>10, <2>11 DEF Next, Show, ClickAny
<1> QED
  BY <1>1, <1>2, PTL DEF Spec

\* Whatever the list, the class and the selection, a click on a box changes the
\* box as it shows and leaves the opposite box unset.
THEOREM ClickToldHolds == Spec => ClickTold
<1> DEFINE Told(r, allow) ==
             IF IsChecked(sd, trustee, scope, r, allow)
             THEN Added(r) \/ ~IsSet(Own', r, allow)
             ELSE IsSet(Own', r, allow) /\ ~IsSet(Own', r, Opposite(allow))
<1>1. ASSUME TypeOK, NEW r \in PageRights, NEW allow \in Columns, Click(r, allow)
      PROVE  Told(r, allow)
  <2> USE <1>1 DEF TypeOK
  <2> DEFINE e == sd[trustee][scope]
             X == IF IsChecked(sd, trustee, scope, r, allow)
                  THEN RemoveRight(e, scope, r, allow) ELSE AddRight(e, scope, r, allow)
             clicked == [sd EXCEPT ![trustee][scope] = X]
  <2>1. r \in RightList(scope) /\ e \in Entries
    BY RightType, SecurityTabAssumption DEF PageRights, RightList, Dacl
  <2>2. /\ X \in Entries
        /\ IsChecked(sd, trustee, scope, r, allow) => ~IsSet(X, r, allow)
        /\ ~IsChecked(sd, trustee, scope, r, allow) =>
             IsSet(X, r, allow) /\ ~IsSet(X, r, Opposite(allow))
    BY <2>1, RemoveRightNotSet, AddRightSet
  <2>3. /\ sd' = IF page = "common" THEN UpdateCommon(clicked, trustee, scope, scope) ELSE clicked
        /\ trustee' = trustee /\ scope' = scope
    BY DEF Click, selection
  <2>4. Own' = sd'[trustee][scope]
    BY <2>3 DEF Own
  <2>5. CASE page # "common"
    <3>1. Own' = X
      <4> HIDE DEF X
      <4> QED
        BY <2>2, <2>3, <2>4, <2>5 DEF Dacl
    <3> HIDE DEF X
    <3> QED
      BY <2>2, <3>1
  <2>6. CASE page = "common"
    <3>1. PICK m \in CommonMasks : r = Right(m, NoType)
      BY <2>6, SecurityTabAssumption DEF PageRights
    <3>2. r.mask = m /\ r.object_type = NoType
      BY <3>1 DEF Right
    <3>3. clicked \in Dacl /\ clicked[trustee][scope] = X
      <4> HIDE DEF X
      <4> QED
        BY <2>2 DEF Dacl
    <3>4. Grows(X, Own')
      <4> HIDE DEF clicked, X
      <4> QED
        BY <2>3, <2>4, <2>6, <3>3, UpdateGrows
    <3>5. Opposite(allow) \in Columns
      BY OppositeColumn
    <3>6. CASE ~IsChecked(sd, trustee, scope, r, allow)
      <4> HIDE DEF X
      <4>1. m \subseteq X[allow][NoType] /\ ~(m \subseteq X[Opposite(allow)][NoType])
        BY <2>2, <3>2, <3>6 DEF IsSet
      <4>2. X[allow][NoType] \subseteq X["allow"][NoType] \cup X["deny"][NoType]
        BY DEF Columns
      <4>3. m \subseteq Own'[allow][NoType]
        BY <3>4, <4>1 DEF Grows
      <4>4. ~(m \subseteq Own'[Opposite(allow)][NoType])
        BY <3>4, <3>5, <4>1, <4>2 DEF Grows
      <4> QED
        BY <3>2, <3>6, <4>3, <4>4 DEF IsSet
    <3>7. CASE IsChecked(sd, trustee, scope, r, allow) /\ ~Added(r)
      <4>1. m \notin {{b} : b \in TypedBits}
        BY <2>6, <3>2, <3>7 DEF Added
      <4>2. PICK x \in m \ TypedBits : x \notin X[allow][NoType]
        BY <2>1, <3>1, <3>7, <4>1, RemoveRightTakes
      <4> HIDE DEF X
      <4>3. x \notin Own'[allow][NoType]
        BY <3>4, <4>2 DEF Grows
      <4> QED
        BY <3>2, <3>7, <4>2, <4>3 DEF IsSet
    <3> QED
      BY <3>6, <3>7
  <2> QED
    BY <2>5, <2>6
<1>2. TypeOK => [\A r \in PageRights, allow \in Columns : Click(r, allow) => Told(r, allow)]_vars
  BY <1>1
<1> QED
  BY <1>2, SecurityTabType, PTL DEF ClickTold
=============================================================================
