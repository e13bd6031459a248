-------------------------- MODULE GplinkEdit_proofs --------------------------
(***************************************************************************)
(* Proofs about Gplink and GplinkEdit, for every set of GPOs, every length *)
(* of the attribute and every sequence of edits, over the attributes that  *)
(* name a GPO at most once.  Every method is one edit of the printed       *)
(* attribute, as GplinkAttr describes it.                                  *)
(***************************************************************************)
EXTENDS GplinkEdit, SequenceTheorems, TLAPS

\* A link read from an attribute without duplicates.
UniqueInit == \E str \in GplinkString : link = Parse(str)

UniqueSpec == UniqueInit /\ [][Next]_link

-----------------------------------------------------------------------------
\* Gplink(const QString &): the object built from an attribute without
\* duplicates lists the GPOs it has options for, each once.
LEMMA ParseWellFormed ==
    ASSUME NEW str \in GplinkString
    PROVE  WellFormed(Parse(str))
<1> DEFINE p == Parse(str)
<1>1. /\ str \in Seq(Part)
      /\ Len(str) \in Nat
      /\ DOMAIN str = 1..Len(str)
  BY DEF GplinkString
<1>2. /\ p.gpo_list = [i \in 1..Len(str) |-> str[Len(str) + 1 - i].gpo]
      /\ p.options = [g \in Named(str) |-> LastPart(str, g).option]
      /\ p = [gpo_list |-> p.gpo_list, options |-> p.options]
  BY DEF Parse
<1>3. \A i \in 1..Len(str) : str[i].gpo \in GPOs /\ str[i].option \in SUBSET GplinkOption
  <2>1. \A i \in 1..Len(str) : str[i] \in Part
    BY <1>1
  <2> QED  BY <2>1 DEF Part
<1>4. p.gpo_list \in Seq(GPOs)
  <2>1. \A i \in 1..Len(str) : Len(str) + 1 - i \in 1..Len(str)
    BY <1>1
  <2>2. \A i \in 1..Len(str) : str[Len(str) + 1 - i].gpo \in GPOs
    BY <2>1, <1>3
  <2> QED  BY <1>1, <1>2, <2>2
<1>5. DOMAIN p.gpo_list = 1..Len(str)
  BY <1>2
<1>6. \A i, j \in DOMAIN p.gpo_list : p.gpo_list[i] = p.gpo_list[j] => i = j
  <2> SUFFICES ASSUME NEW i \in 1..Len(str), NEW j \in 1..Len(str),
                      p.gpo_list[i] = p.gpo_list[j]
               PROVE  i = j
    BY <1>5
  <2>1. str[Len(str) + 1 - i].gpo = str[Len(str) + 1 - j].gpo
    BY <1>2
  <2>2. /\ Len(str) + 1 - i \in DOMAIN str
        /\ Len(str) + 1 - j \in DOMAIN str
    BY <1>1
  <2>3. Len(str) + 1 - i = Len(str) + 1 - j
    BY <2>1, <2>2 DEF GplinkString, NoDuplicates
  <2> QED  BY <2>3, <1>1
<1>7. Range(p.gpo_list) = Named(str)
  <2>1. \A i \in 1..Len(str) :
            /\ Len(str) + 1 - i \in 1..Len(str)
            /\ p.gpo_list[i] = str[Len(str) + 1 - i].gpo
            /\ p.gpo_list[Len(str) + 1 - i] = str[i].gpo
    <3> TAKE i \in 1..Len(str)
    <3>1. /\ Len(str) + 1 - i \in 1..Len(str)
          /\ Len(str) + 1 - (Len(str) + 1 - i) = i
      BY <1>1
    <3> QED  BY <3>1, <1>2
  <2>2. ASSUME NEW i \in DOMAIN p.gpo_list
        PROVE  p.gpo_list[i] \in Named(str)
    <3>1. p.gpo_list[i] = str[Len(str) + 1 - i].gpo
      BY <2>1, <1>5
    <3>2. Len(str) + 1 - i \in DOMAIN str
      BY <2>1, <1>1, <1>5
    <3> HIDE DEF p
    <3> QED  BY <3>1, <3>2 DEF Named
  <2>3. ASSUME NEW i \in 1..Len(str)
        PROVE  str[i].gpo \in Range(p.gpo_list)
    <3>1. p.gpo_list[Len(str) + 1 - i] = str[i].gpo
      BY <2>1
    <3>2. Len(str) + 1 - i \in DOMAIN p.gpo_list
      BY <2>1, <1>5
    <3> HIDE DEF p
    <3> QED  BY <3>1, <3>2 DEF Range
  <2> HIDE DEF p
  <2> QED  BY <2>2, <2>3, <1>1 DEF Named, Range
<1>8. p.options \in [Range(p.gpo_list) -> SUBSET GplinkOption]
  <2>1. ASSUME NEW g \in Named(str)
        PROVE  LastPart(str, g).option \in SUBSET GplinkOption
    <3>1. PICK i \in DOMAIN str : str[i].gpo = g
      BY DEF Named
    <3>2. \A j \in DOMAIN str : str[j].gpo = g => j <= i
      BY <3>1, <1>1 DEF GplinkString, NoDuplicates
    <3> DEFINE last == CHOOSE k \in DOMAIN str :
                  str[k].gpo = g /\ \A j \in DOMAIN str : str[j].gpo = g => j <= k
    <3>3. last \in DOMAIN str
      BY <3>1, <3>2
    <3>4. LastPart(str, g) = str[last]
      BY DEF LastPart
    <3> QED  BY <3>3, <3>4, <1>3, <1>1
  <2> QED  BY <2>1, <1>2, <1>7
<1> QED  BY <1>2, <1>4, <1>6, <1>8 DEF WellFormed

\* to_string() and the constructor are inverse: order and options survive.
LEMMA ParseOfString ==
    ASSUME NEW l, WellFormed(l)
    PROVE  Parse(to_string(l)) = l
<1> DEFINE s == to_string(l)
<1> DEFINE n == Len(l.gpo_list)
<1>1. /\ l = [gpo_list |-> l.gpo_list, options |-> l.options]
      /\ l.gpo_list \in Seq(GPOs)
      /\ n \in Nat
      /\ DOMAIN l.gpo_list = 1..n
      /\ DOMAIN l.options = Range(l.gpo_list)
  BY DEF WellFormed
<1>2. /\ DOMAIN s = 1..n
      /\ Len(s) = n
      /\ \A i \in 1..n : s[i].gpo = l.gpo_list[n + 1 - i]
      /\ \A i \in 1..n : s[i].option = l.options[s[i].gpo]
  <2>1. s = [i \in 1..n |-> [gpo |-> l.gpo_list[n + 1 - i],
                             option |-> OptionBits(l, l.gpo_list[n + 1 - i])]]
    BY DEF to_string
  <2>2. \A i \in 1..n : l.gpo_list[n + 1 - i] \in DOMAIN l.options
    <3> TAKE i \in 1..n
    <3>1. n + 1 - i \in DOMAIN l.gpo_list
      BY <1>1
    <3> QED  BY <3>1, <1>1 DEF Range
  <2>3. Len(s) = n
    BY <2>1, <1>1
  <2>4. \A i \in 1..n : OptionBits(l, l.gpo_list[n + 1 - i]) = l.options[l.gpo_list[n + 1 - i]]
    BY <2>2 DEF OptionBits
  <2> QED  BY <2>1, <2>3, <2>4
<1>3. Parse(s).gpo_list = l.gpo_list
  <2>1. Parse(s).gpo_list = [i \in 1..n |-> s[n + 1 - i].gpo]
    BY <1>2 DEF Parse
  <2>2. \A i \in 1..n : s[n + 1 - i].gpo = l.gpo_list[i]
    <3> TAKE i \in 1..n
    <3>1. n + 1 - i \in 1..n /\ n + 1 - (n + 1 - i) = i
      BY <1>1
    <3> QED  BY <3>1, <1>2
  <2>3. l.gpo_list = [i \in 1..n |-> l.gpo_list[i]]
    BY <1>1
  <2> QED  BY <2>1, <2>2, <2>3
<1>4. Named(s) = DOMAIN l.options
  <2>1. \A i \in 1..n : n + 1 - i \in 1..n /\ n + 1 - (n + 1 - i) = i
    BY <1>1
  <2>2. \A i \in 1..n : s[n + 1 - i].gpo = l.gpo_list[i]
    BY <2>1, <1>2
  <2> HIDE DEF s, n
  <2>3. ASSUME NEW i \in 1..n
        PROVE  s[i].gpo \in Range(l.gpo_list)
    <3>1. n + 1 - i \in DOMAIN l.gpo_list /\ s[i].gpo = l.gpo_list[n + 1 - i]
      BY <2>1, <1>1, <1>2
    <3> QED  BY <3>1 DEF Range
  <2>4. ASSUME NEW i \in 1..n
        PROVE  l.gpo_list[i] \in Named(s)
    <3>1. n + 1 - i \in DOMAIN s /\ s[n + 1 - i].gpo = l.gpo_list[i]
      BY <2>1, <2>2, <1>2
    <3> QED  BY <3>1 DEF Named
  <2>5. Named(s) \subseteq Range(l.gpo_list)
    BY <2>3, <1>2 DEF Named
  <2>6. Range(l.gpo_list) \subseteq Named(s)
    BY <2>4, <1>1 DEF Range
  <2> QED  BY <2>5, <2>6, <1>1
<1>5. ASSUME NEW g \in Named(s)
      PROVE  LastPart(s, g).option = l.options[g]
  <2>1. PICK i \in DOMAIN s : s[i].gpo = g
    BY DEF Named
  <2>2. \A j \in DOMAIN s : s[j].gpo = g => j = i
    <3> SUFFICES ASSUME NEW j \in DOMAIN s, s[j].gpo = g
                 PROVE  j = i
      OBVIOUS
    <3>1. n + 1 - i = n + 1 - j
      <4>1. l.gpo_list[n + 1 - i] = l.gpo_list[n + 1 - j]
        BY <2>1, <1>2
      <4>2. n + 1 - i \in DOMAIN l.gpo_list /\ n + 1 - j \in DOMAIN l.gpo_list
        BY <1>1, <1>2
      <4> QED  BY <4>1, <4>2 DEF WellFormed
    <3> QED  BY <3>1, <1>1, <1>2
  <2>3. LastPart(s, g) = s[i]
    <3>1. i \in Nat
      BY <1>1, <1>2
    <3>2. s[i].gpo = g /\ \A j \in DOMAIN s : s[j].gpo = g => j <= i
      BY <2>1, <2>2, <3>1
    <3> QED  BY <2>2, <3>2 DEF LastPart
  <2> QED  BY <2>1, <2>3, <1>2
<1>6. Parse(s).options = l.options
  <2>1. Parse(s).options = [g \in Named(s) |-> LastPart(s, g).option]
    BY DEF Parse
  <2>2. l.options = [g \in DOMAIN l.options |-> l.options[g]]
    BY DEF WellFormed
  <2> QED  BY <2>1, <2>2, <1>4, <1>5
<1>7. Parse(s) = [gpo_list |-> Parse(s).gpo_list, options |-> Parse(s).options]
  BY DEF Parse
<1> QED  BY <1>1, <1>3, <1>6, <1>7

-----------------------------------------------------------------------------
\* add(): a GPO that is not linked yet joins the end of the list once.
LEMMA AddWellFormed ==
    ASSUME NEW l, WellFormed(l), NEW g \in GPOs
    PROVE  WellFormed(add(l, g))
<1>1. CASE contains(l, g)
  BY <1>1 DEF add
<1>2. CASE ~contains(l, g)
  <2> DEFINE m == add(l, g)
  <2> DEFINE n == Len(l.gpo_list)
  <2>1. /\ m.gpo_list = Append(l.gpo_list, g)
        /\ m.options = [h \in DOMAIN l.options \cup {g} |->
                            IF h = g THEN {} ELSE l.options[h]]
        /\ m = [gpo_list |-> m.gpo_list, options |-> m.options]
    BY <1>2 DEF add
  <2>2. /\ l.gpo_list \in Seq(GPOs)
        /\ n \in Nat
        /\ DOMAIN l.gpo_list = 1..n
        /\ DOMAIN l.options = Range(l.gpo_list)
        /\ \A h \in DOMAIN l.options : l.options[h] \in SUBSET GplinkOption
        /\ g \notin Range(l.gpo_list)
    BY <1>2 DEF WellFormed, contains
  <2>3. /\ m.gpo_list \in Seq(GPOs)
        /\ DOMAIN m.gpo_list = 1..(n + 1)
        /\ \A i \in 1..n : m.gpo_list[i] = l.gpo_list[i]
        /\ m.gpo_list[n + 1] = g
    BY <2>1, <2>2
  <2> HIDE DEF m
  <2>4. \A i \in 1..n : m.gpo_list[i] # g
    BY <2>2, <2>3 DEF Range
  <2>5. \A i, j \in DOMAIN m.gpo_list : m.gpo_list[i] = m.gpo_list[j] => i = j
    <3> SUFFICES ASSUME NEW i \in 1..(n + 1), NEW j \in 1..(n + 1),
                        m.gpo_list[i] = m.gpo_list[j]
                 PROVE  i = j
      BY <2>3
    <3>1. CASE i \in 1..n /\ j \in 1..n
      BY <3>1, <2>2, <2>3 DEF WellFormed
    <3>2. CASE i = n + 1 \/ j = n + 1
      BY <3>2, <2>2, <2>3, <2>4
    <3> QED  BY <3>1, <3>2, <2>2
  <2>6. Range(m.gpo_list) = Range(l.gpo_list) \cup {g}
    <3>1. \A i \in 1..n : i \in DOMAIN m.gpo_list
      BY <2>2, <2>3
    <3>2. n + 1 \in DOMAIN m.gpo_list
      BY <2>2, <2>3
    <3>3. \A i \in DOMAIN m.gpo_list : i \in 1..n \/ i = n + 1
      BY <2>2, <2>3
    <3> QED  BY <3>1, <3>2, <3>3, <2>2, <2>3 DEF Range
  <2>7. m.options \in [Range(m.gpo_list) -> SUBSET GplinkOption]
    BY <2>1, <2>2, <2>6
  <2> QED  BY <2>1, <2>3, <2>5, <2>7 DEF WellFormed, m
<1> QED  BY <1>1, <1>2

\* s without what is at position i.
Without(s, i) == [k \in 1..(Len(s) - 1) |-> s[IF k < i THEN k ELSE k + 1]]

\* QList::removeAt().
LEMMA RemoveAtElements ==
    ASSUME NEW T, NEW s \in Seq(T), NEW i \in 1..Len(s)
    PROVE  RemoveAt(s, i) = Without(s, i)
<1> DEFINE n == Len(s)
           before == SubSeq(s, 1, i - 1)
           after == SubSeq(s, i + 1, n)
<1>1. n \in Nat /\ i \in Nat /\ i >= 1 /\ i <= n /\ DOMAIN s = 1..n
  OBVIOUS
<1>2. /\ before \in Seq(T) /\ Len(before) = i - 1
      /\ \A k \in 1..(i - 1) : before[k] = s[k]
  BY <1>1
<1>3. /\ after \in Seq(T) /\ Len(after) = n - i
      /\ \A k \in 1..(n - i) : after[k] = s[k + i]
  <2>1. i + 1 \in Int /\ n \in Int /\ \A k \in (i + 1)..n : s[k] \in T
    BY <1>1
  <2>2. /\ after \in Seq(T) /\ Len(after) = IF i + 1 <= n THEN n - (i + 1) + 1 ELSE 0
        /\ \A k \in 1..(n - (i + 1) + 1) : after[k] = s[(i + 1) + k - 1]
    BY <2>1, SubSeqProperties
  <2> HIDE DEF after, n
  <2>3. /\ (IF i + 1 <= n THEN n - (i + 1) + 1 ELSE 0) = n - i
        /\ n - (i + 1) + 1 = n - i
        /\ \A k \in 1..(n - i) : (i + 1) + k - 1 = k + i
    BY <1>1
  <2> QED
    BY <2>2, <2>3
<1> HIDE DEF before, after
<1> DEFINE whole == before \o after
<1>4. /\ whole \in Seq(T)
      /\ Len(whole) = Len(before) + Len(after)
      /\ \A k \in 1..(Len(before) + Len(after)) :
            whole[k] = IF k <= Len(before) THEN before[k] ELSE after[k - Len(before)]
  BY <1>2, <1>3, ConcatProperties
<1>5. Len(whole) = n - 1 /\ n - 1 \in Nat
  BY <1>1, <1>2, <1>3, <1>4
<1>6. ASSUME NEW k \in 1..(n - 1)
      PROVE  whole[k] = s[IF k < i THEN k ELSE k + 1]
  <2>1. whole[k] = IF k <= i - 1 THEN before[k] ELSE after[k - (i - 1)]
    BY <1>1, <1>2, <1>3, <1>4
  <2>2. CASE k < i
    <3>1. k \in 1..(i - 1)
      BY <1>1, <2>2
    <3> QED
      BY <1>1, <1>2, <2>1, <2>2, <3>1
  <2>3. CASE k >= i
    <3>1. k - (i - 1) \in 1..(n - i) /\ (k - (i - 1)) + i = k + 1
      BY <1>1, <2>3
    <3> QED
      BY <1>1, <1>3, <2>1, <2>3, <3>1
  <2>4. k < i \/ k >= i
    BY <1>1
  <2> QED
    BY <2>2, <2>3, <2>4
<1>7. RemoveAt(s, i) = whole
  BY DEF RemoveAt, before, after
<1> HIDE DEF whole
<1>8. whole = [k \in 1..(n - 1) |-> whole[k]]
  BY <1>4, <1>5
<1> QED
  BY <1>6, <1>7, <1>8 DEF Without

\* removeAll() of a policy that is linked once.
LEMMA RemovedOnce ==
    ASSUME NEW l, WellFormed(l), NEW g \in GPOs, contains(l, g)
    PROVE  \E k \in 1..Len(l.gpo_list) :
              /\ \A i \in 1..Len(l.gpo_list) : l.gpo_list[i] = g <=> i = k
              /\ remove(l, g).gpo_list = Without(l.gpo_list, k)
<1> DEFINE n == Len(l.gpo_list)
<1>1. /\ l.gpo_list \in Seq(GPOs) /\ DOMAIN l.gpo_list = 1..n
      /\ \A i, j \in 1..n : l.gpo_list[i] = l.gpo_list[j] => i = j
      /\ DOMAIN l.options = Range(l.gpo_list)
  BY DEF WellFormed
<1>2. PICK k \in 1..n : l.gpo_list[k] = g
  BY <1>1 DEF contains, Range
<1>3. \A i \in 1..n : l.gpo_list[i] = g <=> i = k
  BY <1>1, <1>2
<1>4. k = CHOOSE i \in DOMAIN l.gpo_list : l.gpo_list[i] = g
  BY <1>1, <1>3
<1>5. RemoveAll(l.gpo_list, g) = RemoveAt(l.gpo_list, k)
  <2>1. \E i \in DOMAIN l.gpo_list :
           \A j \in DOMAIN l.gpo_list : l.gpo_list[j] = g <=> j = i
    BY <1>1, <1>3
  <2> QED
    BY <1>4, <2>1 DEF RemoveAll
<1>6. RemoveAt(l.gpo_list, k) = Without(l.gpo_list, k)
  BY <1>1, RemoveAtElements
<1>7. remove(l, g).gpo_list = RemoveAll(l.gpo_list, g)
  BY DEF remove
<1> QED
  BY <1>3, <1>5, <1>6, <1>7

\* remove(): the list and the options lose the same GPO.
LEMMA RemoveWellFormed ==
    ASSUME NEW l, WellFormed(l), NEW g \in GPOs
    PROVE  WellFormed(remove(l, g))
<1>1. CASE ~contains(l, g)
  BY <1>1 DEF remove
<1>2. CASE contains(l, g)
  <2> DEFINE m == remove(l, g)
  <2> DEFINE n == Len(l.gpo_list)
  <2>1. /\ m.gpo_list = RemoveAll(l.gpo_list, g)
        /\ m.options = [h \in DOMAIN l.options \ {g} |-> l.options[h]]
        /\ m = [gpo_list |-> m.gpo_list, options |-> m.options]
    BY <1>2 DEF remove
  <2>2. /\ l.gpo_list \in Seq(GPOs)
        /\ n \in Nat
        /\ DOMAIN l.gpo_list = 1..n
        /\ \A i \in 1..n : l.gpo_list[i] \in GPOs
        /\ \A i, j \in 1..n : l.gpo_list[i] = l.gpo_list[j] => i = j
        /\ DOMAIN l.options = Range(l.gpo_list)
        /\ \A h \in DOMAIN l.options : l.options[h] \in SUBSET GplinkOption
    BY DEF WellFormed
  <2>3. PICK k \in 1..n : /\ \A i \in 1..n : l.gpo_list[i] = g <=> i = k
                         /\ m.gpo_list = Without(l.gpo_list, k)
    BY <1>2, RemovedOnce
  <2>4. \A i \in 1..n : l.gpo_list[i] = g <=> i = k
    BY <2>3
  <2> DEFINE old(i) == IF i < k THEN i ELSE i + 1
  <2>6. /\ m.gpo_list = [i \in 1..(n - 1) |-> l.gpo_list[old(i)]]
        /\ n - 1 \in Nat
    BY <2>2, <2>3 DEF Without
  <2>7. /\ \A i \in 1..(n - 1) : old(i) \in 1..n /\ old(i) # k
        /\ \A i, j \in 1..(n - 1) : old(i) = old(j) => i = j
        /\ \A i \in 1..n : i # k => \E j \in 1..(n - 1) : old(j) = i
    <3>1. \A i \in 1..n : i # k => \E j \in 1..(n - 1) : old(j) = i
      <4> SUFFICES ASSUME NEW i \in 1..n, i # k
                   PROVE  \E j \in 1..(n - 1) : old(j) = i
        OBVIOUS
      <4>1. CASE i < k
        <5>1. i \in 1..(n - 1) /\ old(i) = i
          BY <4>1, <2>2, <2>3
        <5> QED  BY <5>1
      <4>2. CASE i > k
        <5>1. i - 1 \in 1..(n - 1) /\ old(i - 1) = i
          BY <4>2, <2>2, <2>3
        <5> QED  BY <5>1
      <4> QED  BY <4>1, <4>2, <2>2, <2>3
    <3> QED  BY <3>1, <2>2, <2>3
  <2> HIDE DEF m, old
  <2>8. m.gpo_list \in Seq(GPOs) /\ DOMAIN m.gpo_list = 1..(n - 1)
    BY <2>2, <2>6, <2>7
  <2>9. \A i, j \in DOMAIN m.gpo_list : m.gpo_list[i] = m.gpo_list[j] => i = j
    BY <2>2, <2>6, <2>7, <2>8, SMTT(30)
  <2>10. Range(m.gpo_list) = Range(l.gpo_list) \ {g}
    <3>1. \A i \in 1..(n - 1) : m.gpo_list[i] = l.gpo_list[old(i)]
      BY <2>6
    <3>2. ASSUME NEW i \in 1..(n - 1)
          PROVE  m.gpo_list[i] \in Range(l.gpo_list) \ {g}
      BY <3>1, <2>2, <2>4, <2>7, ZenonT(30) DEF Range
    <3>3. ASSUME NEW i \in 1..n, l.gpo_list[i] # g
          PROVE  l.gpo_list[i] \in Range(m.gpo_list)
      <4>1. PICK j \in 1..(n - 1) : old(j) = i
        BY <3>3, <2>3, <2>7
      <4>2. m.gpo_list[j] = l.gpo_list[i] /\ j \in DOMAIN m.gpo_list
        BY <4>1, <3>1, <2>8
      <4> QED  BY <4>2 DEF Range
    <3>4. Range(m.gpo_list) \subseteq Range(l.gpo_list) \ {g}
      BY <3>2, <2>8 DEF Range
    <3>5. Range(l.gpo_list) \ {g} \subseteq Range(m.gpo_list)
      BY <3>3, <2>2 DEF Range
    <3> QED  BY <3>4, <3>5
  <2>11. m.options \in [Range(m.gpo_list) -> SUBSET GplinkOption]
    BY <2>1, <2>2, <2>10
  <2> QED  BY <2>1, <2>8, <2>9, <2>11 DEF WellFormed, m
<1> QED  BY <1>1, <1>2

\* move(), and move_up() and move_down() that call it: the same GPOs, each
\* once, in another order.
LEMMA MoveWellFormed ==
    ASSUME NEW l, WellFormed(l), NEW from \in Nat, NEW to \in Nat
    PROVE  WellFormed(move(l, from, to))
<1>1. CASE ~({from, to} \subseteq 1..Len(l.gpo_list))
  BY <1>1 DEF move
<1>2. CASE {from, to} \subseteq 1..Len(l.gpo_list)
  <2> DEFINE m == move(l, from, to)
  <2> DEFINE n == Len(l.gpo_list)
  <2> DEFINE old(i) == CASE i = to                 -> from
                         [] i \in from .. (to - 1) -> i + 1
                         [] i \in (to + 1) .. from -> i - 1
                         [] OTHER                  -> i
  <2> DEFINE new(i) == CASE i = from               -> to
                         [] i \in (from + 1) .. to -> i - 1
                         [] i \in to .. (from - 1) -> i + 1
                         [] OTHER                  -> i
  <2>1. /\ l.gpo_list \in Seq(GPOs)
        /\ n \in Nat
        /\ DOMAIN l.gpo_list = 1..n
        /\ \A i \in 1..n : l.gpo_list[i] \in GPOs
        /\ \A i, j \in 1..n : l.gpo_list[i] = l.gpo_list[j] => i = j
        /\ l.options \in [Range(l.gpo_list) -> SUBSET GplinkOption]
        /\ l = [gpo_list |-> l.gpo_list, options |-> l.options]
    BY DEF WellFormed
  <2>2. /\ m.gpo_list = MoveItem(l.gpo_list, from, to)
        /\ m.options = l.options
        /\ m = [gpo_list |-> m.gpo_list, options |-> m.options]
    BY <1>2, <2>1 DEF move
  <2>3. /\ \A i \in 1..n : old(i) \in 1..n /\ new(i) \in 1..n
        /\ \A i \in 1..n : old(new(i)) = i /\ new(old(i)) = i
    BY <1>2, <2>1, SMTT(30)
  <2>4. m.gpo_list = [i \in 1..n |-> l.gpo_list[old(i)]]
    BY <2>2 DEF MoveItem
  <2> HIDE DEF m, old, new
  <2>5. m.gpo_list \in Seq(GPOs) /\ DOMAIN m.gpo_list = 1..n
    BY <2>1, <2>3, <2>4
  <2>6. \A i, j \in DOMAIN m.gpo_list : m.gpo_list[i] = m.gpo_list[j] => i = j
    <3> SUFFICES ASSUME NEW i \in 1..n, NEW j \in 1..n,
                        m.gpo_list[i] = m.gpo_list[j]
                 PROVE  i = j
      BY <2>5
    <3>1. old(i) = old(j)
      BY <2>1, <2>3, <2>4
    <3>2. new(old(i)) = new(old(j))
      BY <3>1
    <3> QED  BY <3>2, <2>3
  <2>7. Range(m.gpo_list) = Range(l.gpo_list)
    <3>1. ASSUME NEW i \in 1..n
          PROVE  m.gpo_list[i] \in Range(l.gpo_list)
      BY <2>1, <2>3, <2>4 DEF Range
    <3>2. ASSUME NEW i \in 1..n
          PROVE  l.gpo_list[i] \in Range(m.gpo_list)
      <4>1. new(i) \in DOMAIN m.gpo_list /\ m.gpo_list[new(i)] = l.gpo_list[i]
        BY <2>3, <2>4, <2>5
      <4> QED  BY <4>1 DEF Range
    <3>3. Range(m.gpo_list) \subseteq Range(l.gpo_list)
      BY <3>1, <2>5 DEF Range
    <3>4. Range(l.gpo_list) \subseteq Range(m.gpo_list)
      BY <3>2, <2>1 DEF Range
    <3> QED  BY <3>3, <3>4
  <2> QED  BY <2>1, <2>2, <2>5, <2>6, <2>7 DEF WellFormed, m
<1> QED  BY <1>1, <1>2

\* The order of a linked GPO is a position of the list.
LEMMA OrderInRange ==
    ASSUME NEW l, WellFormed(l), NEW g \in GPOs
    PROVE  get_gpo_order(l, g) \in Nat
<1> DEFINE at == {i \in DOMAIN l.gpo_list : l.gpo_list[i] = g}
<1>1. at \subseteq Nat
  BY DEF WellFormed
<1>2. CASE at = {}
  BY <1>2 DEF get_gpo_order
<1>3. CASE at # {}
  <2>1. \E i \in at : \A j \in at : i <= j
    <3>1. PICK i \in at : TRUE
      BY <1>3
    <3>2. \A j \in at : j = i
      BY <3>1 DEF WellFormed
    <3> QED  BY <3>1, <3>2, <1>1
  <2>2. get_gpo_order(l, g) = CHOOSE i \in at : \A j \in at : i <= j
    BY <1>3 DEF get_gpo_order
  <2> QED  BY <2>1, <2>2, <1>1
<1> QED  BY <1>2, <1>3

\* set_option(): the hash keeps its keys and its values stay option bits.
LEMMA SetOptionWellFormed ==
    ASSUME NEW l, WellFormed(l), NEW g \in GPOs, NEW o \in GplinkOption,
           NEW value \in BOOLEAN
    PROVE  WellFormed(set_option(l, g, o, value))
BY DEF set_option, contains, WellFormed

LEMMA MoveByOneWellFormed ==
    ASSUME NEW l, WellFormed(l), NEW g \in GPOs
    PROVE  WellFormed(move_up(l, g)) /\ WellFormed(move_down(l, g))
<1> DEFINE at == get_gpo_order(l, g)
<1>1. at \in Nat
  BY OrderInRange
<1>2. at > 1 => at - 1 \in Nat
  BY <1>1
<1>3. at + 1 \in Nat
  BY <1>1
<1>4. move_up(l, g) = l \/ (at > 1 /\ move_up(l, g) = move(l, at, at - 1))
  BY DEF move_up
<1>5. move_down(l, g) = l \/ move_down(l, g) = move(l, at, at + 1)
  BY DEF move_down
<1> HIDE DEF at
<1> QED  BY <1>1, <1>2, <1>3, <1>4, <1>5, MoveWellFormed

-----------------------------------------------------------------------------
(* What the edits do to the GPOs an attribute names.                       *)

\* to_string() names what the object has options for, each GPO once.
LEMMA PrintedString ==
    ASSUME NEW l, WellFormed(l)
    PROVE  to_string(l) \in GplinkString /\ Named(to_string(l)) = DOMAIN l.options
<1> DEFINE s == to_string(l)
<1> DEFINE n == Len(l.gpo_list)
<1>1. /\ l.gpo_list \in Seq(GPOs) /\ n \in Nat /\ DOMAIN l.gpo_list = 1..n
      /\ l.options \in [Range(l.gpo_list) -> SUBSET GplinkOption]
      /\ \A i, j \in 1..n : l.gpo_list[i] = l.gpo_list[j] => i = j
  BY DEF WellFormed
<1>2. s = [i \in 1..n |-> [gpo |-> l.gpo_list[n + 1 - i],
                          option |-> OptionBits(l, l.gpo_list[n + 1 - i])]]
  BY DEF to_string
<1>3. \A g : OptionBits(l, g) \in SUBSET GplinkOption
  BY <1>1 DEF OptionBits
<1>4. \A i \in 1..n : n + 1 - i \in 1..n /\ n + 1 - (n + 1 - i) = i
  BY <1>1
<1>5. /\ DOMAIN s = 1..n
      /\ \A i \in 1..n : s[i] = [gpo |-> l.gpo_list[n + 1 - i],
                                option |-> OptionBits(l, l.gpo_list[n + 1 - i])]
  BY <1>2
<1>6. \A i \in 1..n : l.gpo_list[i] \in GPOs
  BY <1>1
<1>7. \A i \in 1..n : s[i] \in Part /\ s[i].gpo = l.gpo_list[n + 1 - i]
  <2> TAKE i \in 1..n
  <2>1. n + 1 - i \in 1..n
    BY <1>4
  <2>2. l.gpo_list[n + 1 - i] \in GPOs
    BY <1>6, <2>1
  <2>3. OptionBits(l, l.gpo_list[n + 1 - i]) \in SUBSET GplinkOption
    BY <1>3
  <2>4. s[i] = [gpo |-> l.gpo_list[n + 1 - i],
                option |-> OptionBits(l, l.gpo_list[n + 1 - i])]
    BY <1>5
  <2> HIDE DEF s, n
  <2> QED  BY <2>2, <2>3, <2>4 DEF Part
<1>8. s \in Seq(Part)
  <2>1. s = [i \in 1..n |-> s[i]]
    BY <1>2, <1>5, Zenon
  <2>2. \A i \in 1..n : s[i] \in Part
    BY <1>7
  <2> HIDE DEF s, n
  <2>3. n \in Nat
    BY <1>1 DEF n
  <2>4. [i \in 1..n |-> s[i]] \in Seq(Part)
    BY <2>2, <2>3
  <2> QED  BY <2>1, <2>4
<1> HIDE DEF s
<1>9. NoDuplicates(s)
  <2> SUFFICES ASSUME NEW i \in 1..n, NEW j \in 1..n, s[i].gpo = s[j].gpo
               PROVE  i = j
    BY <1>5 DEF NoDuplicates
  <2> HIDE DEF n
  <2>1. n + 1 - i \in 1..n /\ n + 1 - j \in 1..n
    BY <1>4
  <2>2. l.gpo_list[n + 1 - i] = l.gpo_list[n + 1 - j]
    BY <1>7
  <2>3. n + 1 - i = n + 1 - j
    BY <1>1, <2>1, <2>2
  <2> QED  BY <1>1, <2>3 DEF n
<1>10. Named(s) = Range(l.gpo_list)
  <2>1. \A i \in 1..n : s[i].gpo \in Range(l.gpo_list)
    BY <1>1, <1>4, <1>7 DEF Range
  <2>2. \A i \in 1..n : l.gpo_list[i] = s[n + 1 - i].gpo
    BY <1>4, <1>7
  <2>3. \A i \in 1..n : l.gpo_list[i] \in Named(s)
    BY <1>4, <1>5, <2>2 DEF Named
  <2>4. Named(s) \subseteq Range(l.gpo_list)
    BY <1>5, <2>1 DEF Named
  <2>5. Range(l.gpo_list) \subseteq Named(s)
    BY <1>1, <2>3 DEF Range
  <2> QED  BY <2>4, <2>5
<1> QED  BY <1>1, <1>8, <1>9, <1>10 DEF s, GplinkString

LEMMA ParsedNames ==
    ASSUME NEW str
    PROVE  DOMAIN Parse(str).options = Named(str)
BY DEF Parse

\* Only add() and remove() change them.
LEMMA EditedNames ==
    ASSUME NEW l, WellFormed(l)
    PROVE  /\ \A g : DOMAIN add(l, g).options = DOMAIN l.options \cup {g}
           /\ \A g : DOMAIN remove(l, g).options = DOMAIN l.options \ {g}
           /\ \A from, to : move(l, from, to).options = l.options
           /\ \A g : /\ move_up(l, g).options = l.options
                     /\ move_down(l, g).options = l.options
           /\ \A g, o, value : DOMAIN set_option(l, g, o, value).options = DOMAIN l.options
<1>1. \A from, to : move(l, from, to).options = l.options
  BY DEF move, WellFormed
<1>2. \A g : /\ move_up(l, g).options = l.options
             /\ move_down(l, g).options = l.options
  BY <1>1 DEF move_up, move_down
<1>3. \A g : DOMAIN add(l, g).options = DOMAIN l.options \cup {g}
  BY DEF add, contains
<1>4. \A g : DOMAIN remove(l, g).options = DOMAIN l.options \ {g}
  BY DEF remove, contains
<1>5. \A g, o, value : DOMAIN set_option(l, g, o, value).options = DOMAIN l.options
  BY DEF set_option, contains, WellFormed
<1> QED  BY <1>1, <1>2, <1>3, <1>4, <1>5

\* The orders move() is called with are numbers.
LEMMA PrintedOrders ==
    ASSUME WellFormed(link)
    PROVE  /\ Orders \subseteq Nat
           /\ Len(link.gpo_list) \in Nat
           /\ Orders = 0..(Len(link.gpo_list) + 1)
<1>1. Len(link.gpo_list) \in Nat
  BY DEF WellFormed
<1> QED
  BY <1>1 DEF Orders

-----------------------------------------------------------------------------
\* Every reachable object lists each GPO once and has options for exactly
\* the GPOs it lists.
THEOREM LinkWellFormed == UniqueSpec => []WellFormed(link)
<1>1. UniqueInit => WellFormed(link)
  BY ParseWellFormed DEF UniqueInit
<1>2. WellFormed(link) /\ [Next]_link => WellFormed(link)'
  <2> SUFFICES ASSUME WellFormed(link), [Next]_link
               PROVE  WellFormed(link')
    BY DEF WellFormed
  <2>1. ASSUME NEW g \in GPOs, AddGpo(g) PROVE WellFormed(link')
    BY <2>1, AddWellFormed DEF AddGpo
  <2>2. ASSUME NEW g \in GPOs, RemoveGpo(g) PROVE WellFormed(link')
    BY <2>2, RemoveWellFormed DEF RemoveGpo
  <2>3. ASSUME NEW g \in GPOs, MoveGpoUp(g) PROVE WellFormed(link')
    BY <2>3, MoveByOneWellFormed DEF MoveGpoUp
  <2>4. ASSUME NEW g \in GPOs, MoveGpoDown(g) PROVE WellFormed(link')
    BY <2>4, MoveByOneWellFormed DEF MoveGpoDown
  <2>5. ASSUME NEW from \in Orders, NEW to \in Orders, MoveGpo(from, to)
        PROVE  WellFormed(link')
    <3>1. from \in Nat /\ to \in Nat
      BY PrintedOrders
    <3> QED  BY <2>5, <3>1, MoveWellFormed DEF MoveGpo
  <2>6. ASSUME NEW g \in GPOs, NEW o \in GplinkOption, NEW value \in BOOLEAN,
               SetGpoOption(g, o, value)
        PROVE  WellFormed(link')
    BY <2>6, SetOptionWellFormed DEF SetGpoOption
  <2>7. CASE UNCHANGED link
    BY <2>7
  <2> QED  BY <2>1, <2>2, <2>3, <2>4, <2>5, <2>6, <2>7 DEF Next
<1> QED  BY <1>1, <1>2, PTL DEF UniqueSpec

\* What is written to the server and read back is the object itself.
THEOREM LinkRoundTrip == UniqueSpec => []RoundTrip
<1>1. WellFormed(link) => RoundTrip
  BY ParseOfString DEF RoundTrip
<1> QED  BY <1>1, LinkWellFormed, PTL

\* The list and the options name the same GPOs.
THEOREM LinkListMatchesOptions == UniqueSpec => []ListMatchesOptions
<1>1. WellFormed(link) => ListMatchesOptions
  BY DEF WellFormed, ListMatchesOptions
<1> QED  BY <1>1, LinkWellFormed, PTL
-----------------------------------------------------------------------------
(* Every method is one edit of the attribute.                              *)

\* s with e at position j.
Inserted(s, j, e) ==
    [k \in 1..(Len(s) + 1) |-> IF k < j THEN s[k] ELSE IF k = j THEN e ELSE s[k - 1]]

\* QList::insert().
LEMMA InsertAtElements ==
    ASSUME NEW T, NEW s \in Seq(T), NEW e \in T, NEW j \in 1..(Len(s) + 1)
    PROVE  InsertAt(s, j, e) = Inserted(s, j, e)
<1> DEFINE n == Len(s)
           before == SubSeq(s, 1, j - 1)
           after == SubSeq(s, j, n)
           one == <<e>>
           front == before \o one
           whole == front \o after
<1>1. n \in Nat /\ j \in Nat /\ j >= 1 /\ j <= n + 1 /\ DOMAIN s = 1..n
  OBVIOUS
<1>2. /\ before \in Seq(T) /\ Len(before) = j - 1
      /\ \A k \in 1..(j - 1) : before[k] = s[k]
  BY <1>1
<1>3. /\ after \in Seq(T) /\ Len(after) = n + 1 - j
      /\ \A k \in 1..(n + 1 - j) : after[k] = s[k + (j - 1)]
  BY <1>1
<1>4. one \in Seq(T) /\ Len(one) = 1 /\ one[1] = e
  OBVIOUS
<1> HIDE DEF before, after, one
<1>5. /\ front \in Seq(T) /\ Len(front) = Len(before) + Len(one)
      /\ \A k \in 1..(Len(before) + Len(one)) :
            front[k] = IF k <= Len(before) THEN before[k] ELSE one[k - Len(before)]
  BY <1>2, <1>4, ConcatProperties
<1>6. /\ front \in Seq(T) /\ Len(front) = j
      /\ \A k \in 1..j : front[k] = IF k < j THEN s[k] ELSE e
  <2>1. Len(front) = j
    BY <1>1, <1>2, <1>4, <1>5
  <2>2. ASSUME NEW k \in 1..j PROVE front[k] = IF k < j THEN s[k] ELSE e
    <3>1. front[k] = IF k <= j - 1 THEN before[k] ELSE one[k - (j - 1)]
      BY <1>1, <1>2, <1>4, <1>5
    <3>2. CASE k < j
      BY <1>1, <1>2, <3>1, <3>2
    <3>3. CASE k = j
      <4>1. k - (j - 1) = 1 /\ ~ (k <= j - 1)
        BY <1>1, <3>3
      <4> QED
        BY <1>4, <3>1, <3>3, <4>1
    <3>4. k < j \/ k = j
      BY <1>1
    <3> QED
      BY <3>2, <3>3, <3>4
  <2> QED
    BY <1>5, <2>1, <2>2
<1> HIDE DEF front
<1>7. /\ whole \in Seq(T) /\ Len(whole) = Len(front) + Len(after)
      /\ \A k \in 1..(Len(front) + Len(after)) :
            whole[k] = IF k <= Len(front) THEN front[k] ELSE after[k - Len(front)]
  BY <1>3, <1>6, ConcatProperties
<1>8. Len(whole) = n + 1
  BY <1>1, <1>3, <1>6, <1>7
<1>9. ASSUME NEW k \in 1..(n + 1)
      PROVE  whole[k] = IF k < j THEN s[k] ELSE IF k = j THEN e ELSE s[k - 1]
  <2>1. whole[k] = IF k <= j THEN front[k] ELSE after[k - j]
    BY <1>1, <1>3, <1>6, <1>7
  <2>2. CASE k <= j
    <3>1. k \in 1..j
      BY <1>1, <2>2
    <3> QED
      BY <1>1, <1>6, <2>1, <2>2, <3>1
  <2>3. CASE k > j
    <3>1. k - j \in 1..(n + 1 - j) /\ (k - j) + (j - 1) = k - 1
      BY <1>1, <2>3
    <3> QED
      BY <1>1, <1>3, <2>1, <2>3, <3>1
  <2>4. k <= j \/ k > j
    BY <1>1
  <2> QED
    BY <2>2, <2>3, <2>4
<1>10. InsertAt(s, j, e) = whole
  BY DEF InsertAt, before, after, one, front
<1> HIDE DEF whole
<1>11. whole = [k \in 1..(n + 1) |-> whole[k]]
  BY <1>1, <1>7, <1>8
<1> QED
  BY <1>9, <1>10, <1>11 DEF Inserted

\* QList::move() is removeAt() and insert().
LEMMA MovedItem ==
    ASSUME NEW T, NEW s \in Seq(T), NEW from \in 1..Len(s), NEW to \in 1..Len(s)
    PROVE  InsertAt(RemoveAt(s, from), to, s[from]) = MoveItem(s, from, to)
<1> DEFINE n == Len(s)
           rest == RemoveAt(s, from)
<1>1. n \in Nat /\ from \in Nat /\ to \in Nat /\ n >= 1 /\ DOMAIN s = 1..n
  OBVIOUS
<1>2. rest = [k \in 1..(n - 1) |-> s[IF k < from THEN k ELSE k + 1]]
  BY RemoveAtElements DEF Without
<1>3. \A k \in 1..(n - 1) : s[IF k < from THEN k ELSE k + 1] \in T
  BY <1>1
<1> HIDE DEF rest
<1>4. rest \in Seq(T) /\ Len(rest) = n - 1
  <2> HIDE DEF n
  <2>1. n - 1 \in Nat
    BY <1>1
  <2> QED
    BY <1>2, <1>3, <2>1
<1>5. s[from] \in T /\ to \in 1..(Len(rest) + 1)
  BY <1>1, <1>4
<1>6. InsertAt(rest, to, s[from]) = Inserted(rest, to, s[from])
  BY <1>4, <1>5, InsertAtElements
<1>7. Len(rest) + 1 = n
  BY <1>1, <1>4
<1>8. ASSUME NEW k \in 1..n
      PROVE  (IF k < to THEN rest[k] ELSE IF k = to THEN s[from] ELSE rest[k - 1])
               = MoveItem(s, from, to)[k]
  <2> HIDE DEF n
  <2>1. MoveItem(s, from, to)[k] =
            CASE k = to                  -> s[from]
              [] k \in from .. (to - 1)  -> s[k + 1]
              [] k \in (to + 1) .. from  -> s[k - 1]
              [] OTHER                   -> s[k]
    BY DEF MoveItem, n
  <2>2. CASE k = to
    BY <1>1, <2>1, <2>2
  <2>3. CASE k < to
    <3>1. k \in 1..(n - 1) /\ ~ (k \in (to + 1)..from) /\ k # to
      BY <1>1, <2>3 DEF n
    <3>2. rest[k] = s[IF k < from THEN k ELSE k + 1]
      BY <1>2, <3>1
    <3>3. k \in from..(to - 1) <=> ~ (k < from)
      BY <1>1, <2>3, <3>1
    <3> QED
      BY <2>1, <2>3, <3>1, <3>2, <3>3
  <2>4. CASE k > to
    <3>1. k - 1 \in 1..(n - 1) /\ ~ (k \in from..(to - 1)) /\ k # to /\ ~ (k < to)
      BY <1>1, <2>4 DEF n
    <3>2. rest[k - 1] = s[IF k - 1 < from THEN k - 1 ELSE (k - 1) + 1]
      BY <1>2, <3>1
    <3>3. (k \in (to + 1)..from <=> k - 1 < from) /\ (k - 1) + 1 = k
      BY <1>1, <2>4, <3>1
    <3> QED
      BY <2>1, <3>1, <3>2, <3>3
  <2>5. k = to \/ k < to \/ k > to
    BY <1>1
  <2> QED
    BY <2>2, <2>3, <2>4, <2>5
<1>9. MoveItem(s, from, to) = [k \in 1..n |-> MoveItem(s, from, to)[k]]
  BY DEF MoveItem
<1>10. InsertAt(rest, to, s[from]) = [k \in 1..n |-> MoveItem(s, from, to)[k]]
  BY <1>6, <1>7, <1>8 DEF Inserted
<1> QED
  BY <1>9, <1>10 DEF rest

\* Where the item at k of a moved list was.
Source(from, to, k) ==
    CASE k = to                  -> from
      [] k \in from .. (to - 1)  -> k + 1
      [] k \in (to + 1) .. from  -> k - 1
      [] OTHER                   -> k

LEMMA MoveSource ==
    ASSUME NEW s, NEW from, NEW to
    PROVE  MoveItem(s, from, to) = [k \in 1..Len(s) |-> s[Source(from, to, k)]]
BY DEF MoveItem, Source

\* A move seen from the other end of the list.
LEMMA MirroredSource ==
    ASSUME NEW n \in Nat, NEW from \in 1..n, NEW to \in 1..n, NEW k \in 1..n
    PROVE  /\ Source(n + 1 - from, n + 1 - to, k) \in 1..n
           /\ Source(from, to, n + 1 - k) = n + 1 - Source(n + 1 - from, n + 1 - to, k)
<1> DEFINE f == n + 1 - from
           t == n + 1 - to
           m == n + 1 - k
<1>1. f \in 1..n /\ t \in 1..n /\ m \in 1..n
  OBVIOUS
<1>2. /\ k = t <=> m = to
      /\ k \in f..(t - 1) <=> m \in (to + 1)..from
      /\ k \in (t + 1)..f <=> m \in from..(to - 1)
      /\ from = n + 1 - f /\ m - 1 = n + 1 - (k + 1) /\ m + 1 = n + 1 - (k - 1)
  OBVIOUS
<1> HIDE DEF f, t, m
<1>3. CASE k = t
  <2>1. Source(f, t, k) = f /\ Source(from, to, m) = from
    BY <1>2, <1>3 DEF Source
  <2> QED
    BY <1>1, <1>2, <2>1 DEF f, t, m
<1>4. CASE k # t /\ k \in f..(t - 1)
  <2>1. Source(f, t, k) = k + 1 /\ k + 1 \in 1..n
    BY <1>1, <1>4 DEF Source
  <2>2. m # to /\ m \in (to + 1)..from /\ ~ (m \in from..(to - 1))
    BY <1>1, <1>2, <1>4
  <2>3. Source(from, to, m) = m - 1
    BY <2>2 DEF Source
  <2> QED
    BY <1>2, <2>1, <2>3 DEF f, t, m
<1>5. CASE k # t /\ ~ (k \in f..(t - 1)) /\ k \in (t + 1)..f
  <2>1. Source(f, t, k) = k - 1 /\ k - 1 \in 1..n
    BY <1>1, <1>5 DEF Source
  <2>2. m # to /\ m \in from..(to - 1)
    BY <1>2, <1>5
  <2>3. Source(from, to, m) = m + 1
    BY <2>2 DEF Source
  <2> QED
    BY <1>2, <2>1, <2>3 DEF f, t, m
<1>6. CASE k # t /\ ~ (k \in f..(t - 1)) /\ ~ (k \in (t + 1)..f)
  <2>1. Source(f, t, k) = k
    BY <1>6 DEF Source
  <2>2. m # to /\ ~ (m \in from..(to - 1)) /\ ~ (m \in (to + 1)..from)
    BY <1>2, <1>6
  <2>3. Source(from, to, m) = m
    BY <2>2 DEF Source
  <2> QED
    BY <2>1, <2>3 DEF f, t, m
<1> QED
  BY <1>3, <1>4, <1>5, <1>6

\* The parts of a printed object, last first.
PartOf(l, g) == [gpo |-> g, option |-> l.options[g]]

Parts(l) ==
    [i \in 1..Len(l.gpo_list) |-> PartOf(l, l.gpo_list[Len(l.gpo_list) + 1 - i])]

LEMMA PrintedParts ==
    ASSUME NEW l, WellFormed(l)
    PROVE  /\ to_string(l) = Parts(l) /\ to_string(l) \in Seq(Part)
           /\ Len(to_string(l)) = Len(l.gpo_list)
           /\ Len(l.gpo_list) \in Nat /\ l.gpo_list \in Seq(GPOs)
<1> DEFINE n == Len(l.gpo_list)
           s == to_string(l)
<1>1. /\ n \in Nat /\ l.gpo_list \in Seq(GPOs) /\ DOMAIN l.gpo_list = 1..n
      /\ DOMAIN l.options = Range(l.gpo_list)
  BY DEF WellFormed
<1>2. s = [i \in 1..n |-> [gpo    |-> l.gpo_list[n + 1 - i],
                          option |-> OptionBits(l, l.gpo_list[n + 1 - i])]]
  BY DEF to_string
<1>3. ASSUME NEW i \in 1..n
      PROVE  OptionBits(l, l.gpo_list[n + 1 - i]) = l.options[l.gpo_list[n + 1 - i]]
  <2>1. n + 1 - i \in 1..n
    BY <1>1
  <2>2. l.gpo_list[n + 1 - i] \in DOMAIN l.options
    BY <1>1, <2>1 DEF Range
  <2> QED
    BY <2>2 DEF OptionBits
<1>4. s \in Seq(Part)
  BY PrintedString DEF GplinkString
<1> HIDE DEF s
<1>5. s = Parts(l)
  BY <1>2, <1>3 DEF Parts, PartOf
<1>6. Len(s) = n
  <2>1. DOMAIN s = 1..n
    BY <1>5 DEF Parts
  <2> QED
    BY <1>1, <1>4, <2>1
<1> QED
  BY <1>1, <1>4, <1>5, <1>6 DEF s

\* Moving in the list moves in the attribute, seen from its other end.
LEMMA PrintedMove ==
    ASSUME NEW l, WellFormed(l), NEW from \in 1..Len(l.gpo_list), NEW to \in 1..Len(l.gpo_list)
    PROVE  LET n == Len(l.gpo_list)
           IN  to_string(move(l, from, to))
                 = MoveItem(to_string(l), n + 1 - from, n + 1 - to)
<1> DEFINE n == Len(l.gpo_list)
           s == to_string(l)
           m == move(l, from, to)
           was(i) == Source(n + 1 - from, n + 1 - to, i)
<1>1. n \in Nat /\ from \in Nat /\ to \in Nat
  BY PrintedParts
<1>2. /\ m.gpo_list = MoveItem(l.gpo_list, from, to) /\ m.options = l.options
      /\ WellFormed(m)
  BY <1>1, MoveWellFormed DEF move, WellFormed
<1>3. m.gpo_list = [k \in 1..n |-> l.gpo_list[Source(from, to, k)]]
  BY <1>2, MoveSource
<1>4. s = Parts(l) /\ Len(s) = n
  BY PrintedParts
<1> HIDE DEF m, s
<1>5. Len(m.gpo_list) = n
  <2>1. m.gpo_list \in Seq(GPOs)
    BY <1>2 DEF WellFormed
  <2> QED
    BY <1>1, <1>3, <2>1
<1>6. to_string(m) = Parts(m)
  BY <1>2, PrintedParts
<1>7. MoveItem(s, n + 1 - from, n + 1 - to) = [i \in 1..n |-> s[was(i)]]
  BY <1>4, MoveSource
<1>8. from \in 1..n /\ to \in 1..n
  OBVIOUS
<1>9. s = [i \in 1..n |-> PartOf(l, l.gpo_list[n + 1 - i])]
  BY <1>4 DEF Parts
<1>10. Parts(m) = [i \in 1..n |-> PartOf(m, m.gpo_list[n + 1 - i])]
  BY <1>5 DEF Parts
<1> HIDE DEF n
<1>11. ASSUME NEW i \in 1..n
       PROVE  PartOf(m, m.gpo_list[n + 1 - i]) = s[was(i)]
  <2>1. was(i) \in 1..n /\ Source(from, to, n + 1 - i) = n + 1 - was(i)
    BY <1>1, <1>8, MirroredSource
  <2>2. n + 1 - i \in 1..n
    BY <1>1
  <2> HIDE DEF was
  <2>3. m.gpo_list[n + 1 - i] = l.gpo_list[n + 1 - was(i)]
    BY <1>3, <2>1, <2>2
  <2>4. s[was(i)] = PartOf(l, l.gpo_list[n + 1 - was(i)])
    BY <1>9, <2>1
  <2> QED
    BY <1>2, <2>3, <2>4 DEF PartOf
<1> HIDE DEF was
<1>12. to_string(m) = MoveItem(s, n + 1 - from, n + 1 - to)
  BY <1>6, <1>7, <1>10, <1>11
<1> QED
  BY <1>12 DEF m, s, n

\* A new link is printed first.
LEMMA PrintedAdd ==
    ASSUME NEW l, WellFormed(l), NEW g \in GPOs, ~contains(l, g)
    PROVE  to_string(add(l, g)) = <<[gpo |-> g, option |-> {}]>> \o to_string(l)
<1> DEFINE n == Len(l.gpo_list)
           s == to_string(l)
           m == add(l, g)
           new == [gpo |-> g, option |-> {}]
           one == <<new>>
           both == one \o s
<1>1. n \in Nat /\ l.gpo_list \in Seq(GPOs) /\ s \in Seq(Part) /\ Len(s) = n
  BY PrintedParts
<1>2. /\ m.gpo_list = Append(l.gpo_list, g)
      /\ m.options = [h \in DOMAIN l.options \cup {g} |-> IF h = g THEN {} ELSE l.options[h]]
      /\ WellFormed(m)
  BY AddWellFormed DEF add
<1>3. s = [i \in 1..n |-> PartOf(l, l.gpo_list[n + 1 - i])]
  BY PrintedParts DEF Parts
<1> HIDE DEF m, s
<1>4. /\ Len(m.gpo_list) = n + 1 /\ m.gpo_list[n + 1] = g
      /\ \A i \in 1..n : m.gpo_list[i] = l.gpo_list[i]
  BY <1>1, <1>2
<1>5. to_string(m) = [i \in 1..(n + 1) |-> PartOf(m, m.gpo_list[(n + 1) + 1 - i])]
  <2>1. to_string(m) = Parts(m)
    BY <1>2, PrintedParts
  <2> QED
    BY <1>4, <2>1 DEF Parts
<1>6. \A i \in 1..n : l.gpo_list[i] \in DOMAIN l.options /\ l.gpo_list[i] # g
  BY <1>1 DEF WellFormed, Range, contains
<1>7. one \in Seq(Part) /\ Len(one) = 1 /\ one[1] = new
  BY DEF Part
<1> HIDE DEF one, n
<1>8. one \in Seq(Part) /\ s \in Seq(Part)
  BY <1>1, <1>7
<1>9. /\ both \in Seq(Part) /\ Len(both) = Len(one) + Len(s)
      /\ \A i \in 1..(Len(one) + Len(s)) :
            both[i] = IF i <= Len(one) THEN one[i] ELSE s[i - Len(one)]
  BY <1>8, ConcatProperties
<1> HIDE DEF both, new
<1>10. /\ Len(both) = n + 1
       /\ \A i \in 1..(n + 1) : both[i] = IF i <= 1 THEN one[i] ELSE s[i - 1]
  <2>1. Len(one) + Len(s) = n + 1 /\ Len(one) = 1
    BY <1>1, <1>7
  <2> QED
    BY <1>9, <2>1
<1>11. both = [i \in 1..(n + 1) |-> both[i]]
  BY <1>1, <1>9, <1>10
<1>12. ASSUME NEW i \in 1..(n + 1)
       PROVE  PartOf(m, m.gpo_list[(n + 1) + 1 - i]) = both[i]
  <2>1. CASE i = 1
    <3>1. (n + 1) + 1 - i = n + 1 /\ i <= 1
      BY <1>1, <2>1
    <3>2. m.options[g] = {}
      BY <1>2
    <3>3. both[i] = new
      BY <1>7, <1>10, <2>1, <3>1
    <3> QED
      BY <1>4, <3>1, <3>2, <3>3 DEF new, PartOf
  <2>2. CASE i > 1
    <3>1. /\ i - 1 \in 1..n /\ n + 1 - (i - 1) \in 1..n /\ ~ (i <= 1)
          /\ (n + 1) + 1 - i = n + 1 - (i - 1)
      BY <1>1, <2>2
    <3> DEFINE h == l.gpo_list[n + 1 - (i - 1)]
    <3>2. m.gpo_list[(n + 1) + 1 - i] = h
      BY <1>4, <3>1
    <3>3. m.options[h] = l.options[h]
      BY <1>2, <1>6, <3>1
    <3>4. both[i] = s[i - 1]
      BY <1>10, <3>1
    <3>5. s[i - 1] = PartOf(l, h)
      BY <1>3, <3>1
    <3> HIDE DEF h
    <3> QED
      BY <3>2, <3>3, <3>4, <3>5 DEF PartOf
  <2>3. i = 1 \/ i > 1
    BY <1>1
  <2> QED
    BY <2>1, <2>2, <2>3
<1>13. to_string(m) = both
  BY <1>5, <1>11, <1>12
<1> QED
  BY <1>13 DEF m, both, one, new, s

\* An option is printed in the part of its GPO.
LEMMA PrintedOption ==
    ASSUME NEW l, WellFormed(l), NEW g \in GPOs, contains(l, g),
           NEW o \in GplinkOption, NEW value \in BOOLEAN
    PROVE  LET s == to_string(l)
           IN  /\ \E i \in DOMAIN s : s[i].gpo = g
               /\ to_string(set_option(l, g, o, value)) =
                    [i \in DOMAIN s |->
                        IF s[i].gpo # g THEN s[i]
                        ELSE [gpo    |-> g,
                              option |-> IF value THEN s[i].option \cup {o}
                                         ELSE s[i].option \ {o}]]
<1> DEFINE n == Len(l.gpo_list)
           s == to_string(l)
           m == set_option(l, g, o, value)
           bits == IF value THEN l.options[g] \cup {o} ELSE l.options[g] \ {o}
<1>1. n \in Nat /\ DOMAIN s = 1..n /\ s = [i \in 1..n |-> PartOf(l, l.gpo_list[n + 1 - i])]
  BY PrintedParts DEF Parts
<1>2. /\ m.gpo_list = l.gpo_list
      /\ m.options = [l.options EXCEPT ![g] = bits]
      /\ WellFormed(m)
  BY SetOptionWellFormed DEF set_option, WellFormed
<1>3. g \in DOMAIN l.options
  BY DEF contains
<1> HIDE DEF m, s
<1>4. to_string(m) = [i \in 1..n |-> PartOf(m, l.gpo_list[n + 1 - i])]
  BY <1>2, PrintedParts DEF Parts
<1>5. /\ PartOf(m, g) = [gpo |-> g, option |-> bits]
      /\ \A h \in DOMAIN l.options : h # g => PartOf(m, h) = PartOf(l, h)
  BY <1>2, <1>3 DEF PartOf
<1>6. PartOf(l, g).option = l.options[g] /\ \A h : PartOf(l, h).gpo = h
  BY DEF PartOf
<1>7. \A i \in 1..n : n + 1 - i \in 1..n /\ l.gpo_list[n + 1 - i] \in DOMAIN l.options
  BY <1>1 DEF WellFormed, Range
<1>8. PICK k \in 1..n : l.gpo_list[k] = g
  BY <1>3 DEF WellFormed, Range
<1>9. \E i \in DOMAIN s : s[i].gpo = g
  <2>1. n + 1 - k \in 1..n /\ n + 1 - (n + 1 - k) = k
    BY <1>1
  <2>2. s[n + 1 - k] = PartOf(l, g)
    BY <1>1, <1>8, <2>1
  <2> QED
    BY <1>1, <1>6, <2>1, <2>2
<1> HIDE DEF n
<1>10. ASSUME NEW i \in 1..n
       PROVE  PartOf(m, l.gpo_list[n + 1 - i]) =
                IF s[i].gpo # g THEN s[i]
                ELSE [gpo    |-> g,
                      option |-> IF value THEN s[i].option \cup {o} ELSE s[i].option \ {o}]
  <2> DEFINE h == l.gpo_list[n + 1 - i]
  <2>1. s[i] = PartOf(l, h) /\ h \in DOMAIN l.options
    BY <1>1, <1>7
  <2> HIDE DEF h
  <2>2. CASE h = g
    BY <1>5, <1>6, <2>1, <2>2 DEF h
  <2>3. CASE h # g
    BY <1>5, <1>6, <2>1, <2>3 DEF h
  <2> QED
    BY <2>2, <2>3
<1>11. to_string(m) =
         [i \in DOMAIN s |->
            IF s[i].gpo # g THEN s[i]
            ELSE [gpo    |-> g,
                  option |-> IF value THEN s[i].option \cup {o} ELSE s[i].option \ {o}]]
  BY <1>1, <1>4, <1>10
<1> QED
  BY <1>9, <1>11 DEF m, s

\* A removed link takes its part with it; the others stay in order.
LEMMA PrintedRemove ==
    ASSUME NEW l, WellFormed(l), NEW g \in GPOs, contains(l, g)
    PROVE  LET s == to_string(l)
           IN  /\ \E i \in DOMAIN s : s[i].gpo = g
               /\ \E size \in 0..Len(s) :
                  \E kept \in [1..size -> {i \in DOMAIN s : s[i].gpo # g}] :
                    /\ \A i, j \in 1..size : i < j => kept[i] < kept[j]
                    /\ \A i \in DOMAIN s : s[i].gpo # g => \E j \in 1..size : kept[j] = i
                    /\ to_string(remove(l, g)) = [i \in 1..size |-> s[kept[i]]]
<1> DEFINE n == Len(l.gpo_list)
           s == to_string(l)
           m == remove(l, g)
<1>1. /\ n \in Nat /\ DOMAIN s = 1..n /\ Len(s) = n
      /\ s = [i \in 1..n |-> PartOf(l, l.gpo_list[n + 1 - i])]
  BY PrintedParts DEF Parts
<1>2. /\ WellFormed(m)
      /\ m.options = [h \in DOMAIN l.options \ {g} |-> l.options[h]]
  BY RemoveWellFormed DEF remove
<1>3. PICK k \in 1..n : /\ \A i \in 1..n : l.gpo_list[i] = g <=> i = k
                       /\ m.gpo_list = Without(l.gpo_list, k)
  BY RemovedOnce
<1>4. \A i \in 1..n : l.gpo_list[i] \in DOMAIN l.options
  BY DEF WellFormed, Range
<1> HIDE DEF m, s
<1>5. m.gpo_list = [i \in 1..(n - 1) |-> l.gpo_list[IF i < k THEN i ELSE i + 1]]
  BY <1>3 DEF Without
<1>6. n - 1 \in Nat /\ k \in Nat /\ k >= 1 /\ k <= n
  BY <1>1
<1>7. Len(m.gpo_list) = n - 1
  <2>1. m.gpo_list \in Seq(GPOs)
    BY <1>2 DEF WellFormed
  <2> QED
    BY <1>5, <1>6, <2>1
<1>8. to_string(m) = [i \in 1..(n - 1) |-> PartOf(m, m.gpo_list[(n - 1) + 1 - i])]
  <2>1. to_string(m) = Parts(m)
    BY <1>2, PrintedParts
  <2> QED
    BY <1>7, <2>1 DEF Parts
<1> HIDE DEF n
<1> DEFINE at == n + 1 - k
           keep(i) == IF i < at THEN i ELSE i + 1
           kept == [i \in 1..(n - 1) |-> keep(i)]
<1>9. at \in 1..n /\ n + 1 - at = k
  BY <1>1, <1>6
<1>10. ASSUME NEW i \in 1..n
       PROVE  n + 1 - i \in 1..n /\ (s[i].gpo = g <=> i = at)
  <2>1. n + 1 - i \in 1..n /\ (n + 1 - i = k <=> i = at)
    BY <1>1, <1>6
  <2>2. s[i].gpo = l.gpo_list[n + 1 - i]
    BY <1>1 DEF PartOf
  <2> QED
    BY <1>3, <2>1, <2>2
<1>11. \E i \in DOMAIN s : s[i].gpo = g
  BY <1>1, <1>9, <1>10
<1>12. ASSUME NEW i \in 1..(n - 1)
       PROVE  /\ keep(i) \in 1..n /\ keep(i) # at
              /\ (n - 1) + 1 - i \in 1..(n - 1)
              /\ LET j == (n - 1) + 1 - i
                 IN  (IF j < k THEN j ELSE j + 1) = n + 1 - keep(i)
  BY <1>1, <1>6
<1>13. \A i, j \in 1..(n - 1) : i < j => keep(i) < keep(j)
  BY <1>1, <1>9
<1>14. ASSUME NEW i \in 1..n, i # at
       PROVE  \E j \in 1..(n - 1) : keep(j) = i
  <2>1. CASE i < at
    <3>1. i \in 1..(n - 1) /\ keep(i) = i
      BY <1>1, <1>9, <2>1
    <3> QED
      BY <3>1
  <2>2. CASE i > at
    <3>1. i - 1 \in 1..(n - 1) /\ keep(i - 1) = i
      BY <1>1, <1>9, <2>2
    <3> QED
      BY <3>1
  <2>3. i < at \/ i > at
    BY <1>1, <1>9, <1>14
  <2> QED
    BY <2>1, <2>2, <2>3
<1> HIDE DEF at, keep
<1>15. ASSUME NEW i \in 1..(n - 1)
       PROVE  PartOf(m, m.gpo_list[(n - 1) + 1 - i]) = s[keep(i)]
  <2> DEFINE h == l.gpo_list[n + 1 - keep(i)]
  <2>1. m.gpo_list[(n - 1) + 1 - i] = h
    BY <1>5, <1>12
  <2>2. /\ s[keep(i)] = PartOf(l, h)
        /\ n + 1 - keep(i) \in 1..n /\ s[keep(i)].gpo # g
    BY <1>1, <1>10, <1>12
  <2>3. h # g /\ h \in DOMAIN l.options
    BY <1>4, <2>2 DEF PartOf, n
  <2> HIDE DEF h
  <2> QED
    BY <1>2, <2>1, <2>2, <2>3 DEF PartOf
<1>16. kept \in [1..(n - 1) -> {i \in DOMAIN s : s[i].gpo # g}]
  BY <1>1, <1>10, <1>12
<1>17. \A i \in 1..(n - 1) : kept[i] = keep(i)
  OBVIOUS
<1> HIDE DEF kept
<1>18. /\ \A i, j \in 1..(n - 1) : i < j => kept[i] < kept[j]
       /\ \A i \in DOMAIN s : s[i].gpo # g => \E j \in 1..(n - 1) : kept[j] = i
  BY <1>1, <1>10, <1>13, <1>14, <1>17
<1>19. to_string(m) = [i \in 1..(n - 1) |-> s[kept[i]]]
  BY <1>8, <1>15, <1>17
<1>20. n - 1 \in 0..Len(s)
  BY <1>1, <1>6
<1> QED
  BY <1>11, <1>16, <1>18, <1>19, <1>20 DEF m, s

\* A move within the list takes one part of the attribute to another place;
\* orders out of range change nothing.
LEMMA MovedAttribute ==
    ASSUME NEW l, WellFormed(l), NEW from \in Nat, NEW to \in Nat
    PROVE  LET s == to_string(l)
               i == Len(s) + 1 - from
               j == Len(s) + 1 - to
           IN  to_string(move(l, from, to)) =
                   IF {from, to} \subseteq DOMAIN s
                   THEN InsertAt(RemoveAt(s, i), j, s[i]) ELSE s
<1> DEFINE n == Len(l.gpo_list)
           s == to_string(l)
<1>1. n \in Nat /\ s \in Seq(Part) /\ Len(s) = n /\ DOMAIN s = 1..n
  BY PrintedParts
<1>2. CASE ~ ({from, to} \subseteq 1..n)
  BY <1>1, <1>2 DEF move
<1>3. CASE {from, to} \subseteq 1..n
  <2>1. from \in 1..n /\ to \in 1..n
    BY <1>3
  <2>2. to_string(move(l, from, to)) = MoveItem(s, n + 1 - from, n + 1 - to)
    BY <2>1, PrintedMove
  <2> HIDE DEF s, n
  <2>3. n + 1 - from \in 1..Len(s) /\ n + 1 - to \in 1..Len(s)
    BY <1>1, <2>1
  <2>4. MoveItem(s, n + 1 - from, n + 1 - to)
          = InsertAt(RemoveAt(s, n + 1 - from), n + 1 - to, s[n + 1 - from])
    BY <1>1, <2>3, MovedItem
  <2> QED
    BY <1>1, <1>3, <2>2, <2>4 DEF s
<1> QED
  BY <1>2, <1>3

\* Moving by one place is trading places.
LEMMA MovedByOne ==
    ASSUME NEW T, NEW s \in Seq(T), NEW i \in 1..Len(s), NEW j \in 1..Len(s),
           j = i + 1 \/ j = i - 1
    PROVE  MoveItem(s, i, j) = [s EXCEPT ![i] = s[j], ![j] = s[i]]
<1> DEFINE n == Len(s)
           swapped == [s EXCEPT ![i] = s[j], ![j] = s[i]]
<1>1. n \in Nat /\ DOMAIN s = 1..n /\ i \in 1..n /\ j \in 1..n /\ i # j
  OBVIOUS
<1>2. swapped = [k \in 1..n |-> IF k = j THEN s[i] ELSE IF k = i THEN s[j] ELSE s[k]]
  BY <1>1
<1>3. MoveItem(s, i, j) = [k \in 1..n |-> s[Source(i, j, k)]]
  BY MoveSource
<1> HIDE DEF n
<1>4. ASSUME NEW k \in 1..n
      PROVE  Source(i, j, k) = IF k = j THEN i ELSE IF k = i THEN j ELSE k
  <2>1. CASE k = j
    BY <2>1 DEF Source
  <2>2. CASE k # j /\ j = i + 1
    <3>1. /\ k \in i..(j - 1) <=> k = i
          /\ ~ (k \in (j + 1)..i)
      BY <1>1, <2>2
    <3> QED
      BY <1>1, <2>2, <3>1 DEF Source
  <2>3. CASE k # j /\ j = i - 1
    <3>1. /\ ~ (k \in i..(j - 1))
          /\ k \in (j + 1)..i <=> k = i
      BY <1>1, <2>3
    <3> QED
      BY <1>1, <2>3, <3>1 DEF Source
  <2> QED
    BY <2>1, <2>2, <2>3
<1>5. ASSUME NEW k \in 1..n
      PROVE  s[Source(i, j, k)] = IF k = j THEN s[i] ELSE IF k = i THEN s[j] ELSE s[k]
  BY <1>4, <1>5
<1> QED
  BY <1>2, <1>3, <1>5

\* The order of a linked GPO, counted from the end, is its place in the
\* attribute.
LEMMA PlaceOfOrder ==
    ASSUME WellFormed(link), NEW g \in GPOs
    PROVE  LET n == Len(link.gpo_list)
               at == get_gpo_order(link, g)
           IN  /\ g \in Attr!Linked <=> contains(link, g)
               /\ contains(link, g) => at \in 1..n /\ Attr!PlaceOf(g) = n + 1 - at
<1> DEFINE n == Len(link.gpo_list)
           at == get_gpo_order(link, g)
           s == to_string(link)
           where == {i \in DOMAIN link.gpo_list : link.gpo_list[i] = g}
<1>1. /\ n \in Nat /\ DOMAIN link.gpo_list = 1..n
      /\ s = [i \in 1..n |-> PartOf(link, link.gpo_list[n + 1 - i])]
  <2>1. s = Parts(link) /\ n \in Nat /\ link.gpo_list \in Seq(GPOs)
    BY PrintedParts
  <2> QED
    BY <2>1 DEF Parts
<1>2. g \in Attr!Linked <=> contains(link, g)
  BY PrintedString DEF Attr!Linked, Named, contains
<1>3. ASSUME contains(link, g)
      PROVE  at \in 1..n /\ Attr!PlaceOf(g) = n + 1 - at
  <2>1. PICK k \in 1..n : link.gpo_list[k] = g
    <3>1. DOMAIN link.options = Range(link.gpo_list)
      BY DEF WellFormed
    <3> QED
      BY <1>1, <1>3, <3>1 DEF contains, Range
  <2>2. \A i \in 1..n : link.gpo_list[i] = g <=> i = k
    BY <1>1, <2>1 DEF WellFormed
  <2>3. where = {k}
    BY <1>1, <2>1, <2>2
  <2>4. at = k
    BY <2>3 DEF get_gpo_order
  <2> HIDE DEF s, n
  <2>5. \A i \in 1..n : s[i].gpo = g <=> i = n + 1 - k
    <3>1. ASSUME NEW i \in 1..n PROVE s[i].gpo = g <=> i = n + 1 - k
      <4>1. s[i].gpo = link.gpo_list[n + 1 - i]
        BY <1>1 DEF PartOf
      <4>2. n + 1 - i \in 1..n /\ (n + 1 - i = k <=> i = n + 1 - k)
        BY <1>1, <2>1
      <4> QED
        BY <2>2, <4>1, <4>2
    <3> QED
      BY <3>1
  <2>6. n + 1 - k \in 1..n /\ DOMAIN s = 1..n
    BY <1>1, <2>1
  <2>7. Attr!PlaceOf(g) =
          CHOOSE i \in DOMAIN s : s[i].gpo = g /\ \A j \in DOMAIN s : s[j].gpo = g => j <= i
    BY DEF Attr!PlaceOf, s
  <2>8. ASSUME NEW i \in DOMAIN s
        PROVE  (s[i].gpo = g /\ \A j \in DOMAIN s : s[j].gpo = g => j <= i)
                 <=> i = n + 1 - k
    <3>1. i = n + 1 - k => i <= i
      BY <1>1, <2>6
    <3> QED
      BY <2>5, <2>6, <3>1
  <2>9. Attr!PlaceOf(g) = n + 1 - k
    BY <2>6, <2>7, <2>8
  <2> QED
    BY <2>1, <2>4, <2>9
<1> QED
  BY <1>2, <1>3

\* The attribute after a call of move().
LEMMA ReorderStep ==
    ASSUME WellFormed(link), NEW from \in Nat, NEW to \in Nat,
           link' = move(link, from, to)
    PROVE  Attr!Reorder(from, to)
<1> DEFINE s == to_string(link)
<1>1. to_string(link)' = to_string(link')
  BY DEF to_string, OptionBits
<1>2. \A t, i, j, e : /\ Attr!InsertAt(t, j, e) = InsertAt(t, j, e)
                      /\ Attr!RemoveAt(t, i) = RemoveAt(t, i)
  BY DEF InsertAt, RemoveAt, Attr!InsertAt, Attr!RemoveAt
<1>3. to_string(link)' =
          IF {from, to} \subseteq DOMAIN s
          THEN InsertAt(RemoveAt(s, Len(s) + 1 - from), Len(s) + 1 - to, s[Len(s) + 1 - from])
          ELSE s
  BY <1>1, MovedAttribute
<1> HIDE DEF s
<1> QED
  BY <1>2, <1>3 DEF Attr!Reorder, s

\* What Raise and Lower ask of move_up() and move_down().
LEMMA SwapStep ==
    ASSUME WellFormed(link), NEW at \in 1..Len(link.gpo_list),
           NEW new \in 1..Len(link.gpo_list), new = at - 1 \/ new = at + 1,
           link' = move(link, at, new)
    PROVE  LET n == Len(link.gpo_list)
           IN  Attr!Swap(n + 1 - at, n + 1 - new)
<1> DEFINE n == Len(link.gpo_list)
           s == to_string(link)
           i == n + 1 - at
           j == n + 1 - new
<1>1. to_string(link)' = to_string(link')
  BY DEF to_string, OptionBits
<1>2. n \in Nat /\ s \in Seq(Part) /\ Len(s) = n
  BY PrintedParts
<1>3. to_string(link)' = MoveItem(s, i, j)
  BY <1>1, PrintedMove
<1> HIDE DEF s
<1>4. i \in 1..Len(s) /\ j \in 1..Len(s) /\ (j = i + 1 \/ j = i - 1)
  <2> HIDE DEF n
  <2>1. at \in 1..n /\ new \in 1..n
    BY DEF n
  <2> QED
    BY <1>2, <2>1
<1>5. MoveItem(s, i, j) = [s EXCEPT ![i] = s[j], ![j] = s[i]]
  <2> HIDE DEF i, j
  <2> QED
    BY <1>2, <1>4, MovedByOne
<1> QED
  BY <1>3, <1>5 DEF Attr!Swap, s

LEMMA RaiseStep ==
    ASSUME WellFormed(link), NEW g \in GPOs, link' = move_up(link, g)
    PROVE  Attr!Raise(g)
<1> DEFINE n == Len(link.gpo_list)
           at == get_gpo_order(link, g)
<1>1. /\ to_string(link)' = to_string(link')
      /\ n \in Nat /\ Len(to_string(link)) = n
  BY PrintedParts DEF to_string, OptionBits
<1>2. /\ g \in Attr!Linked <=> contains(link, g)
      /\ contains(link, g) => at \in 1..n /\ Attr!PlaceOf(g) = n + 1 - at
  BY PlaceOfOrder
<1>3. CASE contains(link, g) /\ at > 1
  <2>1. link' = move(link, at, at - 1)
    BY <1>3 DEF move_up
  <2>2. at \in 1..n /\ at - 1 \in 1..n
    <3> HIDE DEF at, n
    <3> QED
      BY <1>1, <1>2, <1>3
  <2>3. Attr!Swap(n + 1 - at, n + 1 - (at - 1))
    <3> HIDE DEF at
    <3> QED
      BY <2>1, <2>2, SwapStep
  <2>4. /\ Attr!PlaceOf(g) = n + 1 - at /\ Attr!PlaceOf(g) + 1 = n + 1 - (at - 1)
        /\ Attr!PlaceOf(g) < n
    <3> HIDE DEF at, n
    <3> QED
      BY <1>1, <1>2, <1>3, <2>2
  <2>5. Attr!Swap(Attr!PlaceOf(g), Attr!PlaceOf(g) + 1)
    BY <2>3, <2>4
  <2> QED
    BY <1>1, <1>2, <1>3, <2>4, <2>5 DEF Attr!Raise
<1>4. CASE ~ (contains(link, g) /\ at > 1)
  <2>1. link' = link
    BY <1>4 DEF move_up
  <2>2. ~ (g \in Attr!Linked /\ Attr!PlaceOf(g) < n)
    <3> HIDE DEF at, n
    <3> QED
      BY <1>1, <1>2, <1>4
  <2> QED
    BY <1>1, <2>1, <2>2 DEF Attr!Raise
<1> QED
  BY <1>3, <1>4

LEMMA LowerStep ==
    ASSUME WellFormed(link), NEW g \in GPOs, link' = move_down(link, g)
    PROVE  Attr!Lower(g)
<1> DEFINE n == Len(link.gpo_list)
           at == get_gpo_order(link, g)
<1>1. /\ to_string(link)' = to_string(link')
      /\ n \in Nat /\ Len(to_string(link)) = n
  BY PrintedParts DEF to_string, OptionBits
<1>2. /\ g \in Attr!Linked <=> contains(link, g)
      /\ contains(link, g) => at \in 1..n /\ Attr!PlaceOf(g) = n + 1 - at
  BY PlaceOfOrder
<1>3. CASE contains(link, g) /\ at < n
  <2>1. link' = move(link, at, at + 1)
    BY <1>3 DEF move_down
  <2>2. at \in 1..n /\ at + 1 \in 1..n
    <3> HIDE DEF at, n
    <3> QED
      BY <1>1, <1>2, <1>3
  <2>3. Attr!Swap(n + 1 - at, n + 1 - (at + 1))
    <3> HIDE DEF at
    <3> QED
      BY <2>1, <2>2, SwapStep
  <2>4. /\ Attr!PlaceOf(g) = n + 1 - at /\ Attr!PlaceOf(g) - 1 = n + 1 - (at + 1)
        /\ Attr!PlaceOf(g) > 1
    <3> HIDE DEF at, n
    <3> QED
      BY <1>1, <1>2, <1>3, <2>2
  <2>5. Attr!Swap(Attr!PlaceOf(g), Attr!PlaceOf(g) - 1)
    BY <2>3, <2>4
  <2> QED
    BY <1>2, <1>3, <2>4, <2>5 DEF Attr!Lower
<1>4. CASE ~ (contains(link, g) /\ at < n)
  <2>1. link' = link
    BY <1>4 DEF move_down
  <2>2. ~ (g \in Attr!Linked /\ Attr!PlaceOf(g) > 1)
    <3> HIDE DEF at, n
    <3> QED
      BY <1>1, <1>2, <1>4
  <2> QED
    BY <1>1, <2>1, <2>2 DEF Attr!Lower
<1> QED
  BY <1>3, <1>4

LEMMA LinkStep ==
    ASSUME WellFormed(link), NEW g \in GPOs, link' = add(link, g)
    PROVE  Attr!Link(g)
<1>1. to_string(link)' = to_string(link')
  BY DEF to_string, OptionBits
<1>2. g \in Attr!Linked <=> contains(link, g)
  BY PlaceOfOrder
<1>3. CASE contains(link, g)
  BY <1>1, <1>2, <1>3 DEF add, Attr!Link
<1>4. CASE ~contains(link, g)
  BY <1>1, <1>2, <1>4, PrintedAdd DEF Attr!Link
<1> QED
  BY <1>3, <1>4

LEMMA UnlinkStep ==
    ASSUME WellFormed(link), NEW g \in GPOs, link' = remove(link, g)
    PROVE  Attr!Unlink(g)
<1> DEFINE s == to_string(link)
           others == {i \in DOMAIN s : s[i].gpo # g}
<1>1. to_string(link)' = to_string(link')
  BY DEF to_string, OptionBits
<1>2. CASE contains(link, g)
  BY <1>1, <1>2, PrintedRemove, SMTT(30) DEF Attr!Unlink
<1>3. CASE ~contains(link, g)
  <2> DEFINE n == Len(s)
             all == [i \in 1..n |-> i]
  <2>1. to_string(link)' = s
    BY <1>1, <1>3 DEF remove
  <2>2. s \in Seq(Part)
    BY PrintedParts
  <2>3. g \notin Named(s)
    BY <1>3, PlaceOfOrder DEF Attr!Linked, Named
  <2> HIDE DEF s
  <2>4. n \in 0..n /\ DOMAIN s = 1..n /\ s = [i \in 1..n |-> s[i]]
    BY <2>2
  <2>5. others = 1..n
    BY <2>3, <2>4 DEF Named
  <2>6. /\ all \in [1..n -> others]
        /\ \A i, j \in 1..n : i < j => all[i] < all[j]
        /\ \A i \in DOMAIN s : s[i].gpo # g => \E j \in 1..n : all[j] = i
        /\ s = [i \in 1..n |-> s[all[i]]]
    BY <2>4, <2>5
  <2> HIDE DEF all
  <2>7. \E size \in 0..Len(s) : \E kept \in [1..size -> others] :
          /\ \A i, j \in 1..size : i < j => kept[i] < kept[j]
          /\ \A i \in DOMAIN s : s[i].gpo # g => \E j \in 1..size : kept[j] = i
          /\ to_string(link)' = [i \in 1..size |-> s[kept[i]]]
    BY <2>1, <2>4, <2>6
  <2> QED
    BY <2>7 DEF Attr!Unlink, s
<1> QED
  BY <1>2, <1>3

LEMMA OptionStep ==
    ASSUME WellFormed(link), NEW g \in GPOs, NEW o \in GplinkOption,
           NEW value \in BOOLEAN, link' = set_option(link, g, o, value)
    PROVE  Attr!SetOption(g, o, value)
<1> DEFINE s == to_string(link)
<1>1. to_string(link)' = to_string(link')
  BY DEF to_string, OptionBits
<1>2. CASE contains(link, g)
  BY <1>1, <1>2, PrintedOption DEF Attr!SetOption
<1>3. CASE ~contains(link, g)
  <2>1. to_string(link)' = s
    BY <1>1, <1>3 DEF set_option
  <2>2. s \in Seq(Part)
    BY PrintedParts
  <2>3. g \notin Named(s)
    BY <1>3, PlaceOfOrder DEF Attr!Linked, Named
  <2> HIDE DEF s
  <2>4. s = [i \in DOMAIN s |-> s[i]] /\ \A i \in DOMAIN s : s[i].gpo # g
    BY <2>2, <2>3 DEF Named
  <2> QED
    BY <2>1, <2>4 DEF Attr!SetOption, s
<1> QED
  BY <1>2, <1>3

\* Every method call is the edit of the printed attribute that its name says:
\* add() puts a link first, remove() takes out one GPO's part, move_up() and
\* move_down() trade places with the next link above and below, move() gives
\* one link another order, set_option() changes one option of one link.
THEOREM LinkEditsAttribute == UniqueSpec => EditsAttribute
<1> DEFINE Edits ==
        /\ \A g \in GPOs :
            /\ AddGpo(g)      => Attr!Link(g)
            /\ RemoveGpo(g)   => Attr!Unlink(g)
            /\ MoveGpoUp(g)   => Attr!Raise(g)
            /\ MoveGpoDown(g) => Attr!Lower(g)
        /\ \A from, to \in Orders : MoveGpo(from, to) => Attr!Reorder(from, to)
        /\ \A g \in GPOs, o \in GplinkOption, value \in BOOLEAN :
            SetGpoOption(g, o, value) => Attr!SetOption(g, o, value)
<1>1. UniqueSpec => []WellFormed(link)
  BY LinkWellFormed
<1>2. WellFormed(link) /\ [Next]_link => [Edits]_link
  <2> SUFFICES ASSUME WellFormed(link)
               PROVE  Edits
    OBVIOUS
  <2>1. \A g \in GPOs : /\ AddGpo(g)      => Attr!Link(g)
                        /\ RemoveGpo(g)   => Attr!Unlink(g)
                        /\ MoveGpoUp(g)   => Attr!Raise(g)
                        /\ MoveGpoDown(g) => Attr!Lower(g)
    BY LinkStep, UnlinkStep, RaiseStep, LowerStep
    DEF AddGpo, RemoveGpo, MoveGpoUp, MoveGpoDown
  <2>2. ASSUME NEW from \in Orders, NEW to \in Orders, MoveGpo(from, to)
        PROVE  Attr!Reorder(from, to)
    <3>1. from \in Nat /\ to \in Nat
      BY PrintedOrders
    <3> QED
      BY <2>2, <3>1, ReorderStep DEF MoveGpo
  <2>3. \A g \in GPOs, o \in GplinkOption, value \in BOOLEAN :
            SetGpoOption(g, o, value) => Attr!SetOption(g, o, value)
    BY OptionStep DEF SetGpoOption
  <2> QED
    BY <2>1, <2>2, <2>3
<1> HIDE DEF Edits
<1>3. UniqueSpec => [][Edits]_link
  BY <1>1, <1>2, PTL DEF UniqueSpec
<1> QED
  BY <1>3 DEF EditsAttribute, Edits
=============================================================================
