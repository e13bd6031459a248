---------------------- MODULE PropertiesDialog_proofs ----------------------
(***************************************************************************)
(* For any class, texts, groups and trustees, any faults and any number of *)
(* changes in the dialog and by others:                                    *)
(*   what differs from what was loaded is on the list and can be applied,  *)
(*   options are in conflict only if they were loaded so, and what was     *)
(*   changed in the attributes tab is never applied together with what was *)
(*   changed in others;                                                    *)
(*   every edit shows values of its kind and is on the list once at most;  *)
(*   if no read fails, applies write to the parts of the object that the   *)
(*   edits on the list stand for only, and leave there what they show.     *)
(*                                                                         *)
(* The first three do not depend on what an apply does to the object, so   *)
(* that its outcomes stay unexpanded in their part (Sound).  For the rest, *)
(* ApplyChanges says of the apply of one edit which parts of the object it *)
(* may write to and what they are like if it succeeded, ApplyAllOutcome of *)
(* that of a list.                                                         *)
(***************************************************************************)
EXTENDS PropertiesDialog, WellFoundedInduction, TLAPS

Fields ==
    {"open", "advanced", "tab", "warning", "going", "shown", "loaded", "apply_list",
     "buttons", "read_only", "previous_sd", "undiscarded"}

IsDialog(d) == d = [f \in Fields |-> d[f]]

\* Every edit shows something and the list is one of edits.
Shows(d) ==
    /\ d.shown = [e \in EditList(d) |-> d.shown[e]]
    /\ d.apply_list \in Seq(EditList(d))

Pending(d) ==
    /\ \A o \in d.loaded : \A e \in EditList(d) :
          d.shown[e] # Load(e, o) => OnList(d, e)
    /\ d.buttons = (d.apply_list # << >>)

Conflicts(d) ==
    class = "user" =>
        \A e \in {"dont_expire", "cant_change"} :
            d.shown["expired"] /\ d.shown[e] =>
                \A o \in d.loaded : o.expired /\ Load(e, o)

\* The list is the attributes tab's or has nothing of it.
Alone(d) ==
    ~d.undiscarded =>
        /\ OnList(d, "attributes") =>
              d.apply_list = <<"attributes">> /\ d.tab = "Attributes"
        /\ d.tab = "Attributes" /\ d.apply_list # << >> => OnList(d, "attributes")

\* The other tabs and the questions are those of the advanced view, and the
\* question about the entries is asked on the security tab.
Questions(d) ==
    /\ d.tab # "Other" \/ d.warning # "none" => d.advanced
    /\ d.warning = "security" => d.tab = "Security"

Sound(d) ==
    /\ IsDialog(d)
    /\ \/ d = Closed
       \/ d.open /\ Shows(d) /\ Pending(d) /\ Conflicts(d) /\ Alone(d) /\ Questions(d)

-----------------------------------------------------------------------------
LEMMA ClosedShape == IsDialog(Closed) /\ ~Closed.open /\ Closed.warning = "none"
BY DEF IsDialog, Fields, Closed

LEMMA AppendShape ==
    ASSUME NEW S, NEW list \in Seq(S), NEW e \in S
    PROVE  /\ Append(list, e) \in Seq(S) /\ Append(list, e) # << >>
           /\ \A f : (\E i \in DOMAIN Append(list, e) : Append(list, e)[i] = f)
                      <=> (\E i \in DOMAIN list : list[i] = f) \/ f = e
<1> DEFINE more == Append(list, e)
<1>1. /\ more \in Seq(S) /\ Len(more) = Len(list) + 1 /\ more[Len(list) + 1] = e
      /\ \A i \in 1..Len(list) : more[i] = list[i]
      /\ DOMAIN list = 1..Len(list) /\ DOMAIN more = 1..(Len(list) + 1) /\ Len(list) \in Nat
  OBVIOUS
<1> HIDE DEF more
<1>2. more # << >>
  BY <1>1
<1>3. ASSUME NEW f
      PROVE  (\E i \in DOMAIN more : more[i] = f) <=> (\E i \in DOMAIN list : list[i] = f) \/ f = e
  BY <1>1
<1> QED
  BY <1>1, <1>2, <1>3 DEF more

\* Loading everything again, whatever there was before.
LEMMA ResetSound ==
    ASSUME NEW d, IsDialog(d), d.open, Questions(d), NEW o
    PROVE  Sound(ResetInternal(d, o)) /\ ResetInternal(d, o).open
<1> DEFINE shown == [e \in EditList(d) |-> Load(e, o)]
           x == [d EXCEPT !.shown = shown, !.loaded = {o}, !.apply_list = << >>,
                          !.buttons = FALSE, !.undiscarded = FALSE]
<1>1. ResetInternal(d, o) = x
  BY DEF ResetInternal
<1>2. shown = [e \in EditList(d) |-> shown[e]] /\ \A e \in EditList(d) : shown[e] = Load(e, o)
  OBVIOUS
<1> HIDE DEF shown
<1>0. IsDialog(x)
  BY DEF IsDialog
<1>3. /\ x.open /\ x.advanced = d.advanced /\ x.tab = d.tab /\ x.warning = d.warning
      /\ x.shown = shown /\ x.loaded = {o} /\ x.apply_list = << >>
      /\ x.buttons = FALSE /\ x.undiscarded = FALSE
  BY DEF IsDialog, Fields
<1> HIDE DEF x
<1>4. EditList(x) = EditList(d) /\ \A e : ~OnList(x, e)
  BY <1>3 DEF EditList, OnList
<1>5. Shows(x)
  BY <1>2, <1>3, <1>4 DEF Shows
<1>6. Pending(x)
  BY <1>2, <1>3, <1>4 DEF Pending
<1>7. Conflicts(x)
  <2> SUFFICES ASSUME class = "user", NEW e \in {"dont_expire", "cant_change"},
                      x.shown["expired"], x.shown[e]
               PROVE  o.expired /\ Load(e, o)
    BY <1>3 DEF Conflicts
  <2>1. "expired" \in EditList(d) /\ e \in EditList(d)
    BY DEF EditList, EditsOf, UserEdits
  <2>2. Load("expired", o) = o.expired
    BY DEF Load, Flags
  <2>3. shown["expired"] = o.expired /\ shown[e] = Load(e, o)
    BY <1>2, <2>1, <2>2
  <2> QED
    BY <1>3, <2>3
<1>8. Alone(x) /\ Questions(x)
  BY <1>3, <1>4 DEF Alone, Questions
<1> QED
  BY <1>0, <1>1, <1>3, <1>5, <1>6, <1>7, <1>8 DEF Sound

\* What the user changes in an edit of the tab on display.
LEMMA EditedSound ==
    ASSUME NEW d, Sound(d), d.open, NEW e \in EditList(d), NEW value,
           e = "attributes" <=> d.tab = "Attributes",
           LET x == [d EXCEPT !.shown[e] = value] IN Conflicts(x)
    PROVE  Sound(Edited([d EXCEPT !.shown[e] = value], e))
<1> DEFINE y == [d EXCEPT !.shown[e] = value]
           list == IF OnList(d, e) THEN d.apply_list ELSE Append(d.apply_list, e)
           x == [y EXCEPT !.apply_list = list, !.buttons = TRUE]
<1>1. /\ IsDialog(d) /\ Shows(d) /\ Pending(d) /\ Alone(d) /\ Questions(d)
      /\ d.apply_list \in Seq(EditList(d)) /\ Conflicts(y)
  BY ClosedShape DEF Sound, Shows
<1>2. y = [d EXCEPT !.shown = [d.shown EXCEPT ![e] = value]]
  BY <1>1 DEF IsDialog, Fields
<1> DEFINE shown == [d.shown EXCEPT ![e] = value]
<1>3. /\ shown = [f \in EditList(d) |-> shown[f]]
      /\ shown[e] = value /\ \A f \in EditList(d) \ {e} : shown[f] = d.shown[f]
  <2>1. \A s : s = [f \in EditList(d) |-> s[f]] =>
            LET u == [s EXCEPT ![e] = value]
            IN  /\ u = [f \in EditList(d) |-> u[f]]
                /\ u[e] = value /\ \A f \in EditList(d) \ {e} : u[f] = s[f]
    OBVIOUS
  <2> QED
    BY <1>1, <2>1 DEF Shows
<1> HIDE DEF shown
<1>0. IsDialog(y)
  BY <1>1, <1>2 DEF IsDialog
<1>4. /\ y.apply_list = d.apply_list /\ y.shown = shown
      /\ y.open = d.open /\ y.advanced = d.advanced /\ y.tab = d.tab
      /\ y.warning = d.warning /\ y.loaded = d.loaded /\ y.undiscarded = d.undiscarded
  BY <1>1, <1>2 DEF IsDialog, Fields, shown
<1> HIDE DEF y
<1>5. OnList(y, e) = OnList(d, e)
  BY <1>4 DEF OnList
<1>6. Edited(y, e) = x
  BY <1>4, <1>5 DEF Edited
<1>7. /\ list \in Seq(EditList(d)) /\ list # << >>
      /\ \A f : (\E i \in DOMAIN list : list[i] = f) <=> OnList(d, f) \/ f = e
  <2>1. CASE OnList(d, e)
    BY <1>1, <2>1 DEF OnList
  <2>2. CASE ~OnList(d, e)
    <3>1. list = Append(d.apply_list, e)
      BY <2>2
    <3> HIDE DEF list
    <3> QED
      BY <1>1, <3>1, AppendShape DEF OnList
  <2> QED
    BY <2>1, <2>2
<1>8. d.apply_list = << >> => \A f : ~OnList(d, f)
  BY DEF OnList
<1>9. d.apply_list = << >> => list = <<e>>
  BY <1>8
<1>10. OnList(d, e) => list = d.apply_list
  OBVIOUS
<1> HIDE DEF list
<1>18. IsDialog(x)
  BY <1>0 DEF IsDialog
<1>11. /\ x.open /\ x.advanced = d.advanced /\ x.tab = d.tab
       /\ x.warning = d.warning /\ x.loaded = d.loaded /\ x.undiscarded = d.undiscarded
       /\ x.shown = shown /\ x.apply_list = list /\ x.buttons = TRUE
  BY <1>0, <1>4 DEF IsDialog, Fields
<1> HIDE DEF x
<1>12. EditList(x) = EditList(d) /\ \A f : OnList(x, f) <=> OnList(d, f) \/ f = e
  BY <1>7, <1>11 DEF EditList, OnList
<1>13. Shows(x)
  BY <1>3, <1>7, <1>11, <1>12 DEF Shows
<1>14. Pending(x)
  <2>1. ASSUME NEW o \in d.loaded, NEW f \in EditList(d), shown[f] # Load(f, o)
        PROVE  OnList(x, f)
    BY <1>1, <1>3, <1>12, <2>1 DEF Pending
  <2>2. x.buttons = (x.apply_list # << >>)
    BY <1>7, <1>11
  <2> QED
    BY <1>11, <1>12, <2>1, <2>2 DEF Pending
<1>15. Conflicts(x)
  BY <1>1, <1>4, <1>11 DEF Conflicts
<1>16. Alone(x)
  <2>1. CASE e = "attributes"
    <3>1. ~d.undiscarded => d.apply_list = << >> \/ OnList(d, e)
      BY <1>1, <2>1 DEF Alone
    <3>2. ~d.undiscarded => list = <<"attributes">>
      BY <1>1, <1>9, <1>10, <2>1, <3>1 DEF Alone
    <3> QED
      BY <1>11, <1>12, <2>1, <3>2 DEF Alone
  <2>2. CASE e # "attributes"
    BY <1>1, <1>11, <1>12, <2>2 DEF Alone
  <2> QED
    BY <2>1, <2>2
<1>17. Questions(x)
  BY <1>1, <1>11 DEF Questions
<1> QED
  BY <1>6, <1>11, <1>13, <1>14, <1>15, <1>16, <1>17, <1>18 DEF Sound, y

-----------------------------------------------------------------------------
(* Applying, and the questions.                                            *)

LEMMA SoundOpen ==
    ASSUME NEW d, Sound(d), d.open
    PROVE  /\ IsDialog(d) /\ Shows(d) /\ Pending(d) /\ Conflicts(d) /\ Alone(d)
           /\ Questions(d)
BY ClosedShape DEF Sound

\* Neither what is shown nor the list changes.
LEMMA FrameSound ==
    ASSUME NEW d, Sound(d), d.open, NEW x, IsDialog(x),
           x.open = d.open, x.advanced = d.advanced, x.shown = d.shown,
           x.loaded = d.loaded, x.apply_list = d.apply_list, x.buttons = d.buttons,
           Alone(x), Questions(x)
    PROVE  Sound(x)
<1>1. EditList(x) = EditList(d) /\ \A e : OnList(x, e) = OnList(d, e)
  BY DEF EditList, OnList
<1>2. Shows(x) /\ Pending(x) /\ Conflicts(x)
  BY <1>1, SoundOpen DEF Shows, Pending, Conflicts
<1> QED
  BY <1>2 DEF Sound

\* An apply that failed leaves the list; the box of "unlock", which no object is
\* loaded with, is cleared.
LEMMA AppliedSound ==
    ASSUME NEW d, Sound(d), d.open, NEW r \in ApplyInternal(d)
    PROVE  /\ IsDialog(r.dialog) /\ r.dialog.open /\ r.dialog.advanced = d.advanced
           /\ r.dialog.warning = d.warning
           /\ Questions(r.dialog)
           /\ ~r.ok => Sound(r.dialog)
<1>0. IsDialog(d) /\ Shows(d) /\ Pending(d) /\ Conflicts(d) /\ Alone(d) /\ Questions(d)
  BY SoundOpen
<1>1. CASE r = [object |-> object, ok |-> FALSE, dialog |-> d]
  BY <1>0, <1>1
<1> DEFINE shown == IF OnList(d, "unlock") THEN [d.shown EXCEPT !["unlock"] = FALSE]
                    ELSE d.shown
           x(sd, ok) == [d EXCEPT !.previous_sd = sd,
                                  !.buttons = IF ok THEN FALSE ELSE @,
                                  !.shown = shown]
<1>2. CASE \E sd, ok, o : r = [object |-> o, ok |-> ok, dialog |-> x(sd, ok)]
  <2>1. PICK sd, ok, o : r = [object |-> o, ok |-> ok, dialog |-> x(sd, ok)]
    BY <1>2
  <2> DEFINE buttons == IF ok THEN FALSE ELSE d.buttons
             y == [d EXCEPT !.previous_sd = sd, !.buttons = buttons, !.shown = shown]
  <2>2. x(sd, ok) = y
    BY <1>0 DEF IsDialog, Fields
  <2>3. r.ok = ok /\ r.dialog = y /\ (~ok => buttons = d.buttons)
    BY <2>1, <2>2
  <2>4. /\ shown = [e \in EditList(d) |-> shown[e]]
        /\ \A e \in EditList(d) : shown[e] = d.shown[e] \/ (e = "unlock" /\ shown[e] = FALSE)
    BY <1>0 DEF Shows
  <2> HIDE DEF shown, buttons
  <2>5. IsDialog(y)
    BY <1>0 DEF IsDialog
  <2>6. /\ y.open = d.open /\ y.advanced = d.advanced /\ y.tab = d.tab
        /\ y.warning = d.warning /\ y.loaded = d.loaded /\ y.apply_list = d.apply_list
        /\ y.undiscarded = d.undiscarded /\ y.shown = shown /\ y.buttons = buttons
    BY <1>0 DEF IsDialog, Fields
  <2> HIDE DEF y
  <2>7. EditList(y) = EditList(d) /\ \A e : OnList(y, e) = OnList(d, e)
    BY <2>6 DEF EditList, OnList
  <2>8. Shows(y) /\ Alone(y) /\ Questions(y)
    BY <1>0, <2>4, <2>6, <2>7 DEF Shows, Alone, Questions
  <2>9. ASSUME ~ok PROVE Pending(y)
    <3>1. \A z : Load("unlock", z) = FALSE
      BY DEF Load, Flags
    <3>2. ASSUME NEW z \in d.loaded, NEW e \in EditList(d), shown[e] # Load(e, z)
          PROVE  OnList(y, e)
      BY <1>0, <2>4, <2>7, <3>1, <3>2 DEF Pending
    <3>3. y.buttons = (y.apply_list # << >>)
      BY <1>0, <2>3, <2>6, <2>9 DEF Pending
    <3> QED
      BY <2>6, <2>7, <3>2, <3>3 DEF Pending
  <2>10. Conflicts(y)
    <3>1. class = "user" =>
            \A e \in {"expired", "dont_expire", "cant_change"} :
                e \in EditList(d) /\ e # "unlock"
      BY DEF EditList, EditsOf, UserEdits
    <3>2. class = "user" =>
            \A e \in {"expired", "dont_expire", "cant_change"} : y.shown[e] = d.shown[e]
      BY <2>4, <2>6, <3>1
    <3> QED
      BY <1>0, <2>6, <3>2 DEF Conflicts
  <2> QED
    BY <2>3, <2>5, <2>6, <2>8, <2>9, <2>10 DEF Sound
<1>3. r = [object |-> object, ok |-> FALSE, dialog |-> d]
      \/ \E sd, ok, o : r = [object |-> o, ok |-> ok, dialog |-> x(sd, ok)]
  <2> DEFINE After(q) == [object |-> q.object, ok |-> q.ok,
                          dialog |-> x(q.previous_sd, q.ok)]
             refused == [object |-> object, ok |-> FALSE, dialog |-> d]
             results == ApplyAll(d.apply_list, d.shown,
                                 [object |-> object, ok |-> TRUE,
                                  previous_sd |-> d.previous_sd])
  <2>1. r \in UNION {IF verified THEN {After(q) : q \in results} ELSE {refused} :
                        verified \in VerifyAll(d.apply_list, d.shown)}
    BY DEF ApplyInternal
  <2> HIDE DEF results
  <2>2. \A q : \E sd, ok, o : After(q) = [object |-> o, ok |-> ok, dialog |-> x(sd, ok)]
    OBVIOUS
  <2> HIDE DEF After
  <2>3. r = refused \/ \E q : r = After(q)
    BY <2>1
  <2> HIDE DEF x
  <2> QED
    BY <2>2, <2>3
<1> QED
  BY <1>1, <1>2, <1>3

\* open_security_warning() asks about entries on the security tab.
LEMMA WarningSound ==
    ASSUME NEW d, Sound(d), d.open
    PROVE  Sound(OpenSecurityWarning(d))
<1> DEFINE x == [d EXCEPT !.warning = "security"]
<1>1. IsDialog(d) /\ Alone(d) /\ Questions(d)
  BY SoundOpen
<1>2. CASE d.tab = "Security" /\ OpenSecurityWarning(d) = x
  <2>1. IsDialog(x)
    BY <1>1 DEF IsDialog
  <2>2. /\ x.open = d.open /\ x.advanced = d.advanced /\ x.tab = d.tab
        /\ x.warning = "security" /\ x.loaded = d.loaded /\ x.apply_list = d.apply_list
        /\ x.undiscarded = d.undiscarded /\ x.shown = d.shown /\ x.buttons = d.buttons
    BY <1>1 DEF IsDialog, Fields
  <2> HIDE DEF x
  <2>3. Alone(x) /\ Questions(x)
    BY <1>1, <1>2, <2>2 DEF Alone, Questions, OnList
  <2> QED
    BY <1>2, <2>1, <2>2, <2>3, FrameSound
<1>3. CASE OpenSecurityWarning(d) = d
  BY <1>3
<1> QED
  BY <1>2, <1>3 DEF OpenSecurityWarning

LEMMA AskedSound ==
    ASSUME Sound(dialog), dialog.open
    PROVE  /\ Sound(Asked) /\ Asked.open /\ Asked.advanced = dialog.advanced
           /\ Asked.tab = dialog.tab /\ Asked.warning = "none"
           /\ Asked.shown = dialog.shown /\ Asked.loaded = dialog.loaded
           /\ Asked.apply_list = dialog.apply_list
<1>1. IsDialog(dialog) /\ Alone(dialog) /\ Questions(dialog)
  BY SoundOpen
<1>2. IsDialog(Asked)
  BY <1>1 DEF Asked, IsDialog
<1>3. /\ Asked.open = dialog.open /\ Asked.advanced = dialog.advanced
      /\ Asked.tab = dialog.tab /\ Asked.warning = "none"
      /\ Asked.loaded = dialog.loaded /\ Asked.apply_list = dialog.apply_list
      /\ Asked.undiscarded = dialog.undiscarded /\ Asked.shown = dialog.shown
      /\ Asked.buttons = dialog.buttons
  BY <1>1 DEF Asked, IsDialog, Fields
<1>4. Alone(Asked) /\ Questions(Asked)
  BY <1>1, <1>3 DEF Alone, Questions, OnList
<1> QED
  BY <1>2, <1>3, <1>4, FrameSound

\* Going to another tab of the advanced view with nothing on the list, or with
\* what was to be discarded.
LEMMA GoingSound ==
    ASSUME NEW d, Sound(d), d.open, d.advanced, d.warning = "none", NEW tab,
           d.apply_list = << >>
    PROVE  Sound(OpenSecurityWarning([d EXCEPT !.tab = tab]))
<1> DEFINE x == [d EXCEPT !.tab = tab]
<1>1. IsDialog(d) /\ Alone(d) /\ Questions(d)
  BY SoundOpen
<1>2. IsDialog(x)
  BY <1>1 DEF IsDialog
<1>3. /\ x.open = d.open /\ x.advanced = d.advanced /\ x.tab = tab
      /\ x.warning = d.warning /\ x.loaded = d.loaded /\ x.apply_list = d.apply_list
      /\ x.undiscarded = d.undiscarded /\ x.shown = d.shown /\ x.buttons = d.buttons
  BY <1>1 DEF IsDialog, Fields
<1> HIDE DEF x
<1>4. Alone(x) /\ Questions(x)
  BY <1>3 DEF Alone, Questions, OnList
<1>5. Sound(x) /\ x.open
  BY <1>2, <1>3, <1>4, FrameSound
<1> QED
  BY <1>5, WarningSound DEF x

-----------------------------------------------------------------------------
(* The user's changes.                                                     *)

LEMMA ShownAfter ==
    ASSUME NEW d, IsDialog(d), Shows(d), NEW e \in EditList(d), NEW value
    PROVE  LET x == [d EXCEPT !.shown[e] = value]
           IN  /\ x.shown[e] = value
               /\ \A f : f # e => x.shown[f] = d.shown[f]
               /\ x.loaded = d.loaded
<1> DEFINE shown == [d.shown EXCEPT ![e] = value]
           x == [d EXCEPT !.shown = shown]
<1>1. x.shown = shown /\ x.loaded = d.loaded
  BY DEF IsDialog, Fields
<1>2. shown[e] = value /\ \A f : f # e => shown[f] = d.shown[f]
  <2>1. e \in DOMAIN d.shown
    BY DEF Shows
  <2> QED
    BY <2>1 DEF Shows
<1>3. [d EXCEPT !.shown[e] = value] = x
  BY DEF IsDialog, Fields
<1> HIDE DEF shown, x
<1> QED
  BY <1>1, <1>2, <1>3

\* An edit that is no account option leaves those alone.
LEMMA OtherEditSound ==
    ASSUME NEW d, Sound(d), d.open, NEW e \in EditList(d) \ AccountOptions, NEW value,
           e = "attributes" <=> d.tab = "Attributes"
    PROVE  Sound(Edited([d EXCEPT !.shown[e] = value], e))
<1> DEFINE x == [d EXCEPT !.shown[e] = value]
<1>1. IsDialog(d) /\ Shows(d) /\ Conflicts(d)
  BY SoundOpen
<1>2. (\A f : f # e => x.shown[f] = d.shown[f]) /\ x.loaded = d.loaded
  BY <1>1, ShownAfter
<1> HIDE DEF x
<1>3. \A f \in {"expired", "dont_expire", "cant_change"} : x.shown[f] = d.shown[f]
  BY <1>2 DEF AccountOptions
<1>4. Conflicts(x)
  BY <1>1, <1>2, <1>3 DEF Conflicts
<1> QED
  BY <1>4, EditedSound DEF x

\* An option is set by a click only if none of those is that it conflicts with.
LEMMA OptionSound ==
    ASSUME NEW d, Sound(d), d.open, NEW e \in EditList(d) \cap AccountOptions,
           d.tab = "Other"
    PROVE  Sound(Edited([d EXCEPT !.shown[e] = /\ ~d.shown[e]
                                                /\ \A b \in Blockers(e) : ~d.shown[b]], e))
<1> DEFINE value == ~d.shown[e] /\ \A b \in Blockers(e) : ~d.shown[b]
           x == [d EXCEPT !.shown[e] = value]
<1>1. IsDialog(d) /\ Shows(d) /\ Conflicts(d) /\ e # "attributes"
  BY SoundOpen DEF AccountOptions
<1>2. x.shown[e] = value /\ (\A f : f # e => x.shown[f] = d.shown[f]) /\ x.loaded = d.loaded
  BY <1>1, ShownAfter
<1>3. value => \A b \in Blockers(e) : ~d.shown[b]
  OBVIOUS
<1> HIDE DEF x, value
<1>4. Conflicts(x)
  <2> SUFFICES ASSUME class = "user", NEW f \in {"dont_expire", "cant_change"},
                      x.shown["expired"], x.shown[f], NEW o \in x.loaded
               PROVE  o.expired /\ Load(f, o)
    BY DEF Conflicts
  <2>1. CASE e = "expired"
    <3>1. f \in Blockers(e) /\ f # e
      BY <2>1 DEF Blockers
    <3> QED
      BY <1>2, <1>3, <2>1, <3>1
  <2>2. CASE e = f
    <3>1. "expired" \in Blockers(e) /\ e # "expired"
      BY <2>2 DEF Blockers
    <3> QED
      BY <1>2, <1>3, <2>2, <3>1
  <2>3. CASE e # "expired" /\ e # f
    <3>1. x.shown["expired"] = d.shown["expired"] /\ x.shown[f] = d.shown[f]
      BY <1>2, <2>3
    <3> QED
      BY <1>1, <1>2, <3>1 DEF Conflicts
  <2> QED
    BY <2>1, <2>2, <2>3
<1>5. e = "attributes" <=> d.tab = "Attributes"
  BY <1>1
<1> QED
  BY <1>4, <1>5, EditedSound DEF x, value

\* What the next state's dialog is made of.
LEMMA NextSound ==
    ASSUME NEW x, Sound(x), dialog' = x, class' = class
    PROVE  Sound(dialog)'
BY DEF Sound, Shows, Pending, Conflicts, EditList

LEMMA ShowingSound ==
    ASSUME Sound(dialog), Ready, NEW e \in EditList(dialog) \ AccountOptions, NEW value,
           e = "attributes" <=> dialog.tab = "Attributes", Showing(e, value)
    PROVE  Sound(dialog)'
<1>1. Sound(Edited([dialog EXCEPT !.shown[e] = value], e))
  BY OtherEditSound DEF Ready
<1> QED
  BY <1>1, NextSound DEF Showing

LEMMA EditSound ==
    ASSUME Sound(dialog), Edit
    PROVE  Sound(dialog)'
<1>1. ASSUME NEW e, CanEdit(e, "Other"), e \notin AccountOptions, e # "attributes",
             NEW value, Showing(e, value)
      PROVE  Sound(dialog)'
  BY <1>1, ShowingSound DEF CanEdit
<1>2. CASE \/ TypeText \/ TypePhone \/ EditOtherPhone \/ ClickCheck \/ ChooseScope
           \/ ChooseType \/ AddMember \/ RemoveMember \/ MakePrimary
  BY <1>1, <1>2 DEF TypeText, TypePhone, EditOtherPhone, ClickCheck, ChooseScope,
     ChooseType, AddMember, RemoveMember, MakePrimary, AccountOptions
<1>3. CASE ClickOption
  <2>1. PICK e \in AccountOptions :
          /\ CanEdit(e, "Other")
          /\ Showing(e, /\ ~dialog.shown[e]
                         /\ \A b \in Blockers(e) : ~dialog.shown[b])
    BY <1>3 DEF ClickOption
  <2>2. Ready /\ e \in EditList(dialog) /\ dialog.tab = "Other"
    BY <2>1 DEF CanEdit
  <2>3. Sound(Edited([dialog EXCEPT !.shown[e] =
                        /\ ~dialog.shown[e]
                        /\ \A b \in Blockers(e) : ~dialog.shown[b]], e))
    BY <2>2, OptionSound DEF Ready
  <2> QED
    BY <2>1, <2>3, NextSound DEF Showing
<1>4. CASE EditAttribute
  <2>1. PICK value : CanEdit("attributes", "Attributes") /\ Showing("attributes", value)
    BY <1>4 DEF EditAttribute
  <2> QED
    BY <2>1, ShowingSound DEF CanEdit, AccountOptions
<1>5. CASE SetRight \/ RemoveTrusteeButton \/ ClearAll \/ Rollback
  <2>1. PICK value : CanEdit("security", "Security") /\ Showing("security", value)
    BY <1>5 DEF SetRight, RemoveTrusteeButton, ClearAll, RemoveTrustee, Rollback
  <2> QED
    BY <2>1, ShowingSound DEF CanEdit, AccountOptions
<1>6. CASE LoadOptional
  <2> DEFINE original == dialog.shown["attributes"].original
             value == [dialog.shown["attributes"] EXCEPT !.current = original]
             x == [dialog EXCEPT !.shown["attributes"] = value]
  <2>1. /\ dialog.open /\ dialog.tab = "Attributes"
        /\ dialog.shown["attributes"].current # original
        /\ class' = class
    BY <1>6 DEF LoadOptional, Ready
  <2>2. dialog' = x
    BY <1>6 DEF LoadOptional
  <2>3. IsDialog(dialog) /\ Shows(dialog) /\ Pending(dialog) /\ Conflicts(dialog)
        /\ Alone(dialog) /\ Questions(dialog)
    BY <2>1, SoundOpen
  <2> HIDE DEF value
  <2>4. "attributes" \in EditList(dialog)
    BY <2>1, <2>3 DEF Questions, EditList, EditsOf, AdvancedEdits
  <2>5. \A o \in dialog.loaded : dialog.shown["attributes"] # Load("attributes", o)
    BY <2>1 DEF Load, LoadAttributes, Flags
  <2>6. dialog.loaded # {} => OnList(dialog, "attributes")
    BY <2>3, <2>4, <2>5 DEF Pending
  <2>7. (\A f : f # "attributes" => x.shown[f] = dialog.shown[f]) /\ x.loaded = dialog.loaded
    BY <2>3, <2>4, ShownAfter
  <2> DEFINE shown == [dialog.shown EXCEPT !["attributes"] = value]
  <2>8. shown = [e \in EditList(dialog) |-> shown[e]]
    BY <2>3 DEF Shows
  <2>9. x = [dialog EXCEPT !.shown = shown]
    BY <2>3 DEF IsDialog, Fields
  <2> HIDE DEF shown, x
  <2>10. IsDialog(x)
    BY <2>3, <2>9 DEF IsDialog
  <2>11. /\ x.open = dialog.open /\ x.advanced = dialog.advanced /\ x.tab = dialog.tab
         /\ x.warning = dialog.warning /\ x.apply_list = dialog.apply_list
         /\ x.undiscarded = dialog.undiscarded /\ x.shown = shown
         /\ x.buttons = dialog.buttons
    BY <2>3, <2>9 DEF IsDialog, Fields
  <2>12. EditList(x) = EditList(dialog) /\ \A e : OnList(x, e) = OnList(dialog, e)
    BY <2>11 DEF EditList, OnList
  <2>13. Shows(x) /\ Alone(x) /\ Questions(x)
    BY <2>3, <2>8, <2>11, <2>12 DEF Shows, Alone, Questions
  <2>14. Pending(x)
    <3>1. ASSUME NEW o \in dialog.loaded, NEW e \in EditList(dialog),
                 x.shown[e] # Load(e, o)
          PROVE  OnList(dialog, e)
      BY <2>3, <2>6, <2>7, <3>1 DEF Pending
    <3>2. x.buttons = (x.apply_list # << >>)
      BY <2>3, <2>11 DEF Pending
    <3> QED
      BY <2>7, <2>12, <3>1, <3>2 DEF Pending
  <2>15. Conflicts(x)
    <3>1. \A f \in {"expired", "dont_expire", "cant_change"} : x.shown[f] = dialog.shown[f]
      BY <2>7
    <3> QED
      BY <2>3, <2>7, <3>1 DEF Conflicts
  <2>16. Sound(x)
    BY <2>1, <2>10, <2>11, <2>13, <2>14, <2>15 DEF Sound
  <2> QED
    BY <2>1, <2>2, <2>16, NextSound
<1> QED
  BY <1>2, <1>3, <1>4, <1>5, <1>6 DEF Edit

-----------------------------------------------------------------------------
(* The dialog's own buttons and questions.                                 *)

LEMMA NotClosed ==
    ASSUME Sound(dialog), dialog.warning # "none"
    PROVE  dialog.open
BY ClosedShape DEF Sound

LEMMA OpenSound ==
    ASSUME NEW advanced \in BOOLEAN, Open(advanced)
    PROVE  Sound(dialog)'
<1> DEFINE d == [Closed EXCEPT !.open = TRUE, !.advanced = advanced]
<1>1. IsDialog(d)
  BY ClosedShape DEF IsDialog
<1>2. d.open /\ d.tab = "Other" /\ d.warning = "none"
  BY DEF Closed
<1> HIDE DEF d
<1>3. Questions(d)
  BY <1>2 DEF Questions
<1>4. Sound(ResetInternal(d, object))
  BY <1>1, <1>2, <1>3, ResetSound
<1> QED
  BY <1>4, NextSound DEF Open, d

LEMMA ApplyingSound ==
    ASSUME Sound(dialog), Accept \/ ApplyButton
    PROVE  Sound(dialog)'
<1>1. dialog.open /\ class' = class
  BY DEF Accept, ApplyButton, Ready
<1>2. Sound(Closed)
  BY ClosedShape DEF Sound
<1>3. CASE Accept
  <2>1. PICK r \in ApplyInternal(dialog) : dialog' = IF r.ok THEN Closed ELSE r.dialog
    BY <1>3 DEF Accept
  <2> QED
    BY <1>1, <1>2, <2>1, AppliedSound, NextSound
<1>4. CASE ApplyButton
  <2>1. PICK r \in ApplyInternal(dialog) :
          dialog' = IF r.ok THEN ResetInternal(r.dialog, r.object) ELSE r.dialog
    BY <1>4 DEF ApplyButton
  <2>2. /\ IsDialog(r.dialog) /\ r.dialog.open /\ Questions(r.dialog)
        /\ ~r.ok => Sound(r.dialog)
    BY <1>1, AppliedSound
  <2>3. Sound(ResetInternal(r.dialog, r.object))
    BY <2>2, ResetSound
  <2> QED
    BY <1>1, <2>1, <2>2, <2>3, NextSound
<1> QED
  BY <1>3, <1>4

LEMMA ResetsSound ==
    ASSUME NEW d, Sound(d), d.open, NEW x \in ResetOutcomes(d)
    PROVE  Sound(x)
<1>1. x = d \/ x = ResetInternal(d, object)
  BY DEF ResetOutcomes
<1> QED
  BY <1>1, SoundOpen, ResetSound

\* What loading everything leaves of where the user is.
LEMMA ResetPlace ==
    ASSUME NEW d, IsDialog(d), NEW o
    PROVE  LET x == ResetInternal(d, o)
           IN  /\ x.advanced = d.advanced /\ x.tab = d.tab /\ x.warning = d.warning
               /\ x.apply_list = << >>
<1> DEFINE shown == [e \in EditList(d) |-> Load(e, o)]
<1>1. ResetInternal(d, o) = [d EXCEPT !.shown = shown, !.loaded = {o},
                                      !.apply_list = << >>, !.buttons = FALSE,
                                      !.undiscarded = FALSE]
  BY DEF ResetInternal
<1> HIDE DEF shown
<1> QED
  BY <1>1 DEF IsDialog, Fields

LEMMA SwitchSound ==
    ASSUME Sound(dialog), NEW tab \in Tabs, SwitchTab(tab)
    PROVE  Sound(dialog)'
<1>1. /\ dialog.open /\ dialog.warning = "none" /\ dialog.advanced /\ class' = class
  BY DEF SwitchTab, Ready
<1>2. IsDialog(dialog) /\ Alone(dialog) /\ Questions(dialog) /\ Shows(dialog)
  BY <1>1, SoundOpen
<1>3. CASE AttributesWarningNeeded(dialog, tab)
  <2> DEFINE x == [dialog EXCEPT !.warning = "attributes", !.going = tab]
  <2>1. dialog' = x
    BY <1>3 DEF SwitchTab
  <2>2. IsDialog(x)
    BY <1>2 DEF IsDialog
  <2>3. /\ x.open = dialog.open /\ x.advanced = dialog.advanced /\ x.tab = dialog.tab
        /\ x.warning = "attributes" /\ x.loaded = dialog.loaded
        /\ x.apply_list = dialog.apply_list /\ x.undiscarded = dialog.undiscarded
        /\ x.shown = dialog.shown /\ x.buttons = dialog.buttons
    BY <1>2 DEF IsDialog, Fields
  <2> HIDE DEF x
  <2>4. Alone(x) /\ Questions(x)
    BY <1>1, <1>2, <2>3 DEF Alone, Questions, OnList
  <2>5. Sound(x)
    BY <1>1, <2>2, <2>3, <2>4, FrameSound
  <2> QED
    BY <1>1, <2>1, <2>5, NextSound
<1>4. CASE ~AttributesWarningNeeded(dialog, tab)
  <2> DEFINE x == [dialog EXCEPT !.tab = tab]
  <2>1. dialog' = OpenSecurityWarning(x)
    BY <1>4 DEF SwitchTab
  <2>2. IsDialog(x)
    BY <1>2 DEF IsDialog
  <2>3. /\ x.open = dialog.open /\ x.advanced = dialog.advanced /\ x.tab = tab
        /\ x.warning = dialog.warning /\ x.loaded = dialog.loaded
        /\ x.apply_list = dialog.apply_list /\ x.undiscarded = dialog.undiscarded
        /\ x.shown = dialog.shown /\ x.buttons = dialog.buttons
    BY <1>2 DEF IsDialog, Fields
  <2> HIDE DEF x
  <2>4. dialog.apply_list = << >> => \A e : ~OnList(dialog, e)
    BY DEF OnList
  <2>5. Alone(x)
    BY <1>2, <1>4, <2>3, <2>4 DEF Alone, OnList, AttributesWarningNeeded
  <2>6. Questions(x)
    BY <1>1, <2>3 DEF Questions
  <2>7. Sound(OpenSecurityWarning(x))
    BY <1>1, <2>2, <2>3, <2>5, <2>6, FrameSound, WarningSound
  <2> QED
    BY <1>1, <2>1, <2>7, NextSound
<1> QED
  BY <1>3, <1>4

LEMMA WarningsSound ==
    ASSUME Sound(dialog), WarningApplied \/ WarningDiscarded \/ WarningRejected
    PROVE  Sound(dialog)'
<1>1. /\ dialog.warning = "attributes" /\ dialog.open /\ dialog.advanced /\ class' = class
  <2>1. dialog.warning = "attributes" /\ class' = class
    BY DEF WarningApplied, WarningDiscarded, WarningRejected
  <2>2. dialog.open
    BY <2>1, NotClosed
  <2> QED
    BY <2>1, <2>2, SoundOpen DEF Questions
<1>2. /\ Sound(Asked) /\ Asked.open /\ Asked.advanced /\ Asked.warning = "none"
      /\ IsDialog(Asked)
  BY <1>1, AskedSound, SoundOpen
<1>3. Sound(OpenSecurityWarning(Asked))
  BY <1>2, WarningSound
<1>4. CASE dialog' = OpenSecurityWarning(Asked)
  BY <1>1, <1>3, <1>4, NextSound
<1>5. ASSUME NEW d, IsDialog(d), d.open, Questions(d), d.advanced, d.warning = "none",
             NEW o, dialog' = OpenSecurityWarning(
                                 [ResetInternal(d, o) EXCEPT !.tab = dialog.going])
      PROVE  Sound(dialog)'
  <2>1. Sound(ResetInternal(d, o)) /\ ResetInternal(d, o).open
    BY <1>5, ResetSound
  <2>2. /\ ResetInternal(d, o).advanced /\ ResetInternal(d, o).warning = "none"
        /\ ResetInternal(d, o).apply_list = << >>
    BY <1>5, ResetPlace
  <2>3. Sound(OpenSecurityWarning([ResetInternal(d, o) EXCEPT !.tab = dialog.going]))
    BY <2>1, <2>2, GoingSound
  <2> QED
    BY <1>1, <1>5, <2>3, NextSound
<1>6. CASE WarningApplied
  <2>1. ASSUME NEW r \in ApplyInternal(Asked),
               dialog' = OpenSecurityWarning(
                            [ResetInternal(r.dialog, r.object) EXCEPT !.tab = dialog.going])
        PROVE  Sound(dialog)'
    <3>1. /\ IsDialog(r.dialog) /\ r.dialog.open /\ r.dialog.advanced
          /\ Questions(r.dialog) /\ r.dialog.warning = "none"
      BY <1>2, AppliedSound
    <3> QED
      BY <1>5, <2>1, <3>1
  <2> QED
    BY <1>4, <1>6, <2>1 DEF WarningApplied
<1>7. CASE WarningDiscarded
  <2>1. PICK d \in ResetOutcomes(Asked) :
          dialog' = OpenSecurityWarning([d EXCEPT !.tab = dialog.going,
                                                  !.undiscarded = d.apply_list # << >>])
    BY <1>7 DEF WarningDiscarded
  <2>2. Sound(d)
    BY <1>2, <2>1, ResetsSound
  <2>3. d.open /\ d.advanced /\ d.warning = "none"
    BY <1>2, <2>1, ResetSound, ResetPlace, SoundOpen DEF ResetOutcomes
  <2> DEFINE undiscarded == (d.apply_list # << >>)
             x == [d EXCEPT !.tab = dialog.going, !.undiscarded = undiscarded]
  <2>4. IsDialog(d)
    BY <2>2, <2>3, SoundOpen
  <2> HIDE DEF undiscarded
  <2>5. IsDialog(x)
    BY <2>4 DEF IsDialog
  <2>6. /\ x.open = d.open /\ x.advanced = d.advanced /\ x.tab = dialog.going
        /\ x.warning = d.warning /\ x.loaded = d.loaded /\ x.apply_list = d.apply_list
        /\ x.undiscarded = undiscarded /\ x.shown = d.shown /\ x.buttons = d.buttons
    BY <2>4 DEF IsDialog, Fields
  <2> HIDE DEF x
  <2>7. Alone(x)
    <3>1. CASE d.apply_list # << >>
      BY <2>6, <3>1 DEF Alone, undiscarded
    <3>2. CASE d.apply_list = << >>
      BY <2>6, <3>2 DEF Alone, OnList
    <3> QED
      BY <3>1, <3>2
  <2>8. Questions(x)
    BY <2>3, <2>6 DEF Questions
  <2>9. Sound(OpenSecurityWarning(x))
    BY <2>2, <2>3, <2>5, <2>6, <2>7, <2>8, FrameSound, WarningSound
  <2> QED
    BY <1>1, <2>1, <2>9, NextSound DEF x, undiscarded
<1>8. CASE WarningRejected
  BY <1>4, <1>8 DEF WarningRejected
<1> QED
  BY <1>6, <1>7, <1>8

\* fix_acl_order() edits the security tab, which is on display when it is asked.
LEMMA SortSound ==
    ASSUME Sound(dialog), SortAccepted \/ SortRejected
    PROVE  Sound(dialog)'
<1>1. dialog.warning = "security" /\ class' = class
  BY DEF SortAccepted, SortRejected
<1>2. dialog.open /\ Questions(dialog)
  BY <1>1, NotClosed, SoundOpen
<1>3. /\ Sound(Asked) /\ Asked.open /\ Asked.advanced /\ Asked.tab = "Security"
      /\ Asked.warning = "none" /\ IsDialog(Asked)
  BY <1>1, <1>2, AskedSound, SoundOpen DEF Questions
<1>4. CASE SortAccepted
  <2> DEFINE value == [Asked.shown["security"] EXCEPT !.ordered = TRUE]
  <2>1. "security" \in EditList(Asked) \ AccountOptions
    BY <1>3 DEF EditList, EditsOf, AdvancedEdits, AccountOptions
  <2>2. [Asked EXCEPT !.shown["security"].ordered = TRUE] =
            [Asked EXCEPT !.shown["security"] = value]
    OBVIOUS
  <2> HIDE DEF value
  <2>3. Sound(Edited([Asked EXCEPT !.shown["security"] = value], "security"))
    BY <1>3, <2>1, OtherEditSound
  <2> QED
    BY <1>1, <1>4, <2>2, <2>3, NextSound DEF SortAccepted
<1>5. CASE SortRejected
  <2> DEFINE x == [Asked EXCEPT !.read_only = TRUE]
  <2>1. IsDialog(x)
    BY <1>3 DEF IsDialog
  <2>2. /\ x.open = Asked.open /\ x.advanced = Asked.advanced /\ x.tab = Asked.tab
        /\ x.warning = Asked.warning /\ x.loaded = Asked.loaded
        /\ x.apply_list = Asked.apply_list /\ x.undiscarded = Asked.undiscarded
        /\ x.shown = Asked.shown /\ x.buttons = Asked.buttons
    BY <1>3 DEF IsDialog, Fields
  <2> HIDE DEF x
  <2>3. Alone(x) /\ Questions(x)
    BY <1>3, <2>2, SoundOpen DEF Alone, Questions, OnList
  <2>4. Sound(x)
    BY <1>3, <2>1, <2>2, <2>3, FrameSound
  <2> QED
    BY <1>1, <1>5, <2>4, NextSound DEF SortRejected, x
<1> QED
  BY <1>4, <1>5

-----------------------------------------------------------------------------
(* What is pending, in conflict and on the attributes tab.                 *)

LEMMA InitSound == Init => Sound(dialog)
BY ClosedShape DEF Init, Sound

LEMMA StepSound == Sound(dialog) /\ [Next]_vars => Sound(dialog)'
<1> SUFFICES ASSUME Sound(dialog), [Next]_vars PROVE Sound(dialog)'
  OBVIOUS
<1>1. CASE Cancel
  <2>1. Sound(Closed)
    BY ClosedShape DEF Sound
  <2> QED
    BY <1>1, <2>1, NextSound DEF Cancel
<1>2. CASE Reset
  <2>1. PICK x \in ResetOutcomes(dialog) : dialog' = x /\ dialog.open /\ class' = class
    BY <1>2 DEF Reset, Ready
  <2> QED
    BY <2>1, ResetsSound, NextSound
<1>3. CASE Others \/ UNCHANGED vars
  <2>1. dialog' = dialog /\ class' = class
    BY <1>3 DEF Others, OthersSetFlag, OthersWriteDescriptor, OthersChangeGroups,
       OtherChange, vars
  <2> QED
    BY <2>1, NextSound
<1> QED
  BY <1>1, <1>2, <1>3, OpenSound, ApplyingSound, SwitchSound, WarningsSound, SortSound,
     EditSound DEF Next

LEMMA SoundAlways == Spec => []Sound(dialog)
BY InitSound, StepSound, PTL DEF Spec

\* Whatever fails and whatever others do: what the dialog shows and did not load
\* is on apply_list, and the Apply and Reset buttons are enabled exactly when
\* something is on it.
THEOREM PropertiesPendingListed == Spec => []PendingIsListed
<1>1. Sound(dialog) => PendingIsListed
  BY ClosedShape DEF Sound, Pending, PendingIsListed
<1> QED
  BY <1>1, SoundAlways, PTL

\* account_option_edit.cpp: clicks, resets and applies never bring about two
\* account options in conflict that were not loaded so.
THEOREM PropertiesConflictsLoaded == Spec => []ConflictsAreLoaded
<1>1. Sound(dialog) => ConflictsAreLoaded
  BY ClosedShape DEF Sound, Conflicts, ConflictsAreLoaded
<1> QED
  BY <1>1, SoundAlways, PTL

\* on_current_tab_changed(): the attributes tab is never applied together with
\* another, but for what could not be discarded without a connection.
THEOREM PropertiesAttributesAlone == Spec => []AttributesAlone
<1>1. Sound(dialog) => AttributesAlone
  BY ClosedShape DEF Sound, Alone, AttributesAlone
<1> QED
  BY <1>1, SoundAlways, PTL

-----------------------------------------------------------------------------
(* What the apply of one edit does.                                        *)

Results == [object : Objects, ok : BOOLEAN, previous_sd : SUBSET Descriptor]

SdParts == {"cant_change", "protect", "others"}

\* Of the object o, q has everything but some of the parts.
SameBut(q, o, parts) ==
    /\ \A p \in AllParts \ parts : Part(q, p) = Part(o, p)
    /\ parts \cap SdParts = {} => q.sd = o.sd

LEMMA PartIs ==
    ASSUME NEW o
    PROVE  /\ \A a \in TextAttributes : Part(o, a) = o.text[a]
           /\ \A f \in Flags : Part(o, f) = (f \in o.flags)
           /\ Part(o, "expired") = o.expired /\ Part(o, "locked") = o.locked
           /\ Part(o, "scope") = o.scope /\ Part(o, "type") = o.type
           /\ Part(o, "groups") = o.groups /\ Part(o, "primary") = o.primary
           /\ Part(o, "cant_change") = o.sd.cant_change
           /\ Part(o, "protect") = o.sd.protected
           /\ Part(o, "others") = o.sd.others
BY DEF Part, TextAttributes, Flags

LEMMA SameButSame ==
    ASSUME NEW o, NEW parts
    PROVE  SameBut(o, o, parts)
BY DEF SameBut

LEMMA SameButTwice ==
    ASSUME NEW o, NEW p, NEW q, NEW parts, SameBut(p, o, parts), SameBut(q, p, parts)
    PROVE  SameBut(q, o, parts)
BY DEF SameBut

\* Objects that differ in fields that are parts.
LEMMA SameFields ==
    ASSUME NEW o \in Objects, NEW q \in Objects, NEW parts,
           \A a \in TextAttributes \ parts : q.text[a] = o.text[a],
           \A f \in Flags \ parts : (f \in q.flags) = (f \in o.flags),
           "expired" \in parts \/ q.expired = o.expired,
           "locked" \in parts \/ q.locked = o.locked,
           "scope" \in parts \/ q.scope = o.scope,
           "type" \in parts \/ q.type = o.type,
           "groups" \in parts \/ q.groups = o.groups,
           "primary" \in parts \/ q.primary = o.primary,
           q.sd = o.sd
    PROVE  SameBut(q, o, parts)
<1>1. ASSUME NEW p \in AllParts \ parts PROVE Part(q, p) = Part(o, p)
  BY <1>1, PartIs DEF AllParts
<1> QED
  BY <1>1 DEF SameBut

LEMMA SameSd ==
    ASSUME NEW o \in Objects, NEW sd \in Descriptor, NEW parts,
           parts \cap SdParts # {},
           "cant_change" \in parts \/ sd.cant_change = o.sd.cant_change,
           "protect" \in parts \/ sd.protected = o.sd.protected,
           "others" \in parts \/ sd.others = o.sd.others
    PROVE  [o EXCEPT !.sd = sd] \in Objects /\ SameBut([o EXCEPT !.sd = sd], o, parts)
<1> DEFINE q == [o EXCEPT !.sd = sd]
<1>1. /\ q \in Objects /\ q.sd = sd
      /\ q.text = o.text /\ q.flags = o.flags /\ q.expired = o.expired
      /\ q.locked = o.locked /\ q.scope = o.scope /\ q.type = o.type
      /\ q.groups = o.groups /\ q.primary = o.primary
  BY DEF Objects
<1> HIDE DEF q
<1>2. ASSUME NEW p \in AllParts \ parts PROVE Part(q, p) = Part(o, p)
  BY <1>1, <1>2, PartIs DEF AllParts
<1>3. SameBut(q, o, parts)
  BY <1>2 DEF SameBut
<1> QED
  BY <1>1, <1>3 DEF q

\* The outcome q of an edit that may write to some parts.
Changes(q, r, parts) ==
    /\ q \in Results
    /\ q.ok => r.ok
    /\ "read" \notin Faults => SameBut(q.object, r.object, parts)

LEMMA WriteOutcome ==
    ASSUME NEW r \in Results, NEW o \in Objects, NEW q \in Write(r, o)
    PROVE  /\ q \in Results
           /\ q.ok => r.ok /\ q.object = o
           /\ q.object = r.object \/ q.object = o
<1>1. q = [r EXCEPT !.object = o] \/ q = [r EXCEPT !.ok = FALSE]
  BY DEF Write, Done, Failed, MayFail
<1> QED
  BY <1>1 DEF Results

LEMMA WriteChanges ==
    ASSUME NEW r \in Results, NEW o \in Objects, NEW parts,
           SameBut(o, r.object, parts), NEW q \in Write(r, o)
    PROVE  Changes(q, r, parts) /\ (q.ok => q.object = o)
BY WriteOutcome, SameButSame DEF Changes

LEMMA FailedChanges ==
    ASSUME NEW r \in Results, NEW parts
    PROVE  Changes(Failed(r), r, parts) /\ ~Failed(r).ok
BY SameButSame DEF Failed, Changes, Results

LEMMA NothingChanges ==
    ASSUME NEW r \in Results, NEW parts
    PROVE  Changes(r, r, parts)
BY SameButSame DEF Changes

LEMMA ChangesTwice ==
    ASSUME NEW r, NEW s, NEW q, NEW parts, Changes(s, r, parts), Changes(q, s, parts)
    PROVE  Changes(q, r, parts)
BY SameButTwice DEF Changes

LEMMA ReplaceTextChanges ==
    ASSUME NEW r \in Results, NEW a \in TextAttributes, NEW t \in Texts,
           NEW parts, a \in parts, NEW q \in ReplaceText(r, a, t)
    PROVE  /\ Changes(q, r, parts) /\ (q.ok => q.object.text[a] = t)
           /\ \A b \in TextAttributes \ {a} : q.object.text[b] = r.object.text[b]
<1> DEFINE o == [r.object EXCEPT !.text[a] = t]
<1>1. r.object \in Objects
  BY DEF Results
<1>2. /\ o \in Objects /\ o.text[a] = t
      /\ \A b \in TextAttributes \ {a} : o.text[b] = r.object.text[b]
      /\ o.flags = r.object.flags /\ o.expired = r.object.expired
      /\ o.locked = r.object.locked /\ o.scope = r.object.scope /\ o.type = r.object.type
      /\ o.groups = r.object.groups /\ o.primary = r.object.primary /\ o.sd = r.object.sd
  BY <1>1 DEF Objects
<1>3. (q = r /\ r.object.text[a] = t) \/ q \in Write(r, o)
  BY DEF ReplaceText
<1> HIDE DEF o
<1>4. SameBut(o, r.object, parts)
  BY <1>1, <1>2, SameFields
<1>5. CASE q = r /\ r.object.text[a] = t
  BY <1>5, NothingChanges
<1>6. CASE q \in Write(r, o)
  BY <1>2, <1>4, <1>6, WriteChanges, WriteOutcome
<1> QED
  BY <1>3, <1>5, <1>6

LEMMA FlagChanges ==
    ASSUME NEW r \in Results, NEW f \in Flags, NEW on \in BOOLEAN,
           NEW q \in SetFlag(r, f, on)
    PROVE  Changes(q, r, {f}) /\ (q.ok => (f \in q.object.flags) = on)
<1>1. r.object \in Objects /\ r.object.flags \in SUBSET Flags
  BY DEF Results, Objects
<1>2. PICK flags \in Uac(r.object) :
          q \in Write(r, [r.object EXCEPT !.flags = With(flags, f, on)])
  BY DEF SetFlag
<1>3. flags \in SUBSET Flags /\ ("read" \notin Faults => flags = r.object.flags)
  BY <1>1, <1>2 DEF Uac, MayFail
<1> DEFINE new == With(flags, f, on)
           o == [r.object EXCEPT !.flags = new]
<1>4. /\ new \in SUBSET Flags /\ (f \in new) = on
      /\ \A g \in Flags \ {f} : (g \in new) = (g \in flags)
  BY <1>3 DEF With
<1> HIDE DEF new
<1>5. /\ o \in Objects /\ o.flags = new
      /\ o.text = r.object.text /\ o.expired = r.object.expired
      /\ o.locked = r.object.locked /\ o.scope = r.object.scope /\ o.type = r.object.type
      /\ o.groups = r.object.groups /\ o.primary = r.object.primary /\ o.sd = r.object.sd
  BY <1>1, <1>4 DEF Objects
<1>6. q \in Write(r, o)
  BY <1>2 DEF new
<1> HIDE DEF o
<1>7. "read" \notin Faults => SameBut(o, r.object, {f})
  BY <1>1, <1>3, <1>4, <1>5, SameFields
<1>8. "read" \notin Faults => SameBut(q.object, r.object, {f})
  BY <1>5, <1>6, <1>7, WriteOutcome, SameButSame
<1> QED
  BY <1>4, <1>5, <1>6, <1>8, WriteOutcome DEF Changes

LEMMA ExpiredChanges ==
    ASSUME NEW r \in Results, NEW on \in BOOLEAN, NEW q \in SetExpired(r, on)
    PROVE  Changes(q, r, {"expired"}) /\ (q.ok => q.object.expired = on)
<1> DEFINE o == [r.object EXCEPT !.expired = on]
<1>1. r.object \in Objects
  BY DEF Results
<1>2. /\ o \in Objects /\ o.expired = on
      /\ o.text = r.object.text /\ o.flags = r.object.flags
      /\ o.locked = r.object.locked /\ o.scope = r.object.scope /\ o.type = r.object.type
      /\ o.groups = r.object.groups /\ o.primary = r.object.primary /\ o.sd = r.object.sd
  BY <1>1 DEF Objects
<1>3. q \in Write(r, o)
  BY DEF SetExpired
<1> HIDE DEF o
<1> QED
  BY <1>1, <1>2, <1>3, SameFields, WriteChanges

LEMMA UnlockChanges ==
    ASSUME NEW r \in Results, NEW q \in Unlock(r)
    PROVE  Changes(q, r, {"locked"}) /\ (q.ok => ~q.object.locked)
<1> DEFINE o == [r.object EXCEPT !.locked = FALSE]
<1>1. r.object \in Objects
  BY DEF Results
<1>2. /\ o \in Objects /\ o.locked = FALSE
      /\ o.text = r.object.text /\ o.flags = r.object.flags
      /\ o.expired = r.object.expired /\ o.scope = r.object.scope /\ o.type = r.object.type
      /\ o.groups = r.object.groups /\ o.primary = r.object.primary /\ o.sd = r.object.sd
  BY <1>1 DEF Objects
<1>3. q \in Write(r, o)
  BY DEF Unlock
<1> HIDE DEF o
<1> QED
  BY <1>1, <1>2, <1>3, SameFields, WriteChanges

LEMMA CantChangeChanges ==
    ASSUME NEW r \in Results, NEW on \in BOOLEAN, NEW q \in SetCantChange(r, on)
    PROVE  Changes(q, r, {"cant_change"}) /\ (q.ok => q.object.sd.cant_change = on)
<1> DEFINE sd == [r.object.sd EXCEPT !.cant_change = on, !.ordered = TRUE]
           o == [r.object EXCEPT !.sd = sd]
<1>1. r.object \in Objects /\ r.object.sd \in Descriptor
  BY DEF Results, Objects
<1>2. /\ sd \in Descriptor /\ sd.cant_change = on
      /\ sd.protected = r.object.sd.protected /\ sd.others = r.object.sd.others
  BY <1>1 DEF Descriptor
<1>3. q \in Write(r, o)
  BY DEF SetCantChange
<1>4. o.sd = sd
  BY <1>1 DEF Objects
<1> HIDE DEF sd
<1>5. o \in Objects /\ SameBut(o, r.object, {"cant_change"})
  BY <1>1, <1>2, SameSd DEF SdParts
<1> HIDE DEF o
<1> QED
  BY <1>2, <1>3, <1>4, <1>5, WriteChanges

LEMMA ProtectedChanges ==
    ASSUME NEW r \in Results, NEW on \in BOOLEAN, NEW q \in SetProtected(r, on)
    PROVE  Changes(q, r, {"protect"}) /\ (q.ok => q.object.sd.protected = on)
<1> DEFINE sd == [r.object.sd EXCEPT !.protected = on, !.ordered = TRUE]
           o == [r.object EXCEPT !.sd = sd]
<1>1. r.object \in Objects /\ r.object.sd \in Descriptor
  BY DEF Results, Objects
<1>2. /\ sd \in Descriptor /\ sd.protected = on
      /\ sd.cant_change = r.object.sd.cant_change /\ sd.others = r.object.sd.others
  BY <1>1 DEF Descriptor
<1>3. (q = r /\ r.object.sd.protected = on) \/ q \in Write(r, o)
  BY DEF SetProtected
<1>4. o.sd = sd
  BY <1>1 DEF Objects
<1> HIDE DEF sd
<1>5. o \in Objects /\ SameBut(o, r.object, {"protect"})
  BY <1>1, <1>2, SameSd DEF SdParts
<1> HIDE DEF o
<1> QED
  BY <1>2, <1>3, <1>4, <1>5, WriteChanges, NothingChanges

LEMMA ScopeWriteChanges ==
    ASSUME NEW r \in Results, NEW scope \in GroupScope, NEW q \in WriteScope(r, scope)
    PROVE  Changes(q, r, {"scope"}) /\ (q.ok => q.object.scope = scope)
<1>1. r.object \in Objects
  BY DEF Results
<1>2. CASE q = Failed(r)
  BY <1>2, FailedChanges
<1>3. CASE \E type \in GroupTypeRead(r.object) :
               q \in Write(r, [r.object EXCEPT !.scope = scope, !.type = type])
  <2>1. PICK type \in GroupTypeRead(r.object) :
                 q \in Write(r, [r.object EXCEPT !.scope = scope, !.type = type])
    BY <1>3
  <2>2. type \in GroupType /\ ("read" \notin Faults => type = r.object.type)
    BY <1>1, <2>1 DEF GroupTypeRead, MayFail, Objects, GroupType
  <2> DEFINE o == [r.object EXCEPT !.scope = scope, !.type = type]
  <2>3. /\ o \in Objects /\ o.scope = scope /\ o.type = type
        /\ o.text = r.object.text /\ o.flags = r.object.flags
        /\ o.expired = r.object.expired /\ o.locked = r.object.locked
        /\ o.groups = r.object.groups /\ o.primary = r.object.primary /\ o.sd = r.object.sd
    BY <1>1, <2>2 DEF Objects
  <2>4. q \in Write(r, o)
    BY <2>1
  <2> HIDE DEF o
  <2>5. "read" \notin Faults => SameBut(o, r.object, {"scope"})
    BY <1>1, <2>2, <2>3, SameFields
  <2>6. "read" \notin Faults => SameBut(q.object, r.object, {"scope"})
    BY <2>3, <2>4, <2>5, WriteOutcome, SameButSame
  <2> QED
    BY <2>3, <2>4, <2>6, WriteOutcome DEF Changes
<1> QED
  BY <1>2, <1>3 DEF WriteScope

LEMMA ScopeChanges ==
    ASSUME NEW r \in Results, NEW scope \in GroupScope, NEW q \in SetScope(r, scope)
    PROVE  Changes(q, r, {"scope"}) /\ (q.ok => q.object.scope = scope)
<1>1. PICK s : /\ q \in WriteScope(s, scope)
               /\ s = r \/ \E t \in WriteScope(r, "Universal") : s = [t EXCEPT !.ok = r.ok]
  BY DEF SetScope, Then
<1>2. Changes(s, r, {"scope"})
  <2>1. CASE s = r
    BY <2>1, NothingChanges
  <2>2. ASSUME NEW t \in WriteScope(r, "Universal"), s = [t EXCEPT !.ok = r.ok]
        PROVE  Changes(s, r, {"scope"})
    <3>1. Changes(t, r, {"scope"})
      BY ScopeWriteChanges DEF GroupScope
    <3>2. s \in Results /\ s.ok = r.ok /\ s.object = t.object
      BY <2>2, <3>1 DEF Changes, Results
    <3> QED
      BY <3>1, <3>2 DEF Changes
  <2> QED
    BY <1>1, <2>1, <2>2
<1>3. s \in Results
  BY <1>2 DEF Changes
<1>4. Changes(q, s, {"scope"}) /\ (q.ok => q.object.scope = scope)
  BY <1>1, <1>3, ScopeWriteChanges
<1> QED
  BY <1>2, <1>4, ChangesTwice

LEMMA TypeChanges ==
    ASSUME NEW r \in Results, NEW type \in GroupType, NEW q \in SetType(r, type)
    PROVE  Changes(q, r, {"type"}) /\ (q.ok => q.object.type = type)
<1> DEFINE o == [r.object EXCEPT !.type = type]
<1>1. r.object \in Objects
  BY DEF Results
<1>2. /\ o \in Objects /\ o.type = type
      /\ o.text = r.object.text /\ o.flags = r.object.flags
      /\ o.expired = r.object.expired /\ o.scope = r.object.scope
      /\ o.locked = r.object.locked
      /\ o.groups = r.object.groups /\ o.primary = r.object.primary /\ o.sd = r.object.sd
  BY <1>1 DEF Objects
<1>3. q \in Write(r, o) \/ q = Failed(r)
  BY DEF SetType, MayFail
<1> HIDE DEF o
<1> QED
  BY <1>1, <1>2, <1>3, SameFields, WriteChanges, FailedChanges

LEMMA SecurityChanges ==
    ASSUME NEW r \in Results, NEW sd \in Descriptor, NEW q \in ApplySecurity(r, sd)
    PROVE  Changes(q, r, SdParts) /\ (q.ok => q.object.sd = sd)
<1> DEFINE s == [r EXCEPT !.previous_sd = {r.object.sd}]
           o == [r.object EXCEPT !.sd = sd]
<1>1. r.object \in Objects /\ r.object.sd \in Descriptor
  BY DEF Results, Objects
<1>2. s \in Results /\ s.ok = r.ok /\ s.object = r.object
  BY <1>1 DEF Results
<1>3. q \in Write(s, o) \/ q = Failed(r)
  BY DEF ApplySecurity, MayFail
<1>4. o.sd = sd
  BY <1>1 DEF Objects
<1>5. o \in Objects /\ SameBut(o, r.object, SdParts)
  BY <1>1, SameSd DEF SdParts
<1> HIDE DEF s, o
<1>6. CASE q \in Write(s, o)
  <2>1. Changes(q, s, SdParts) /\ (q.ok => q.object = o)
    BY <1>2, <1>5, <1>6, WriteChanges
  <2> QED
    BY <1>2, <1>4, <2>1 DEF Changes
<1> QED
  BY <1>3, <1>6, FailedChanges

GroupParts == {"groups", "primary"}

LEMMA SameButGroups ==
    ASSUME NEW o \in Objects, NEW groups \in SUBSET Groups, NEW primary \in SUBSET Groups,
           NEW q, q = [o EXCEPT !.groups = groups, !.primary = primary]
    PROVE  q \in Objects /\ SameBut(q, o, GroupParts)
<1>1. /\ q \in Objects
      /\ q.text = o.text /\ q.flags = o.flags /\ q.expired = o.expired
      /\ q.locked = o.locked /\ q.scope = o.scope /\ q.type = o.type /\ q.sd = o.sd
  BY DEF Objects
<1> QED
  BY <1>1, SameFields DEF GroupParts

LEMMA GroupChanges ==
    ASSUME NEW r \in Results, NEW added \in SUBSET Groups, NEW removed \in SUBSET Groups,
           added \cap removed = {}, NEW q \in ChangeGroups(r, added, removed)
    PROVE  /\ Changes(q, r, GroupParts)
           /\ q.object.primary = r.object.primary
           /\ q.object.groups \subseteq r.object.groups \cup added
           /\ q.ok => added \subseteq q.object.groups /\ removed \cap q.object.groups = {}
<1> DEFINE accepted == (added \ (r.object.groups \cup r.object.primary))
                           \cup (removed \cap r.object.groups)
<1>1. PICK done \in SUBSET accepted :
          q = [r EXCEPT !.object.groups = (@ \ (done \cap removed)) \cup (done \cap added),
                        !.ok = @ /\ done = added \cup removed]
  BY DEF ChangeGroups
<1> DEFINE groups == (r.object.groups \ (done \cap removed)) \cup (done \cap added)
           o == [r.object EXCEPT !.groups = groups]
           ok == r.ok /\ done = added \cup removed
<1>2. r.object \in Objects /\ r.object.groups \in SUBSET Groups
  BY DEF Results, Objects
<1>3. groups \in SUBSET Groups
  BY <1>2
<1>4. q = [r EXCEPT !.object = o, !.ok = ok]
  BY <1>1
<1> HIDE DEF groups, ok
<1>5. /\ o \in Objects /\ o.groups = groups /\ o.primary = r.object.primary
      /\ o = [r.object EXCEPT !.groups = groups, !.primary = r.object.primary]
      /\ r.object.primary \in SUBSET Groups
  BY <1>2, <1>3 DEF Objects
<1>6. SameBut(o, r.object, GroupParts)
  BY <1>2, <1>3, <1>5, SameButGroups
<1> HIDE DEF o
<1>7. q \in Results /\ q.object = o /\ q.ok = ok
  BY <1>4, <1>5 DEF Results, ok
<1>8. groups \subseteq r.object.groups \cup added
  BY DEF groups
<1>9. ok => r.ok /\ added \subseteq groups /\ removed \cap groups = {}
  BY DEF ok, groups
<1> QED
  BY <1>5, <1>6, <1>7, <1>8, <1>9 DEF Changes

LEMMA PrimaryChanges ==
    ASSUME NEW r \in Results, NEW g \in Groups, NEW q \in SetPrimaryGroup(r, g)
    PROVE  /\ Changes(q, r, GroupParts)
           /\ q.ok => q.object.primary = {g} /\ g \notin q.object.groups
<1>1. PICK t \in ChangeGroups(r, {g} \ r.object.groups, {}) :
          q \in WritePrimaryGroup([t EXCEPT !.ok = r.ok], g)
  BY DEF SetPrimaryGroup, Then
<1> DEFINE s == [t EXCEPT !.ok = r.ok]
<1>2. Changes(t, r, GroupParts)
  BY <1>1, GroupChanges
<1>3. s \in Results /\ s.ok = r.ok /\ s.object = t.object
  BY <1>2 DEF Changes, Results
<1> HIDE DEF s
<1>4. Changes(s, r, GroupParts)
  BY <1>2, <1>3 DEF Changes
<1> DEFINE o == [s.object EXCEPT !.groups = (@ \cup s.object.primary) \ {g},
                                 !.primary = {g}]
           groups == (s.object.groups \cup s.object.primary) \ {g}
<1>5. q = Failed(s) \/ q \in Write(s, o)
  BY <1>1 DEF WritePrimaryGroup, s
<1>6. s.object \in Objects /\ groups \in SUBSET Groups /\ {g} \in SUBSET Groups
  BY <1>3 DEF Results, Objects
<1>7. o = [s.object EXCEPT !.groups = groups, !.primary = {g}]
      /\ o.groups = groups /\ o.primary = {g}
  BY <1>6 DEF Objects
<1>8. g \notin groups
  OBVIOUS
<1> HIDE DEF o, groups
<1>9. o \in Objects /\ SameBut(o, s.object, GroupParts)
  BY <1>6, <1>7, SameButGroups
<1>10. Changes(q, s, GroupParts) /\ (q.ok => q.object = o)
  BY <1>3, <1>5, <1>9, WriteChanges, FailedChanges
<1> QED
  BY <1>4, <1>7, <1>8, <1>10, ChangesTwice

\* The primary group of a user may be another; of a group's members none may.
GoodMembership(e, m) ==
    /\ m \in Membership
    /\ \/ m.current_primary_values = m.original_primary_values
       \/ e = "member_of" /\ \E g \in Groups : m.current_primary_values = {g}

LEMMA MembersChange ==
    ASSUME NEW r \in Results, NEW m, GoodMembership("members", m),
           NEW q \in ApplyMembers(r, m)
    PROVE  Changes(q, r, GroupParts) /\ (q.ok => Reflects(q.object, "members", m))
<1>1. m \in Membership /\ m.current_primary_values = m.original_primary_values
  BY DEF GoodMembership
<1>2. Added(m) \in SUBSET Groups /\ Removed(m) \in SUBSET Groups
      /\ Added(m) \cap Removed(m) = {}
  BY <1>1 DEF Membership, Added, Removed
<1>3. /\ Changes(q, r, GroupParts)
      /\ q.ok => Added(m) \subseteq q.object.groups /\ Removed(m) \cap q.object.groups = {}
  BY <1>2, GroupChanges DEF ApplyMembers
<1>4. Reflects(q.object, "members", m) <=>
          /\ Added(m) \ m.original_primary_values \subseteq q.object.groups \cup q.object.primary
          /\ Removed(m) \cap q.object.groups \subseteq m.original_primary_values
          /\ m.current_primary_values # m.original_primary_values =>
                 q.object.primary = m.current_primary_values
  BY DEF Reflects
<1> QED
  BY <1>1, <1>3, <1>4

LEMMA MemberOfChanges ==
    ASSUME NEW r \in Results, NEW m, GoodMembership("member_of", m),
           NEW q \in ApplyMemberOf(r, m)
    PROVE  Changes(q, r, GroupParts) /\ (q.ok => Reflects(q.object, "member_of", m))
<1> DEFINE primary == m.original_primary_values \cup m.current_primary_values
           added == Added(m) \ primary
           removed == Removed(m) \ primary
<1>1. m \in Membership
  BY DEF GoodMembership
<1>2. added \in SUBSET Groups /\ removed \in SUBSET Groups /\ added \cap removed = {}
  BY <1>1 DEF Membership, Added, Removed
<1>3. PICK s : /\ q \in ChangeGroups(s, added, removed)
               /\ IF m.current_primary_values = m.original_primary_values THEN s = r
                  ELSE \E g \in m.current_primary_values : s \in SetPrimaryGroup(r, g)
  BY DEF ApplyMemberOf, Then
<1>4. Reflects(q.object, "member_of", m) <=>
          /\ Added(m) \ m.original_primary_values \subseteq q.object.groups \cup q.object.primary
          /\ Removed(m) \cap q.object.groups \subseteq m.original_primary_values
          /\ m.current_primary_values # m.original_primary_values =>
                 q.object.primary = m.current_primary_values
  BY DEF Reflects
<1> HIDE DEF added, removed
<1>5. ASSUME NEW t \in Results, q \in ChangeGroups(t, added, removed)
      PROVE  /\ Changes(q, t, GroupParts)
             /\ q.object.primary = t.object.primary
             /\ q.object.groups \subseteq t.object.groups \cup added
             /\ q.ok => added \subseteq q.object.groups /\ removed \cap q.object.groups = {}
  BY <1>2, <1>5, GroupChanges
<1>6. CASE m.current_primary_values = m.original_primary_values
  <2>1. s = r
    BY <1>3, <1>6
  <2>2. Added(m) \ m.original_primary_values = added
        /\ \A G : removed \cap G = {} => Removed(m) \cap G \subseteq m.original_primary_values
    BY <1>6 DEF added, removed
  <2> QED
    BY <1>3, <1>4, <1>5, <1>6, <2>1, <2>2
<1>7. CASE m.current_primary_values # m.original_primary_values
  <2>1. PICK g \in Groups : m.current_primary_values = {g}
    BY <1>7 DEF GoodMembership
  <2>2. s \in SetPrimaryGroup(r, g)
    BY <1>3, <1>7, <2>1
  <2>3. /\ Changes(s, r, GroupParts) /\ s \in Results
        /\ s.ok => s.object.primary = {g} /\ g \notin s.object.groups
    BY <2>2, PrimaryChanges DEF Changes
  <2>4. /\ Changes(q, s, GroupParts) /\ (q.ok => s.ok)
        /\ q.object.primary = s.object.primary
        /\ q.object.groups \subseteq s.object.groups \cup added
        /\ q.ok => added \subseteq q.object.groups /\ removed \cap q.object.groups = {}
    BY <1>3, <1>5, <2>3 DEF Changes
  <2>5. ASSUME q.ok PROVE Reflects(q.object, "member_of", m)
    <3>1. q.object.primary = {g} /\ g \notin s.object.groups /\ g \notin added
      BY <2>1, <2>3, <2>4, <2>5 DEF added
    <3>2. g \notin q.object.groups
      BY <2>4, <3>1
    <3>3. Added(m) \ m.original_primary_values \subseteq q.object.groups \cup q.object.primary
      BY <2>1, <2>4, <2>5, <3>1 DEF added
    <3>4. Removed(m) \cap q.object.groups \subseteq m.original_primary_values
      BY <2>1, <2>4, <2>5, <3>2 DEF removed
    <3> QED
      BY <1>4, <2>1, <3>1, <3>3, <3>4
  <2>6. Changes(q, r, GroupParts)
    BY <2>3, <2>4, ChangesTwice
  <2> QED
    BY <2>5, <2>6
<1> QED
  BY <1>6, <1>7

LEMMA AttributesChange ==
    ASSUME NEW r \in Results, NEW shown,
           shown \in [original : [TextAttributes -> Texts], current : [TextAttributes -> Texts]],
           NEW q \in ApplyAttributes(r, shown)
    PROVE  /\ Changes(q, r, ChangedAttributes(shown))
           /\ q.ok => Reflects(q.object, "attributes", shown)
<1> DEFINE needed == {a \in ChangedAttributes(shown) :
                        r.object.text[a] # NoText \/ shown.current[a] # NoText}
<1>1. PICK written \in SUBSET needed :
          q = [r EXCEPT !.object.text = [a \in TextAttributes |->
                                            IF a \in written THEN shown.current[a] ELSE @[a]],
                        !.ok = @ /\ written = needed]
  BY DEF ApplyAttributes
<1> DEFINE text == [a \in TextAttributes |->
                        IF a \in written THEN shown.current[a] ELSE r.object.text[a]]
           o == [r.object EXCEPT !.text = text]
           ok == r.ok /\ written = needed
<1>2. r.object \in Objects /\ r.object.text \in [TextAttributes -> Texts]
  BY DEF Results, Objects
<1>3. text \in [TextAttributes -> Texts]
  BY <1>2 DEF ChangedAttributes
<1>4. q = [r EXCEPT !.object = o, !.ok = ok]
  BY <1>1
<1>5. /\ \A a \in TextAttributes \ ChangedAttributes(shown) : text[a] = r.object.text[a]
      /\ written = needed =>
             \A a \in ChangedAttributes(shown) : text[a] = shown.current[a]
  BY <1>1 DEF ChangedAttributes
<1> HIDE DEF text, ok, needed
<1>6. /\ o \in Objects /\ o.text = text /\ o.flags = r.object.flags
      /\ o.expired = r.object.expired /\ o.locked = r.object.locked
      /\ o.scope = r.object.scope /\ o.type = r.object.type
      /\ o.groups = r.object.groups /\ o.primary = r.object.primary /\ o.sd = r.object.sd
  BY <1>2, <1>3 DEF Objects
<1> HIDE DEF o
<1>7. SameBut(o, r.object, ChangedAttributes(shown))
  BY <1>2, <1>5, <1>6, SameFields
<1>8. q \in Results /\ q.object = o /\ q.ok = ok
  BY <1>4, <1>6 DEF Results, ok
<1>9. Reflects(o, "attributes", shown) <=>
          \A a \in ChangedAttributes(shown) : o.text[a] = shown.current[a]
  BY DEF Reflects
<1> QED
  BY <1>5, <1>6, <1>7, <1>8, <1>9 DEF Changes, ok

LEMMA PhoneChanges ==
    ASSUME NEW r \in Results, NEW main \in Texts, NEW other \in Texts,
           NEW s \in ReplaceText(r, "telephoneNumber", main),
           NEW q \in ReplaceText(s, "otherTelephone", other)
    PROVE  /\ Changes(q, r, {"telephoneNumber", "otherTelephone"})
           /\ q.ok => /\ q.object.text["telephoneNumber"] = main
                      /\ q.object.text["otherTelephone"] = other
<1> DEFINE parts == {"telephoneNumber", "otherTelephone"}
<1>1. "telephoneNumber" \in TextAttributes /\ "otherTelephone" \in TextAttributes
  BY DEF TextAttributes
<1>2. Changes(s, r, parts) /\ (s.ok => s.object.text["telephoneNumber"] = main)
  BY <1>1, ReplaceTextChanges
<1>3. s \in Results
  BY <1>2 DEF Changes
<1>4. /\ Changes(q, s, parts) /\ (q.ok => q.object.text["otherTelephone"] = other)
      /\ q.object.text["telephoneNumber"] = s.object.text["telephoneNumber"]
  <2>1. /\ "otherTelephone" \in parts
        /\ "telephoneNumber" \in TextAttributes \ {"otherTelephone"}
    BY <1>1
  <2> HIDE DEF parts
  <2> QED
    BY <1>1, <1>3, <2>1, ReplaceTextChanges
<1>5. q.ok => s.ok
  BY <1>4 DEF Changes
<1> QED
  BY <1>2, <1>4, <1>5, ChangesTwice

GoodValue(e, v) ==
    /\ v \in ShownBy(e)
    /\ e \in {"members", "member_of"} => GoodMembership(e, v)

\* An edit writes to its own parts of the object only, and if all is well
\* afterwards the object is what it shows.
LEMMA ApplyChanges ==
    ASSUME NEW r \in Results, NEW e \in Edits, NEW v, GoodValue(e, v),
           NEW q \in Apply(e, v, r)
    PROVE  Changes(q, r, Parts(e, v)) /\ (q.ok => Reflects(q.object, e, v))
<1>1. CASE e = "description"
  <2>1. v \in Texts
    BY <1>1 DEF GoodValue, ShownBy
  <2>2. Trim[v] \in Texts /\ "description" \in TextAttributes
    BY <2>1, AttributeEditsAssumption DEF TextAttributes
  <2>3. q \in ReplaceText(r, "description", Trim[v]) /\ Parts(e, v) = {"description"}
    BY <1>1 DEF Apply, Parts, Flags
  <2>4. Reflects(q.object, e, v) <=> q.object.text["description"] = Trim[v]
    BY <1>1 DEF Reflects, Load, Flags
  <2> QED
    BY <2>2, <2>3, <2>4, ReplaceTextChanges
<1>2. CASE e = "upn"
  <2>1. v \in Texts
    BY <1>2 DEF GoodValue, ShownBy
  <2>2. Trim[v] \in Texts /\ "userPrincipalName" \in TextAttributes
    BY <2>1, AttributeEditsAssumption DEF TextAttributes
  <2>3. /\ q \in ReplaceText(r, "userPrincipalName", Trim[v])
        /\ Parts(e, v) = {"userPrincipalName"}
    BY <1>2 DEF Apply, Parts, Flags
  <2>4. Reflects(q.object, e, v) <=> q.object.text["userPrincipalName"] = Trim[v]
    BY <1>2 DEF Reflects, Load, Flags
  <2> QED
    BY <2>2, <2>3, <2>4, ReplaceTextChanges
<1>3. CASE e = "phone"
  <2>1. v \in [main : Texts, other : Texts]
    BY <1>3 DEF GoodValue, ShownBy
  <2>2. Trim[v.main] \in Texts /\ v.other \in Texts
    BY <2>1, AttributeEditsAssumption
  <2>3. Parts(e, v) = {"telephoneNumber", "otherTelephone"}
    BY <1>3 DEF Parts, Flags
  <2>4. PICK s \in ReplaceText(r, "telephoneNumber", Trim[v.main]) :
            q \in ReplaceText(s, "otherTelephone", v.other)
    BY <1>3 DEF Apply, Then, Flags
  <2>5. Reflects(q.object, e, v) <=>
            [main |-> q.object.text["telephoneNumber"],
             other |-> q.object.text["otherTelephone"]]
              = [main |-> Trim[v.main], other |-> v.other]
    BY <1>3 DEF Reflects, Load, Flags
  <2> QED
    BY <2>2, <2>3, <2>4, <2>5, PhoneChanges
<1>4. CASE e \in Flags
  <2>1. /\ v \in BOOLEAN /\ q \in SetFlag(r, e, v) /\ Parts(e, v) = {e}
        /\ Reflects(q.object, e, v) <=> (e \in q.object.flags) = v
    BY <1>4 DEF GoodValue, ShownBy, Apply, Parts, Reflects, Load, Flags
  <2> QED
    BY <1>4, <2>1, FlagChanges
<1>5. CASE e = "expired"
  <2>1. /\ v \in BOOLEAN /\ q \in SetExpired(r, v) /\ Parts(e, v) = {"expired"}
        /\ Reflects(q.object, e, v) <=> q.object.expired = v
    BY <1>5 DEF GoodValue, ShownBy, Apply, Parts, Reflects, Load, Flags
  <2> QED
    BY <2>1, ExpiredChanges
<1>6. CASE e = "cant_change"
  <2>1. /\ v \in BOOLEAN /\ q \in SetCantChange(r, v) /\ Parts(e, v) = {"cant_change"}
        /\ Reflects(q.object, e, v) <=> q.object.sd.cant_change = v
    BY <1>6 DEF GoodValue, ShownBy, Apply, Parts, Reflects, Load, Flags
  <2> QED
    BY <2>1, CantChangeChanges
<1>7. CASE e = "unlock"
  <2>1. /\ v \in BOOLEAN /\ q \in IF v THEN Unlock(r) ELSE {r}
        /\ Parts(e, v) = {"locked"}
        /\ Reflects(q.object, e, v) <=> (v => ~q.object.locked)
    BY <1>7 DEF GoodValue, ShownBy, Apply, Parts, Reflects, Load, Flags
  <2> QED
    BY <2>1, UnlockChanges, NothingChanges
<1>8. CASE e = "protect"
  <2>1. /\ v \in BOOLEAN /\ q \in SetProtected(r, v) /\ Parts(e, v) = {"protect"}
        /\ Reflects(q.object, e, v) <=> q.object.sd.protected = v
    BY <1>8 DEF GoodValue, ShownBy, Apply, Parts, Reflects, Load, Flags
  <2> QED
    BY <2>1, ProtectedChanges
<1>9. CASE e = "scope"
  <2>1. /\ v \in GroupScope /\ q \in SetScope(r, v) /\ Parts(e, v) = {"scope"}
        /\ Reflects(q.object, e, v) <=> q.object.scope = v
    BY <1>9 DEF GoodValue, ShownBy, Apply, Parts, Reflects, Load, Flags
  <2> QED
    BY <2>1, ScopeChanges
<1>10. CASE e = "type"
  <2>1. /\ v \in GroupType /\ q \in SetType(r, v) /\ Parts(e, v) = {"type"}
        /\ Reflects(q.object, e, v) <=> q.object.type = v
    BY <1>10 DEF GoodValue, ShownBy, Apply, Parts, Reflects, Load, Flags
  <2> QED
    BY <2>1, TypeChanges
<1>11. CASE e = "members"
  <2>1. /\ GoodMembership("members", v) /\ q \in ApplyMembers(r, v)
        /\ Parts(e, v) = GroupParts
    BY <1>11 DEF GoodValue, Apply, Parts, GroupParts, Flags
  <2> QED
    BY <1>11, <2>1, MembersChange
<1>12. CASE e = "member_of"
  <2>1. /\ GoodMembership("member_of", v) /\ q \in ApplyMemberOf(r, v)
        /\ Parts(e, v) = GroupParts
    BY <1>12 DEF GoodValue, Apply, Parts, GroupParts, Flags
  <2> QED
    BY <1>12, <2>1, MemberOfChanges
<1>13. CASE e = "attributes"
  <2>1. /\ v \in [original : [TextAttributes -> Texts], current : [TextAttributes -> Texts]]
        /\ q \in ApplyAttributes(r, v) /\ Parts(e, v) = ChangedAttributes(v)
    BY <1>13 DEF GoodValue, ShownBy, Apply, Parts, Flags
  <2> QED
    BY <1>13, <2>1, AttributesChange
<1>14. CASE e = "security"
  <2>1. /\ v \in Descriptor /\ q \in ApplySecurity(r, v) /\ Parts(e, v) = SdParts
        /\ Reflects(q.object, e, v) <=> q.object.sd = v
    BY <1>14 DEF GoodValue, ShownBy, Apply, Parts, Reflects, Load, Flags, SdParts
  <2> QED
    BY <2>1, SecurityChanges
<1> QED
  BY <1>1, <1>2, <1>3, <1>4, <1>5, <1>6, <1>7, <1>8, <1>9, <1>10, <1>11, <1>12, <1>13, <1>14
  DEF Edits, UserEdits, GroupEdits, AdvancedEdits, Flags

\* What others write elsewhere leaves the object as the edit shows it.
LEMMA ReflectsKept ==
    ASSUME NEW e \in Edits, NEW v, GoodValue(e, v), NEW o \in Objects, NEW q \in Objects,
           NEW parts, SameBut(q, o, parts), Parts(e, v) \cap parts = {},
           Reflects(o, e, v)
    PROVE  Reflects(q, e, v)
<1>1. \A p \in AllParts \cap Parts(e, v) : Part(q, p) = Part(o, p)
  BY DEF SameBut
<1>2. CASE e \in {"description", "upn", "phone"}
  <2>1. \A a \in TextAttributes : a \in Parts(e, v) => q.text[a] = o.text[a]
    BY <1>1, PartIs DEF AllParts
  <2>2. Load(e, q) = Load(e, o)
    BY <1>2, <2>1 DEF Load, Parts, TextAttributes, Flags
  <2> QED
    BY <1>2, <2>2 DEF Reflects
<1>3. CASE e \in Flags
  <2>1. (e \in q.flags) = (e \in o.flags)
    BY <1>1, <1>3, PartIs DEF Parts, AllParts, Flags
  <2>2. Load(e, q) = Load(e, o)
    BY <1>3, <2>1 DEF Load, Flags
  <2> QED
    BY <1>3, <2>2 DEF Reflects, Flags
<1>4. CASE e = "unlock"
  <2>1. Parts(e, v) = {"locked"} /\ "locked" \in AllParts
    BY <1>4 DEF Parts, AllParts, Flags
  <2>2. q.locked = o.locked
    BY <1>1, <2>1, PartIs
  <2> QED
    BY <1>4, <2>2 DEF Reflects
<1>8. CASE e \in {"expired", "cant_change", "protect", "scope", "type"}
  <2>1. e \in AllParts \cap Parts(e, v)
    BY <1>8 DEF Parts, AllParts, Flags
  <2>2. Part(q, e) = Part(o, e)
    BY <1>1, <2>1
  <2>3. \A z : Load(e, z) = Part(z, e)
    BY <1>8 DEF Load, Part, Flags, TextAttributes
  <2>4. Load(e, q) = Load(e, o)
    BY <2>2, <2>3
  <2> QED
    BY <1>8, <2>4 DEF Reflects
<1>5. CASE e \in {"members", "member_of"}
  <2>1. Part(q, "groups") = Part(o, "groups") /\ Part(q, "primary") = Part(o, "primary")
    BY <1>1, <1>5 DEF Parts, AllParts, Flags
  <2>2. q.groups = o.groups /\ q.primary = o.primary
    BY <2>1, PartIs
  <2> QED
    BY <1>5, <2>2 DEF Reflects
<1>6. CASE e = "attributes"
  <2>1. \A a \in ChangedAttributes(v) : a \in TextAttributes /\ a \in AllParts \cap Parts(e, v)
    BY <1>6 DEF Parts, AllParts, ChangedAttributes, Flags
  <2>2. \A a \in ChangedAttributes(v) : q.text[a] = o.text[a]
    BY <1>1, <2>1, PartIs
  <2> QED
    BY <1>6, <2>2 DEF Reflects
<1>7. CASE e = "security"
  <2>1. q.sd = o.sd
    BY <1>7 DEF Parts, SameBut, SdParts, Flags
  <2> QED
    BY <1>7, <2>1 DEF Reflects, Load, Flags
<1> QED
  BY <1>2, <1>3, <1>4, <1>5, <1>6, <1>7, <1>8
  DEF Edits, UserEdits, GroupEdits, AdvancedEdits, Flags

-----------------------------------------------------------------------------
(* What the apply of a list does.                                          *)

LEMMA LeastElement ==
    ASSUME NEW T \in SUBSET Nat, T # {}
    PROVE  \E n \in T : \A m \in T : n <= m
<1> DEFINE R == OpToRel(<, Nat)
<1>1. IsWellFoundedOn(R, Nat)
  BY NatLessThanWellFounded
<1>2. \A i, j \in Nat : <<i, j>> \in R <=> i < j
  BY DEF OpToRel
<1> HIDE DEF R
<1>3. PICK n \in T : \A m \in T : <<m, n>> \notin R
  BY <1>1, WFMin
<1>4. \A m \in T : ~ (m < n)
  BY <1>2, <1>3
<1> QED
  BY <1>4

LEMMA AppliedFrom ==
    ASSUME NEW list, NEW shown, NEW r, NEW f, NEW g, NEW n,
           n \in 1..Len(list) => f[n - 1] = g[n - 1]
    PROVE  Applied(f, list, shown, r, n) = Applied(g, list, shown, r, n)
BY DEF Applied, Then

AppliesTo(f, list, shown, r, n) ==
    /\ f = [i \in Nat |-> f[i]]
    /\ \A i \in 0..n : f[i] = Applied(f, list, shown, r, i)

LEMMA AppliesToSome ==
    ASSUME NEW T, NEW list \in Seq(T), NEW shown, NEW r
    PROVE  \E f : AppliesTo(f, list, shown, r, Len(list))
<1> DEFINE Possible(n) == \E f : AppliesTo(f, list, shown, r, n)
           Not == {n \in 0..Len(list) : ~ Possible(n)}
<1>1. Possible(0)
  <2> DEFINE f == [i \in Nat |-> {r}]
  <2>1. f = [i \in Nat |-> f[i]] /\ \A i \in 0..0 : f[i] = {r} /\ i \notin 1..Len(list)
    OBVIOUS
  <2> HIDE DEF f
  <2>2. AppliesTo(f, list, shown, r, 0)
    BY <2>1 DEF AppliesTo, Applied
  <2> QED
    BY <2>2
<1>2. ASSUME NEW n \in 1..Len(list), Possible(n - 1) PROVE Possible(n)
  <2>1. PICK f : AppliesTo(f, list, shown, r, n - 1)
    BY <1>2
  <2> DEFINE last == Applied(f, list, shown, r, n)
             g == [f EXCEPT ![n] = last]
  <2>2. /\ g = [i \in Nat |-> g[i]] /\ g[n] = last
        /\ \A i \in 0..(n - 1) : g[i] = f[i]
    <3>1. f = [i \in Nat |-> f[i]] /\ n \in Nat
      BY <2>1 DEF AppliesTo
    <3> HIDE DEF last
    <3> QED
      BY <3>1, SMTT(30)
  <2> HIDE DEF g
  <2>3. ASSUME NEW i \in 0..n PROVE g[i] = Applied(g, list, shown, r, i)
    <3>1. i \in 1..Len(list) => g[i - 1] = f[i - 1]
      BY <2>2
    <3>2. Applied(g, list, shown, r, i) = Applied(f, list, shown, r, i)
      BY <3>1, AppliedFrom
    <3>3. g[i] = Applied(f, list, shown, r, i)
      BY <2>1, <2>2 DEF AppliesTo
    <3> QED
      BY <3>2, <3>3
  <2> QED
    BY <2>2, <2>3 DEF AppliesTo
<1> HIDE DEF Possible
<1>3. ASSUME Not # {} PROVE FALSE
  <2>1. Not \in SUBSET Nat
    OBVIOUS
  <2> HIDE DEF Not
  <2>2. PICK n \in Not : \A m \in Not : n <= m
    BY <1>3, <2>1, LeastElement
  <2> USE DEF Not
  <2>3. n \in 1..Len(list)
    BY <1>1, <2>2
  <2>4. n - 1 \notin Not /\ n - 1 \in 0..Len(list)
    BY <2>2, <2>3
  <2> QED
    BY <1>2, <2>2, <2>3, <2>4
<1>4. Possible(Len(list))
  BY <1>3
<1> QED
  BY <1>4 DEF Possible

LEMMA ApplyAllSteps ==
    ASSUME NEW T, NEW list \in Seq(T), NEW shown, NEW r
    PROVE  \E f : /\ AppliesTo(f, list, shown, r, Len(list))
                  /\ ApplyAll(list, shown, r) = f[Len(list)]
<1> DEFINE all == CHOOSE f : f = [n \in Nat |-> Applied(f, list, shown, r, n)]
<1>1. PICK f : AppliesTo(f, list, shown, r, Len(list))
  BY AppliesToSome
<1> DEFINE g == [n \in Nat |-> IF n <= Len(list) THEN f[n] ELSE {r}]
<1>2. Len(list) \in Nat
  OBVIOUS
<1>3. /\ g = [n \in Nat |-> g[n]]
      /\ \A n \in Nat : n <= Len(list) => g[n] = f[n]
      /\ \A n \in Nat : ~(n <= Len(list)) => g[n] = {r}
  OBVIOUS
<1> HIDE DEF g
<1>4. ASSUME NEW n \in Nat PROVE g[n] = Applied(g, list, shown, r, n)
  <2>1. n \in 1..Len(list) => g[n - 1] = f[n - 1]
    BY <1>2, <1>3
  <2>2. Applied(g, list, shown, r, n) = Applied(f, list, shown, r, n)
    BY <2>1, AppliedFrom
  <2>3. CASE n <= Len(list)
    BY <1>1, <1>2, <1>3, <2>2, <2>3 DEF AppliesTo
  <2>4. CASE ~(n <= Len(list))
    BY <1>2, <1>3, <2>4 DEF Applied
  <2> QED
    BY <2>3, <2>4
<1>5. g = [n \in Nat |-> Applied(g, list, shown, r, n)]
  BY <1>3, <1>4
<1>6. all = [n \in Nat |-> Applied(all, list, shown, r, n)]
  BY <1>5
<1>7. ApplyAll(list, shown, r) = all[Len(list)]
  BY DEF ApplyAll
<1> HIDE DEF all
<1>8. \A n \in Nat : all[n] = Applied(all, list, shown, r, n)
  BY <1>6
<1>9. all = [n \in Nat |-> all[n]]
  BY <1>6, <1>8
<1>10. AppliesTo(all, list, shown, r, Len(list))
  BY <1>8, <1>9 DEF AppliesTo
<1> QED
  BY <1>7, <1>10

\* The parts of the object that the first n edits of a list may write to.
PartsUpTo(list, shown, n) == UNION {Parts(list[i], shown[list[i]]) : i \in 1..n}

OverwrittenBy(list, shown, i, n) ==
    \E j \in 1..n : /\ j > i
                    /\ Parts(list[i], shown[list[i]])
                         \cap Parts(list[j], shown[list[j]]) # {}

\* What the outcome s of the first n edits is like.
Outcome(s, r, list, shown, n) ==
    /\ Changes(s, r, PartsUpTo(list, shown, n))
    /\ "read" \notin Faults /\ s.ok =>
           \A i \in 1..n : \/ Reflects(s.object, list[i], shown[list[i]])
                           \/ OverwrittenBy(list, shown, i, n)

LEMMA MoreParts ==
    ASSUME NEW q, NEW o, NEW parts, NEW more, SameBut(q, o, parts), parts \subseteq more
    PROVE  SameBut(q, o, more)
BY DEF SameBut

LEMMA MoreChanges ==
    ASSUME NEW q, NEW r, NEW parts, NEW more, Changes(q, r, parts), parts \subseteq more
    PROVE  Changes(q, r, more)
BY MoreParts DEF Changes

LEMMA NextPart ==
    ASSUME NEW list, NEW shown, NEW n \in Nat \ {0}
    PROVE  /\ PartsUpTo(list, shown, n - 1) \subseteq PartsUpTo(list, shown, n)
           /\ Parts(list[n], shown[list[n]]) \subseteq PartsUpTo(list, shown, n)
<1>1. n \in 1..n /\ 1..(n - 1) \subseteq 1..n
  OBVIOUS
<1> QED
  BY <1>1 DEF PartsUpTo

LEMMA OutcomeNext ==
    ASSUME NEW E \in SUBSET Edits, NEW list \in Seq(E), NEW shown,
           \A e \in E : GoodValue(e, shown[e]),
           NEW r \in Results, NEW n \in 1..Len(list),
           NEW s, Outcome(s, r, list, shown, n - 1),
           NEW q \in Apply(list[n], shown[list[n]], s)
    PROVE  Outcome(q, r, list, shown, n)
<1> DEFINE P(i) == Parts(list[i], shown[list[i]])
           R(o, i) == Reflects(o, list[i], shown[list[i]])
<1>1. \A i \in 1..Len(list) : list[i] \in Edits /\ GoodValue(list[i], shown[list[i]])
  OBVIOUS
<1>2. Changes(s, r, PartsUpTo(list, shown, n - 1)) /\ s \in Results
  BY DEF Outcome, Changes
<1>3. Changes(q, s, P(n)) /\ (q.ok => R(q.object, n))
  BY <1>1, <1>2, ApplyChanges
<1>4. n \in Nat \ {0}
  OBVIOUS
<1>5. Changes(q, r, PartsUpTo(list, shown, n))
  <2> DEFINE more == PartsUpTo(list, shown, n)
             less == PartsUpTo(list, shown, n - 1)
             part == P(n)
  <2>1. less \subseteq more /\ part \subseteq more
    BY <1>4, NextPart
  <2>2. Changes(s, r, less) /\ Changes(q, s, part)
    BY <1>2, <1>3
  <2> HIDE DEF more, less, part
  <2>3. Changes(s, r, more) /\ Changes(q, s, more)
    BY <2>1, <2>2, MoreChanges
  <2>4. Changes(q, r, more)
    BY <2>3, ChangesTwice
  <2> QED
    BY <2>4 DEF more
<1>6. /\ s.object \in Objects /\ q.object \in Objects
      /\ q.ok => s.ok
      /\ "read" \notin Faults => SameBut(q.object, s.object, P(n))
  BY <1>2, <1>3 DEF Changes, Results
<1>7. ASSUME "read" \notin Faults, q.ok, NEW i \in 1..(n - 1)
      PROVE  R(q.object, i) \/ OverwrittenBy(list, shown, i, n)
  <2>1. i \in 1..Len(list) /\ i < n /\ n \in 1..n /\ 1..(n - 1) \subseteq 1..n
    OBVIOUS
  <2>2. R(s.object, i) \/ OverwrittenBy(list, shown, i, n - 1)
    BY <1>6, <1>7 DEF Outcome
  <2>3. CASE OverwrittenBy(list, shown, i, n - 1)
    BY <2>1, <2>3 DEF OverwrittenBy
  <2>4. CASE P(i) \cap P(n) # {}
    BY <2>1, <2>4 DEF OverwrittenBy
  <2>5. CASE R(s.object, i) /\ P(i) \cap P(n) = {}
    BY <1>1, <1>6, <1>7, <2>1, <2>5, ReflectsKept
  <2> QED
    BY <2>2, <2>3, <2>4, <2>5
<1>8. \A i \in 1..n : i = n \/ i \in 1..(n - 1)
  OBVIOUS
<1>9. ASSUME "read" \notin Faults, q.ok, NEW i \in 1..n
      PROVE  R(q.object, i) \/ OverwrittenBy(list, shown, i, n)
  BY <1>3, <1>7, <1>8, <1>9
<1> QED
  BY <1>5, <1>9 DEF Outcome

\* AttributeEdit::apply(): the edits on the list write to their own parts only,
\* and if everything succeeded the object is what they show, but for what one
\* after them writes over.
LEMMA ApplyAllOutcome ==
    ASSUME NEW E \in SUBSET Edits, NEW list \in Seq(E), NEW shown,
           \A e \in E : GoodValue(e, shown[e]),
           NEW r \in Results, NEW q \in ApplyAll(list, shown, r)
    PROVE  Outcome(q, r, list, shown, Len(list))
<1>1. PICK f : /\ AppliesTo(f, list, shown, r, Len(list))
               /\ ApplyAll(list, shown, r) = f[Len(list)]
  BY ApplyAllSteps
<1> DEFINE Right(n) == \A s \in f[n] : Outcome(s, r, list, shown, n)
           Not == {n \in 0..Len(list) : ~ Right(n)}
<1>2. Right(0)
  <2>1. f[0] = {r}
    <3>1. 0 \in 0..Len(list) /\ 0 \notin 1..Len(list)
      OBVIOUS
    <3>2. f[0] = Applied(f, list, shown, r, 0)
      BY <1>1, <3>1 DEF AppliesTo
    <3> QED
      BY <3>1, <3>2, Zenon DEF Applied
  <2>2. Changes(r, r, PartsUpTo(list, shown, 0))
    BY NothingChanges
  <2>3. Outcome(r, r, list, shown, 0)
    BY <2>2 DEF Outcome
  <2> QED
    BY <2>1, <2>3
<1>3. ASSUME NEW n \in 1..Len(list), Right(n - 1) PROVE Right(n)
  <2>1. f[n] = Applied(f, list, shown, r, n)
    BY <1>1 DEF AppliesTo
  <2>2. \A s \in f[n] : \E t \in f[n - 1] : s \in Apply(list[n], shown[list[n]], t)
    BY <2>1 DEF Applied, Then
  <2> QED
    BY <1>3, <2>2, OutcomeNext
<1> HIDE DEF Right
<1>4. ASSUME Not # {} PROVE FALSE
  <2>1. Not \in SUBSET Nat
    OBVIOUS
  <2> HIDE DEF Not
  <2>2. PICK n \in Not : \A m \in Not : n <= m
    BY <1>4, <2>1, LeastElement
  <2> USE DEF Not
  <2>3. n \in 1..Len(list)
    BY <1>2, <2>2
  <2>4. n - 1 \notin Not /\ n - 1 \in 0..Len(list)
    BY <2>2, <2>3
  <2> QED
    BY <1>3, <2>2, <2>3, <2>4
<1>5. Right(Len(list))
  BY <1>4
<1> QED
  BY <1>1, <1>5 DEF Right

-----------------------------------------------------------------------------
(* The types of what the dialog shows.                                     *)

TypedPlace(d) ==
    /\ d.tab \in Tabs /\ d.going \in Tabs
    /\ d.warning \in {"none", "attributes", "security"}
    /\ d.previous_sd \in SUBSET Descriptor

TypedDialog(d) ==
    /\ TypedPlace(d)
    /\ d.open => /\ \A e \in EditList(d) : GoodValue(e, d.shown[e])
                 /\ IsInjective(d.apply_list)

LEMMA EditsListed ==
    ASSUME NEW d
    PROVE  EditList(d) \in SUBSET Edits
BY DEF EditList, EditsOf, Edits

LEMMA LoadedValues ==
    ASSUME NEW o \in Objects, NEW e \in Edits
    PROVE  GoodValue(e, Load(e, o))
<1>1. /\ o.text \in [TextAttributes -> Texts] /\ o.flags \in SUBSET Flags
      /\ o.expired \in BOOLEAN /\ o.scope \in GroupScope /\ o.type \in GroupType
      /\ o.groups \in SUBSET Groups /\ o.primary \in SUBSET Groups
      /\ o.sd \in Descriptor /\ o.sd.cant_change \in BOOLEAN /\ o.sd.protected \in BOOLEAN
  BY DEF Objects, Descriptor
<1>2. CASE e \in {"description", "upn", "phone"}
  BY <1>1, <1>2 DEF GoodValue, ShownBy, Load, TextAttributes, Flags
<1>3. CASE e \in Flags
  <2>1. Load(e, o) = (e \in o.flags) /\ ShownBy(e) = BOOLEAN
    BY <1>3 DEF ShownBy, Load, Flags
  <2>2. e \notin {"members", "member_of"}
    BY <1>3 DEF Flags
  <2>3. (e \in o.flags) \in BOOLEAN
    OBVIOUS
  <2> QED
    BY <2>1, <2>2, <2>3 DEF GoodValue
<1>4. CASE e \in {"expired", "cant_change", "unlock", "protect", "scope", "type", "security"}
  BY <1>1, <1>4 DEF GoodValue, ShownBy, Load, Flags
<1>5. CASE e \in {"members", "member_of"}
  <2>1. /\ LoadMembership(o) \in Membership
        /\ LoadMembership(o).current_primary_values
             = LoadMembership(o).original_primary_values
    BY <1>1 DEF LoadMembership, Membership
  <2>2. Load(e, o) = LoadMembership(o) /\ ShownBy(e) = Membership
    BY <1>5 DEF Load, ShownBy, Flags
  <2> QED
    BY <2>1, <2>2 DEF GoodValue, GoodMembership
<1>6. CASE e = "attributes"
  <2>1. Load(e, o) = [original |-> o.text, current |-> o.text]
    BY <1>6 DEF Load, LoadAttributes, Flags
  <2> QED
    BY <1>1, <1>6, <2>1 DEF GoodValue, ShownBy
<1> QED
  BY <1>2, <1>3, <1>4, <1>5, <1>6
  DEF Edits, UserEdits, GroupEdits, AdvancedEdits, Flags

LEMMA ResetTyped ==
    ASSUME NEW d, IsDialog(d), TypedPlace(d), NEW o \in Objects
    PROVE  TypedDialog(ResetInternal(d, o))
<1> DEFINE shown == [e \in EditList(d) |-> Load(e, o)]
           x == [d EXCEPT !.shown = shown, !.loaded = {o}, !.apply_list = << >>,
                          !.buttons = FALSE, !.undiscarded = FALSE]
<1>1. ResetInternal(d, o) = x
  BY DEF ResetInternal
<1>2. \A e \in EditList(d) : shown[e] = Load(e, o)
  OBVIOUS
<1> HIDE DEF shown
<1>3. /\ x.advanced = d.advanced /\ x.tab = d.tab /\ x.going = d.going
      /\ x.warning = d.warning /\ x.previous_sd = d.previous_sd
      /\ x.shown = shown /\ x.apply_list = << >>
  BY DEF IsDialog, Fields
<1> HIDE DEF x
<1>4. EditList(x) = EditList(d)
  BY <1>3 DEF EditList
<1>5. \A e \in EditList(x) : GoodValue(e, x.shown[e])
  BY <1>2, <1>3, <1>4, EditsListed, LoadedValues
<1>6. IsInjective(x.apply_list)
  BY <1>3 DEF IsInjective
<1> QED
  BY <1>1, <1>3, <1>5, <1>6 DEF TypedDialog, TypedPlace

LEMMA AppendedOnce ==
    ASSUME NEW S, NEW list \in Seq(S), NEW e \in S, IsInjective(list),
           \A i \in DOMAIN list : list[i] # e
    PROVE  IsInjective(Append(list, e))
<1>1. /\ Len(list) \in Nat /\ DOMAIN list = 1..Len(list)
      /\ DOMAIN Append(list, e) = 1..(Len(list) + 1)
      /\ Append(list, e)[Len(list) + 1] = e
      /\ \A i \in 1..Len(list) : Append(list, e)[i] = list[i]
  OBVIOUS
<1>2. \A i \in 1..(Len(list) + 1) : i = Len(list) + 1 \/ i \in 1..Len(list)
  BY <1>1
<1> QED
  BY <1>1, <1>2 DEF IsInjective

LEMMA EditedTyped ==
    ASSUME NEW d, Sound(d), d.open, TypedDialog(d), NEW e \in EditList(d), NEW value,
           GoodValue(e, value)
    PROVE  TypedDialog(Edited([d EXCEPT !.shown[e] = value], e))
<1> DEFINE shown == [d.shown EXCEPT ![e] = value]
           y == [d EXCEPT !.shown = shown]
           list == IF OnList(d, e) THEN d.apply_list ELSE Append(d.apply_list, e)
           x == [y EXCEPT !.apply_list = list, !.buttons = TRUE]
<1>1. IsDialog(d) /\ Shows(d) /\ d.apply_list \in Seq(EditList(d))
  BY SoundOpen DEF Shows
<1>2. [d EXCEPT !.shown[e] = value] = y
  BY <1>1 DEF IsDialog, Fields
<1>3. shown[e] = value /\ \A f \in EditList(d) \ {e} : shown[f] = d.shown[f]
  <2>1. \A s : s = [f \in EditList(d) |-> s[f]] =>
            LET u == [s EXCEPT ![e] = value]
            IN  u[e] = value /\ \A f \in EditList(d) \ {e} : u[f] = s[f]
    OBVIOUS
  <2> QED
    BY <1>1, <2>1 DEF Shows
<1> HIDE DEF shown
<1>4. IsDialog(y) /\ y.apply_list = d.apply_list /\ y.shown = shown
      /\ y.open = d.open /\ y.advanced = d.advanced /\ y.tab = d.tab
      /\ y.going = d.going /\ y.warning = d.warning /\ y.previous_sd = d.previous_sd
  BY <1>1 DEF IsDialog, Fields
<1> HIDE DEF y
<1>5. OnList(y, e) = OnList(d, e)
  BY <1>4 DEF OnList
<1>6. Edited(y, e) = x
  BY <1>4, <1>5 DEF Edited
<1>7. IsInjective(list)
  <2>1. CASE OnList(d, e)
    BY <2>1 DEF TypedDialog
  <2>2. CASE ~OnList(d, e)
    <3>1. \A i \in DOMAIN d.apply_list : d.apply_list[i] # e
      BY <2>2 DEF OnList
    <3>2. IsInjective(Append(d.apply_list, e))
      BY <1>1, <3>1, AppendedOnce DEF TypedDialog
    <3> QED
      BY <2>2, <3>2
  <2> QED
    BY <2>1, <2>2
<1> HIDE DEF list
<1>8. /\ x.open = d.open /\ x.advanced = d.advanced /\ x.tab = d.tab
      /\ x.going = d.going /\ x.warning = d.warning /\ x.previous_sd = d.previous_sd
      /\ x.shown = shown /\ x.apply_list = list
  BY <1>4 DEF IsDialog, Fields
<1> HIDE DEF x
<1>9. EditList(x) = EditList(d)
  BY <1>8 DEF EditList
<1>10. \A f \in EditList(x) : GoodValue(f, x.shown[f])
  BY <1>3, <1>8, <1>9 DEF TypedDialog
<1>11. TypedDialog(x)
  BY <1>7, <1>8, <1>10 DEF TypedDialog, TypedPlace
<1> QED
  BY <1>2, <1>6, <1>11

\* Neither what is shown nor the list changes.
LEMMA FrameTyped ==
    ASSUME NEW d, TypedDialog(d), NEW x, TypedPlace(x),
           x.open = d.open, x.advanced = d.advanced, x.shown = d.shown,
           x.apply_list = d.apply_list
    PROVE  TypedDialog(x)
<1>1. EditList(x) = EditList(d)
  BY DEF EditList
<1> QED
  BY <1>1 DEF TypedDialog

-----------------------------------------------------------------------------
(* The types of the steps.                                                 *)

LEMMA NextTyped ==
    ASSUME NEW x, TypedDialog(x), dialog' = x, class' = class
    PROVE  TypedDialog(dialog)'
BY DEF TypedDialog, TypedPlace, EditList

StartOf(d) == [object |-> object, ok |-> TRUE, previous_sd |-> d.previous_sd]

LEMMA AppliedTyped ==
    ASSUME NEW d, Sound(d), d.open, TypedDialog(d), object \in Objects,
           NEW r \in ApplyInternal(d)
    PROVE  /\ r.object \in Objects /\ TypedDialog(r.dialog)
           /\ r.dialog.open /\ r.dialog.tab = d.tab /\ r.dialog.going = d.going
           /\ r.dialog.apply_list = d.apply_list
           /\ \/ r.object = object /\ ~r.ok
              \/ \E q : /\ Outcome(q, StartOf(d), d.apply_list, d.shown, Len(d.apply_list))
                        /\ r.object = q.object /\ r.ok = q.ok
<1> DEFINE shown == IF OnList(d, "unlock") THEN [d.shown EXCEPT !["unlock"] = FALSE]
                    ELSE d.shown
           x(q) == [d EXCEPT !.previous_sd = q.previous_sd,
                             !.buttons = IF q.ok THEN FALSE ELSE @,
                             !.shown = shown]
           After(q) == [object |-> q.object, ok |-> q.ok, dialog |-> x(q)]
           refused == [object |-> object, ok |-> FALSE, dialog |-> d]
           results == ApplyAll(d.apply_list, d.shown, StartOf(d))
<1>0. IsDialog(d) /\ Shows(d) /\ d.apply_list \in Seq(EditList(d))
  BY SoundOpen DEF Shows
<1>1. r = refused \/ \E q \in results : r = After(q)
  <2>1. r \in UNION {IF verified THEN {After(q) : q \in results} ELSE {refused} :
                        verified \in VerifyAll(d.apply_list, d.shown)}
    BY DEF ApplyInternal, StartOf
  <2> HIDE DEF results, After, refused
  <2> QED
    BY <2>1
<1>2. CASE r = refused
  BY <1>2
<1>3. ASSUME NEW q \in results, r = After(q)
      PROVE  /\ r.object \in Objects /\ TypedDialog(r.dialog)
             /\ r.dialog.open /\ r.dialog.tab = d.tab /\ r.dialog.going = d.going
             /\ r.dialog.apply_list = d.apply_list
             /\ Outcome(q, StartOf(d), d.apply_list, d.shown, Len(d.apply_list))
             /\ r.object = q.object /\ r.ok = q.ok
  <2>1. StartOf(d) \in Results
    BY DEF StartOf, Results, TypedDialog, TypedPlace
  <2>2. Outcome(q, StartOf(d), d.apply_list, d.shown, Len(d.apply_list))
    BY <1>0, <2>1, EditsListed, ApplyAllOutcome DEF TypedDialog
  <2>3. q \in Results
    BY <2>2 DEF Outcome, Changes
  <2> HIDE DEF results
  <2> DEFINE sd == q.previous_sd
             buttons == IF q.ok THEN FALSE ELSE d.buttons
             y == [d EXCEPT !.previous_sd = sd, !.buttons = buttons, !.shown = shown]
  <2>4. x(q) = y
    BY <1>0 DEF IsDialog, Fields
  <2>5. r.object = q.object /\ r.ok = q.ok /\ r.dialog = y
    BY <1>3, <2>4
  <2>6. \A e \in EditList(d) : shown[e] = d.shown[e] \/ (e = "unlock" /\ shown[e] = FALSE)
    BY <1>0 DEF Shows
  <2> HIDE DEF shown, buttons, x, After
  <2>7. /\ y.open = d.open /\ y.advanced = d.advanced /\ y.tab = d.tab
        /\ y.going = d.going /\ y.warning = d.warning
        /\ y.apply_list = d.apply_list /\ y.shown = shown /\ y.previous_sd = sd
    BY <1>0 DEF IsDialog, Fields
  <2> HIDE DEF y
  <2>8. EditList(y) = EditList(d)
    BY <2>7 DEF EditList
  <2>9. GoodValue("unlock", FALSE)
    BY DEF GoodValue, ShownBy
  <2>10. \A e \in EditList(y) : GoodValue(e, y.shown[e])
    BY <2>6, <2>7, <2>8, <2>9 DEF TypedDialog
  <2>11. sd \in SUBSET Descriptor /\ q.object \in Objects
    BY <2>3 DEF Results
  <2>12. TypedDialog(y)
    BY <2>7, <2>8, <2>10, <2>11 DEF TypedDialog, TypedPlace
  <2> QED
    BY <2>2, <2>5, <2>7, <2>11, <2>12
<1>4. CASE \E q \in results : r = After(q)
  BY <1>3, <1>4
<1> QED
  BY <1>1, <1>2, <1>4

LEMMA WarningTyped ==
    ASSUME NEW d, IsDialog(d), TypedDialog(d)
    PROVE  TypedDialog(OpenSecurityWarning(d))
<1> DEFINE x == [d EXCEPT !.warning = "security"]
<1>1. /\ x.open = d.open /\ x.advanced = d.advanced /\ x.tab = d.tab
      /\ x.going = d.going /\ x.warning = "security" /\ x.previous_sd = d.previous_sd
      /\ x.apply_list = d.apply_list /\ x.shown = d.shown
  BY DEF IsDialog, Fields
<1>2. OpenSecurityWarning(d) = d \/ OpenSecurityWarning(d) = x
  BY DEF OpenSecurityWarning
<1> HIDE DEF x
<1>3. TypedDialog(x)
  BY <1>1, FrameTyped DEF TypedPlace, TypedDialog
<1> QED
  BY <1>2, <1>3

\* Another tab is shown; "undiscarded" has no type.
LEMMA GoingTyped ==
    ASSUME NEW d, IsDialog(d), TypedDialog(d), NEW tab \in Tabs, NEW undiscarded
    PROVE  /\ TypedDialog(OpenSecurityWarning([d EXCEPT !.tab = tab]))
           /\ TypedDialog(OpenSecurityWarning([d EXCEPT !.tab = tab,
                                                        !.undiscarded = undiscarded]))
<1>1. ASSUME NEW x, x = [d EXCEPT !.tab = tab]
                    \/ x = [d EXCEPT !.tab = tab, !.undiscarded = undiscarded]
      PROVE  TypedDialog(OpenSecurityWarning(x))
  <2>1. IsDialog(x)
    BY <1>1 DEF IsDialog
  <2>2. /\ x.open = d.open /\ x.advanced = d.advanced /\ x.tab = tab
        /\ x.going = d.going /\ x.warning = d.warning /\ x.previous_sd = d.previous_sd
        /\ x.apply_list = d.apply_list /\ x.shown = d.shown
    BY <1>1 DEF IsDialog, Fields
  <2>3. TypedDialog(x)
    BY <2>2, FrameTyped DEF TypedPlace, TypedDialog
  <2> QED
    BY <2>1, <2>3, WarningTyped
<1> QED
  BY <1>1

LEMMA AskedTyped ==
    ASSUME Sound(dialog), dialog.open, TypedDialog(dialog)
    PROVE  TypedDialog(Asked) /\ TypedPlace(Asked) /\ IsDialog(Asked)
<1>1. IsDialog(dialog)
  BY SoundOpen
<1>2. IsDialog(Asked)
  BY <1>1 DEF Asked, IsDialog
<1>3. /\ Asked.open = dialog.open /\ Asked.advanced = dialog.advanced
      /\ Asked.tab = dialog.tab /\ Asked.going = "Other" /\ Asked.warning = "none"
      /\ Asked.previous_sd = dialog.previous_sd
      /\ Asked.apply_list = dialog.apply_list /\ Asked.shown = dialog.shown
  BY <1>1 DEF Asked, IsDialog, Fields
<1>4. TypedPlace(Asked)
  BY <1>3 DEF TypedDialog, TypedPlace, Tabs
<1> QED
  BY <1>2, <1>3, <1>4, FrameTyped

LEMMA ShowingTyped ==
    ASSUME Sound(dialog), TypedDialog(dialog), NEW e, NEW tab, CanEdit(e, tab),
           NEW value, Showing(e, value), GoodValue(e, value)
    PROVE  TypedDialog(dialog)'
<1>1. /\ dialog.open /\ e \in EditList(dialog) /\ class' = class
      /\ dialog' = Edited([dialog EXCEPT !.shown[e] = value], e)
  BY DEF CanEdit, Ready, Showing
<1>2. TypedDialog(Edited([dialog EXCEPT !.shown[e] = value], e))
  BY <1>1, EditedTyped
<1> QED
  BY <1>1, <1>2, NextTyped

LEMMA ShownValue ==
    ASSUME TypedDialog(dialog), NEW e, NEW tab, CanEdit(e, tab)
    PROVE  GoodValue(e, dialog.shown[e])
BY DEF TypedDialog, CanEdit, Ready

LEMMA TextEditTyped ==
    ASSUME Sound(dialog), TypedDialog(dialog), TypeText \/ TypePhone \/ EditOtherPhone
    PROVE  TypedDialog(dialog)'
<1>1. Typed \subseteq Texts
  BY PropertiesDialogAssumption
<1>2. CASE TypeText
  <2>1. PICK e \in {"description", "upn"}, t \in Texts :
            CanEdit(e, "Other") /\ Showing(e, t)
    BY <1>1, <1>2 DEF TypeText
  <2>2. GoodValue(e, t)
    BY <2>1 DEF GoodValue, ShownBy
  <2> QED
    BY <2>1, <2>2, ShowingTyped
<1>3. CASE TypePhone
  <2>1. PICK t \in Texts : /\ CanEdit("phone", "Other")
                           /\ Showing("phone", [dialog.shown["phone"] EXCEPT !.main = t])
    BY <1>1, <1>3 DEF TypePhone
  <2>2. GoodValue("phone", dialog.shown["phone"])
    BY <2>1, ShownValue
  <2>3. GoodValue("phone", [dialog.shown["phone"] EXCEPT !.main = t])
    BY <2>2 DEF GoodValue, ShownBy
  <2> QED
    BY <2>1, <2>3, ShowingTyped
<1>4. CASE EditOtherPhone
  <2>1. PICK t \in Texts : /\ CanEdit("phone", "Other")
                           /\ Showing("phone", [dialog.shown["phone"] EXCEPT !.other = t])
    BY <1>1, <1>4 DEF EditOtherPhone
  <2>2. GoodValue("phone", dialog.shown["phone"])
    BY <2>1, ShownValue
  <2>3. GoodValue("phone", [dialog.shown["phone"] EXCEPT !.other = t])
    BY <2>2 DEF GoodValue, ShownBy
  <2> QED
    BY <2>1, <2>3, ShowingTyped
<1> QED
  BY <1>2, <1>3, <1>4

LEMMA ChoiceTyped ==
    ASSUME Sound(dialog), TypedDialog(dialog),
           ClickOption \/ ClickCheck \/ ChooseScope \/ ChooseType
    PROVE  TypedDialog(dialog)'
<1>1. CASE ClickOption
  <2>1. PICK e \in AccountOptions :
            /\ CanEdit(e, "Other")
            /\ Showing(e, /\ ~dialog.shown[e]
                          /\ \A b \in Blockers(e) : ~dialog.shown[b])
    BY <1>1 DEF ClickOption
  <2> DEFINE value == /\ ~dialog.shown[e]
                      /\ \A b \in Blockers(e) : ~dialog.shown[b]
  <2>2. value \in BOOLEAN
    OBVIOUS
  <2> HIDE DEF value
  <2>3. GoodValue(e, value)
    BY <2>2 DEF GoodValue, ShownBy, AccountOptions
  <2>4. CanEdit(e, "Other") /\ Showing(e, value)
    BY <2>1 DEF value
  <2> QED
    BY <2>3, <2>4, ShowingTyped
<1>2. CASE ClickCheck
  <2>1. PICK e \in {"unlock", "delegation", "protect"} :
            CanEdit(e, "Other") /\ Showing(e, ~dialog.shown[e])
    BY <1>2 DEF ClickCheck
  <2> DEFINE value == ~dialog.shown[e]
  <2>2. value \in BOOLEAN
    OBVIOUS
  <2> HIDE DEF value
  <2>3. GoodValue(e, value)
    BY <2>2 DEF GoodValue, ShownBy
  <2>4. CanEdit(e, "Other") /\ Showing(e, value)
    BY <2>1 DEF value
  <2> QED
    BY <2>3, <2>4, ShowingTyped
<1>3. CASE ChooseScope
  <2>1. PICK scope \in GroupScope : CanEdit("scope", "Other") /\ Showing("scope", scope)
    BY <1>3 DEF ChooseScope
  <2>2. GoodValue("scope", scope)
    BY <2>1 DEF GoodValue, ShownBy
  <2> QED
    BY <2>1, <2>2, ShowingTyped
<1>4. CASE ChooseType
  <2>1. PICK type \in GroupType : CanEdit("type", "Other") /\ Showing("type", type)
    BY <1>4 DEF ChooseType
  <2>2. GoodValue("type", type)
    BY <2>1 DEF GoodValue, ShownBy
  <2> QED
    BY <2>1, <2>2, ShowingTyped
<1> QED
  BY <1>1, <1>2, <1>3, <1>4

LEMMA MembershipTyped ==
    ASSUME Sound(dialog), TypedDialog(dialog), AddMember \/ RemoveMember \/ MakePrimary
    PROVE  TypedDialog(dialog)'
<1>1. ASSUME NEW e \in {"members", "member_of"}, NEW m, GoodValue(e, m),
             NEW values \in SUBSET Groups
      PROVE  GoodValue(e, [m EXCEPT !.current_values = values])
  <2>1. m \in Membership /\ GoodMembership(e, m) /\ ShownBy(e) = Membership
    BY <1>1 DEF GoodValue, ShownBy
  <2> QED
    BY <2>1 DEF GoodValue, GoodMembership, Membership
<1>2. CASE AddMember
  <2>1. PICK e \in {"members", "member_of"}, g \in Groups :
            /\ CanEdit(e, "Other")
            /\ Showing(e, [dialog.shown[e] EXCEPT !.current_values = @ \cup {g}])
    BY <1>2 DEF AddMember
  <2> DEFINE m == dialog.shown[e]
             values == m.current_values \cup {g}
  <2>2. GoodValue(e, m)
    BY <2>1, ShownValue
  <2>3. values \in SUBSET Groups
    BY <2>2 DEF GoodValue, ShownBy, Membership
  <2>4. GoodValue(e, [m EXCEPT !.current_values = values])
    BY <1>1, <2>2, <2>3
  <2> QED
    BY <2>1, <2>4, ShowingTyped
<1>3. CASE RemoveMember
  <2>1. PICK e \in {"members", "member_of"}, g \in Groups :
            /\ CanEdit(e, "Other")
            /\ Showing(e, [dialog.shown[e] EXCEPT !.current_values = @ \ {g}])
    BY <1>3 DEF RemoveMember
  <2> DEFINE m == dialog.shown[e]
             values == m.current_values \ {g}
  <2>2. GoodValue(e, m)
    BY <2>1, ShownValue
  <2>3. values \in SUBSET Groups
    BY <2>2 DEF GoodValue, ShownBy, Membership
  <2>4. GoodValue(e, [m EXCEPT !.current_values = values])
    BY <1>1, <2>2, <2>3
  <2> QED
    BY <2>1, <2>4, ShowingTyped
<1>4. CASE MakePrimary
  <2>1. PICK g \in Groups :
            /\ CanEdit("member_of", "Other")
            /\ Showing("member_of", WithPrimary(dialog.shown["member_of"], g))
    BY <1>4 DEF MakePrimary
  <2>2. GoodValue("member_of", dialog.shown["member_of"])
    BY <2>1, ShownValue
  <2> DEFINE m == dialog.shown["member_of"]
  <2>3. m \in Membership
    BY <2>2 DEF GoodValue, ShownBy
  <2> HIDE DEF m
  <2>4. /\ WithPrimary(m, g) \in Membership
        /\ WithPrimary(m, g).current_primary_values = {g}
    BY <2>3 DEF WithPrimary, Membership
  <2>5. GoodValue("member_of", WithPrimary(m, g))
    BY <2>4 DEF GoodValue, GoodMembership, ShownBy
  <2> QED
    BY <2>1, <2>5, ShowingTyped DEF m
<1> QED
  BY <1>2, <1>3, <1>4

LEMMA PermissionsTyped ==
    ASSUME Sound(dialog), TypedDialog(dialog),
           SetRight \/ RemoveTrusteeButton \/ ClearAll \/ Rollback
    PROVE  TypedDialog(dialog)'
<1>1. ASSUME NEW sd, CanEdit("security", "Security"), Showing("security", sd),
             sd \in Descriptor
      PROVE  TypedDialog(dialog)'
  BY <1>1, ShowingTyped DEF GoodValue, ShownBy
<1>2. CanEdit("security", "Security") => dialog.shown["security"] \in Descriptor
  BY ShownValue DEF GoodValue, ShownBy
<1>3. CASE SetRight
  <2>1. PICK t \in Trustees, on \in BOOLEAN :
            /\ CanEdit("security", "Security")
            /\ Showing("security", [dialog.shown["security"] EXCEPT
                                       !.others = With(@, t, on), !.ordered = TRUE])
    BY <1>3 DEF SetRight
  <2> DEFINE sd == [dialog.shown["security"] EXCEPT
                       !.others = With(@, t, on), !.ordered = TRUE]
  <2>2. sd \in Descriptor
    BY <1>2, <2>1 DEF Descriptor, With
  <2> HIDE DEF sd
  <2>3. Showing("security", sd)
    BY <2>1 DEF sd
  <2> QED
    BY <1>1, <2>1, <2>2, <2>3
<1>4. CASE RemoveTrusteeButton \/ ClearAll
  <2>1. PICK t \in dialog.shown["security"].others :
            /\ CanEdit("security", "Security")
            /\ Showing("security", [dialog.shown["security"] EXCEPT !.others = @ \ {t}])
    BY <1>4 DEF RemoveTrusteeButton, ClearAll, RemoveTrustee
  <2> DEFINE sd == [dialog.shown["security"] EXCEPT !.others = @ \ {t}]
  <2>2. sd \in Descriptor
    BY <1>2, <2>1 DEF Descriptor
  <2> HIDE DEF sd
  <2>3. Showing("security", sd)
    BY <2>1 DEF sd
  <2> QED
    BY <1>1, <2>1, <2>2, <2>3
<1>5. CASE Rollback
  <2>1. PICK sd \in dialog.previous_sd :
            CanEdit("security", "Security") /\ Showing("security", sd)
    BY <1>5 DEF Rollback
  <2>2. sd \in Descriptor
    BY <2>1 DEF TypedDialog, TypedPlace
  <2> QED
    BY <1>1, <2>1, <2>2
<1> QED
  BY <1>3, <1>4, <1>5

LEMMA AttributesTyped ==
    ASSUME Sound(dialog), TypedDialog(dialog), EditAttribute \/ LoadOptional
    PROVE  TypedDialog(dialog)'
<1> DEFINE Shown == [original : [TextAttributes -> Texts],
                     current : [TextAttributes -> Texts]]
<1>1. \A v \in Shown : GoodValue("attributes", v)
  BY DEF GoodValue, ShownBy
<1>2. CASE EditAttribute
  <2>1. PICK a \in TextAttributes, t \in Typed :
            /\ CanEdit("attributes", "Attributes")
            /\ Showing("attributes", [dialog.shown["attributes"] EXCEPT !.current[a] = t])
    BY <1>2 DEF EditAttribute
  <2> DEFINE v == [dialog.shown["attributes"] EXCEPT !.current[a] = t]
  <2>2. t \in Texts
    BY PropertiesDialogAssumption
  <2>3. dialog.shown["attributes"] \in Shown
    BY <2>1, ShownValue DEF GoodValue, ShownBy
  <2>4. v \in Shown
    BY <2>2, <2>3
  <2> HIDE DEF v, Shown
  <2>5. Showing("attributes", v)
    BY <2>1 DEF v
  <2> QED
    BY <1>1, <2>1, <2>4, <2>5, ShowingTyped
<1>3. CASE LoadOptional
  <2> DEFINE original == dialog.shown["attributes"].original
             v == [dialog.shown["attributes"] EXCEPT !.current = original]
             shown == [dialog.shown EXCEPT !["attributes"] = v]
             x == [dialog EXCEPT !.shown = shown]
  <2>1. dialog.open /\ dialog.tab = "Attributes" /\ class' = class
    BY <1>3 DEF LoadOptional, Ready
  <2>2. IsDialog(dialog) /\ Shows(dialog) /\ Questions(dialog)
    BY <2>1, SoundOpen
  <2>3. dialog' = x
    BY <1>3, <2>2 DEF LoadOptional, IsDialog, Fields
  <2>4. "attributes" \in EditList(dialog)
    BY <2>1, <2>2 DEF Questions, EditList, EditsOf, AdvancedEdits
  <2>5. dialog.shown["attributes"] \in Shown
    BY <2>1, <2>4 DEF TypedDialog, GoodValue, ShownBy
  <2>6. v \in Shown
    BY <2>5
  <2>7. GoodValue("attributes", v)
    BY <1>1, <2>6
  <2> HIDE DEF v
  <2>8. \A e \in EditList(dialog) :
            shown[e] = dialog.shown[e] \/ (e = "attributes" /\ shown[e] = v)
    BY <2>2 DEF Shows
  <2> HIDE DEF shown
  <2>9. /\ x.open = dialog.open /\ x.advanced = dialog.advanced /\ x.tab = dialog.tab
        /\ x.going = dialog.going /\ x.warning = dialog.warning
        /\ x.previous_sd = dialog.previous_sd /\ x.apply_list = dialog.apply_list
        /\ x.shown = shown
    BY <2>2 DEF IsDialog, Fields
  <2> HIDE DEF x
  <2>10. EditList(x) = EditList(dialog)
    BY <2>9 DEF EditList
  <2>11. \A e \in EditList(x) : GoodValue(e, x.shown[e])
    BY <2>1, <2>7, <2>8, <2>9, <2>10 DEF TypedDialog
  <2>12. TypedDialog(x)
    BY <2>1, <2>9, <2>11 DEF TypedDialog, TypedPlace
  <2> QED
    BY <2>1, <2>3, <2>12, NextTyped
<1> QED
  BY <1>2, <1>3

LEMMA EditTyped ==
    ASSUME Sound(dialog), TypedDialog(dialog), Edit
    PROVE  TypedDialog(dialog)'
BY TextEditTyped, ChoiceTyped, MembershipTyped, AttributesTyped, PermissionsTyped DEF Edit

LEMMA ClosedTyped == TypedDialog(Closed) /\ TypedPlace(Closed)
BY DEF TypedDialog, TypedPlace, Closed, Tabs

LEMMA OpenTyped ==
    ASSUME object \in Objects, NEW advanced \in BOOLEAN, Open(advanced)
    PROVE  TypedDialog(dialog)'
<1> DEFINE d == [Closed EXCEPT !.open = TRUE, !.advanced = advanced]
<1>1. IsDialog(d)
  BY ClosedShape DEF IsDialog
<1>2. TypedPlace(d)
  BY DEF TypedPlace, Closed, Tabs
<1>3. TypedDialog(ResetInternal(d, object))
  BY <1>1, <1>2, ResetTyped
<1>4. dialog' = ResetInternal(d, object) /\ class' = class
  BY DEF Open
<1> HIDE DEF d
<1> QED
  BY <1>3, <1>4, NextTyped

LEMMA ApplyingTyped ==
    ASSUME Sound(dialog), TypedDialog(dialog), object \in Objects, Accept \/ ApplyButton
    PROVE  object' \in Objects /\ TypedDialog(dialog)'
<1>1. dialog.open /\ class' = class
  BY DEF Accept, ApplyButton, Ready
<1>2. PICK r \in ApplyInternal(dialog) :
          /\ object' = r.object
          /\ \/ dialog' = Closed \/ dialog' = r.dialog
             \/ dialog' = ResetInternal(r.dialog, r.object)
  BY DEF Accept, ApplyButton
<1>3. r.object \in Objects /\ TypedDialog(r.dialog)
  BY <1>1, AppliedTyped
<1>4. IsDialog(r.dialog)
  BY <1>1, AppliedSound
<1>5. TypedDialog(ResetInternal(r.dialog, r.object))
  BY <1>3, <1>4, ResetTyped DEF TypedDialog
<1> QED
  BY <1>1, <1>2, <1>3, <1>5, ClosedTyped, NextTyped

LEMMA ResetsTyped ==
    ASSUME NEW d, Sound(d), d.open, TypedDialog(d), object \in Objects,
           NEW x \in ResetOutcomes(d)
    PROVE  TypedDialog(x) /\ IsDialog(x)
<1>1. x = d \/ x = ResetInternal(d, object)
  BY DEF ResetOutcomes
<1>2. IsDialog(d)
  BY SoundOpen
<1>3. TypedDialog(ResetInternal(d, object))
  BY <1>2, ResetTyped DEF TypedDialog
<1>4. IsDialog(ResetInternal(d, object))
  BY <1>2 DEF ResetInternal, IsDialog
<1> QED
  BY <1>1, <1>2, <1>3, <1>4

LEMMA SwitchTyped ==
    ASSUME Sound(dialog), TypedDialog(dialog), NEW tab \in Tabs, SwitchTab(tab)
    PROVE  TypedDialog(dialog)'
<1>1. dialog.open /\ class' = class
  BY DEF SwitchTab, Ready
<1>2. IsDialog(dialog)
  BY <1>1, SoundOpen
<1> DEFINE x == [dialog EXCEPT !.warning = "attributes", !.going = tab]
<1>3. dialog' = x \/ dialog' = OpenSecurityWarning([dialog EXCEPT !.tab = tab])
  BY DEF SwitchTab
<1>4. /\ x.open = dialog.open /\ x.advanced = dialog.advanced /\ x.tab = dialog.tab
      /\ x.going = tab /\ x.warning = "attributes" /\ x.previous_sd = dialog.previous_sd
      /\ x.apply_list = dialog.apply_list /\ x.shown = dialog.shown
  BY <1>2 DEF IsDialog, Fields
<1> HIDE DEF x
<1>5. TypedDialog(x)
  BY <1>4, FrameTyped DEF TypedPlace, TypedDialog
<1>6. TypedDialog(OpenSecurityWarning([dialog EXCEPT !.tab = tab]))
  BY <1>2, GoingTyped
<1> QED
  BY <1>1, <1>3, <1>5, <1>6, NextTyped

LEMMA WarningsTyped ==
    ASSUME Sound(dialog), TypedDialog(dialog), object \in Objects,
           WarningApplied \/ WarningDiscarded \/ WarningRejected
    PROVE  object' \in Objects /\ TypedDialog(dialog)'
<1>1. dialog.warning = "attributes" /\ class' = class
  BY DEF WarningApplied, WarningDiscarded, WarningRejected
<1>2. dialog.open
  BY <1>1, NotClosed
<1>3. Sound(Asked) /\ Asked.open /\ TypedDialog(Asked) /\ IsDialog(Asked)
  BY <1>2, AskedSound, AskedTyped
<1>4. dialog.going \in Tabs
  BY DEF TypedDialog, TypedPlace
<1>5. CASE dialog' = OpenSecurityWarning(Asked) /\ object' = object
  <2>1. TypedDialog(OpenSecurityWarning(Asked))
    BY <1>3, WarningTyped
  <2> QED
    BY <1>1, <1>5, <2>1, NextTyped
<1>6. CASE \E r \in ApplyInternal(Asked) :
              /\ object' = r.object
              /\ dialog' = OpenSecurityWarning(
                     [ResetInternal(r.dialog, r.object) EXCEPT !.tab = dialog.going])
  <2>1. PICK r \in ApplyInternal(Asked) :
              /\ object' = r.object
              /\ dialog' = OpenSecurityWarning(
                     [ResetInternal(r.dialog, r.object) EXCEPT !.tab = dialog.going])
    BY <1>6
  <2>2. r.object \in Objects /\ TypedDialog(r.dialog) /\ IsDialog(r.dialog)
    BY <1>3, AppliedTyped, AppliedSound
  <2>3. TypedDialog(ResetInternal(r.dialog, r.object))
    BY <2>2, ResetTyped DEF TypedDialog
  <2>4. IsDialog(ResetInternal(r.dialog, r.object))
    BY <2>2 DEF ResetInternal, IsDialog
  <2>5. TypedDialog(OpenSecurityWarning(
            [ResetInternal(r.dialog, r.object) EXCEPT !.tab = dialog.going]))
    BY <1>4, <2>3, <2>4, GoingTyped
  <2> QED
    BY <1>1, <2>1, <2>2, <2>5, NextTyped
<1>7. CASE WarningDiscarded
  <2>1. PICK d \in ResetOutcomes(Asked) :
          dialog' = OpenSecurityWarning([d EXCEPT !.tab = dialog.going,
                                                  !.undiscarded = d.apply_list # << >>])
    BY <1>7 DEF WarningDiscarded
  <2>2. TypedDialog(d) /\ IsDialog(d)
    BY <1>3, <2>1, ResetsTyped
  <2> DEFINE undiscarded == (d.apply_list # << >>)
  <2>3. dialog' = OpenSecurityWarning([d EXCEPT !.tab = dialog.going,
                                                !.undiscarded = undiscarded])
    BY <2>1
  <2> HIDE DEF undiscarded
  <2>4. TypedDialog(OpenSecurityWarning([d EXCEPT !.tab = dialog.going,
                                                  !.undiscarded = undiscarded]))
    BY <1>4, <2>2, GoingTyped
  <2>5. object' = object
    BY <1>7 DEF WarningDiscarded
  <2> QED
    BY <1>1, <2>3, <2>4, <2>5, NextTyped
<1> QED
  BY <1>5, <1>6, <1>7 DEF WarningApplied, WarningRejected

LEMMA SortTyped ==
    ASSUME Sound(dialog), TypedDialog(dialog), SortAccepted \/ SortRejected
    PROVE  TypedDialog(dialog)'
<1>1. dialog.warning = "security" /\ class' = class
  BY DEF SortAccepted, SortRejected
<1>2. dialog.open /\ Questions(dialog)
  BY <1>1, NotClosed, SoundOpen
<1>3. /\ Sound(Asked) /\ Asked.open /\ Asked.advanced
      /\ TypedDialog(Asked) /\ IsDialog(Asked) /\ TypedPlace(Asked)
  BY <1>1, <1>2, AskedSound, AskedTyped DEF Questions
<1>4. CASE SortAccepted
  <2> DEFINE value == [Asked.shown["security"] EXCEPT !.ordered = TRUE]
  <2>1. "security" \in EditList(Asked)
    BY <1>3 DEF EditList, EditsOf, AdvancedEdits
  <2>2. Asked.shown["security"] \in Descriptor
    BY <1>3, <2>1 DEF TypedDialog, GoodValue, ShownBy
  <2>3. value \in Descriptor
    BY <2>2 DEF Descriptor
  <2>4. [Asked EXCEPT !.shown["security"].ordered = TRUE] =
            [Asked EXCEPT !.shown["security"] = value]
    OBVIOUS
  <2> HIDE DEF value
  <2>5. GoodValue("security", value)
    BY <2>3 DEF GoodValue, ShownBy
  <2>6. TypedDialog(Edited([Asked EXCEPT !.shown["security"] = value], "security"))
    BY <1>3, <2>1, <2>5, EditedTyped
  <2> QED
    BY <1>1, <1>4, <2>4, <2>6, NextTyped DEF SortAccepted
<1>5. CASE SortRejected
  <2> DEFINE x == [Asked EXCEPT !.read_only = TRUE]
  <2>1. /\ x.open = Asked.open /\ x.advanced = Asked.advanced /\ x.tab = Asked.tab
        /\ x.going = Asked.going /\ x.warning = Asked.warning
        /\ x.previous_sd = Asked.previous_sd
        /\ x.apply_list = Asked.apply_list /\ x.shown = Asked.shown
    BY <1>3 DEF IsDialog, Fields
  <2> HIDE DEF x
  <2>2. TypedDialog(x)
    BY <1>3, <2>1, FrameTyped DEF TypedPlace
  <2> QED
    BY <1>1, <1>5, <2>2, NextTyped DEF SortRejected, x
<1> QED
  BY <1>4, <1>5

\* What others write leaves an object that is one.
LEMMA OthersTyped ==
    ASSUME object \in Objects, Others
    PROVE  object' \in Objects /\ dialog' = dialog /\ class' = class
<1>1. object.flags \in SUBSET Flags /\ object.groups \in SUBSET Groups
      /\ object.sd \in Descriptor
  BY DEF Objects
<1>2. OtherFlags \subseteq Flags /\ OtherGroups \subseteq Groups
  BY PropertiesDialogAssumption
<1>3. CASE OthersSetFlag
  <2>1. PICK f \in OtherFlags :
            OtherChange([object EXCEPT !.flags = With(@, f, f \notin @)])
    BY <1>3 DEF OthersSetFlag
  <2> DEFINE flags == With(object.flags, f, f \notin object.flags)
  <2>2. flags \in SUBSET Flags
    BY <1>1, <1>2 DEF With
  <2>3. object' = [object EXCEPT !.flags = flags] /\ dialog' = dialog /\ class' = class
    BY <2>1 DEF OtherChange
  <2> HIDE DEF flags
  <2> QED
    BY <2>2, <2>3 DEF Objects
<1>4. CASE OthersWriteDescriptor
  <2>1. PICK t \in Trustees :
            OtherChange([object EXCEPT !.sd.others = With(@, t, t \notin @),
                                       !.sd.protected = ~@, !.sd.ordered = TRUE])
    BY <1>4 DEF OthersWriteDescriptor
  <2> DEFINE others == With(object.sd.others, t, t \notin object.sd.others)
             protected == ~object.sd.protected
             sd == [object.sd EXCEPT !.others = others, !.protected = protected,
                                     !.ordered = TRUE]
  <2>2. others \in SUBSET Trustees
    BY <1>1 DEF With, Descriptor
  <2>3. protected \in BOOLEAN
    OBVIOUS
  <2>4. object' = [object EXCEPT !.sd = sd] /\ dialog' = dialog /\ class' = class
    BY <2>1 DEF OtherChange, Objects, Descriptor
  <2> HIDE DEF others, protected
  <2>5. sd \in Descriptor
    BY <1>1, <2>2, <2>3 DEF Descriptor
  <2> HIDE DEF sd
  <2> QED
    BY <2>4, <2>5 DEF Objects
<1>5. CASE OthersChangeGroups
  <2>1. PICK g \in OtherGroups :
            OtherChange([object EXCEPT !.groups = With(@, g, g \notin @)])
    BY <1>5 DEF OthersChangeGroups
  <2> DEFINE groups == With(object.groups, g, g \notin object.groups)
  <2>2. groups \in SUBSET Groups
    BY <1>1, <1>2 DEF With
  <2>3. object' = [object EXCEPT !.groups = groups] /\ dialog' = dialog /\ class' = class
    BY <2>1 DEF OtherChange
  <2> HIDE DEF groups
  <2> QED
    BY <2>2, <2>3 DEF Objects
<1> QED
  BY <1>3, <1>4, <1>5 DEF Others

-----------------------------------------------------------------------------
(* The types of the states, and what applies leave on the server.          *)

Typing == object \in Objects /\ Sound(dialog) /\ TypedDialog(dialog)

LEMMA InitTyping == Init => Typing
<1> SUFFICES ASSUME Init PROVE Typing
  OBVIOUS
<1>1. PICK s \in Start : object = s.object
  BY DEF Init
<1>2. object \in Objects
  BY <1>1, PropertiesDialogAssumption
<1>3. dialog = Closed
  BY DEF Init
<1> QED
  BY <1>2, <1>3, ClosedTyped, InitSound DEF Typing

LEMMA StepTyping == Typing /\ [Next]_vars => Typing'
<1> SUFFICES ASSUME Typing, [Next]_vars PROVE Typing'
  OBVIOUS
<1>1. object \in Objects /\ Sound(dialog) /\ TypedDialog(dialog)
  BY DEF Typing
<1>2. Sound(dialog)'
  BY <1>1, StepSound
<1>3. object' \in Objects /\ TypedDialog(dialog)'
  <2>1. CASE \E advanced \in BOOLEAN : Open(advanced)
    <3>1. object' = object
      BY <2>1 DEF Open
    <3> QED
      BY <1>1, <2>1, <3>1, OpenTyped
  <2>2. CASE Cancel
    <3>1. object' = object /\ dialog' = Closed /\ class' = class
      BY <2>2 DEF Cancel
    <3> QED
      BY <1>1, <3>1, ClosedTyped, NextTyped
  <2>3. CASE Accept \/ ApplyButton
    BY <1>1, <2>3, ApplyingTyped
  <2>4. CASE Reset
    <3>1. PICK x \in ResetOutcomes(dialog) :
            dialog' = x /\ dialog.open /\ class' = class /\ object' = object
      BY <2>4 DEF Reset, Ready
    <3>2. TypedDialog(x)
      BY <1>1, <3>1, ResetsTyped
    <3> QED
      BY <1>1, <3>1, <3>2, NextTyped
  <2>5. CASE \E tab \in Tabs : SwitchTab(tab)
    <3>1. object' = object
      BY <2>5 DEF SwitchTab
    <3> QED
      BY <1>1, <2>5, <3>1, SwitchTyped
  <2>6. CASE WarningApplied \/ WarningDiscarded \/ WarningRejected
    BY <1>1, <2>6, WarningsTyped
  <2>7. CASE SortAccepted \/ SortRejected
    <3>1. object' = object
      BY <2>7 DEF SortAccepted, SortRejected
    <3> QED
      BY <1>1, <2>7, <3>1, SortTyped
  <2>8. CASE Edit
    <3>1. object' = object
      BY <2>8 DEF Edit, TypeText, TypePhone, EditOtherPhone, ClickOption, ClickCheck,
         ChooseScope, ChooseType, AddMember, RemoveMember, MakePrimary, EditAttribute,
         LoadOptional, SetRight, RemoveTrusteeButton, ClearAll, RemoveTrustee, Rollback,
         Showing
    <3> QED
      BY <1>1, <2>8, <3>1, EditTyped
  <2>9. CASE Others
    <3>1. object' \in Objects /\ dialog' = dialog /\ class' = class
      BY <1>1, <2>9, OthersTyped
    <3> QED
      BY <1>1, <3>1, NextTyped
  <2>10. CASE UNCHANGED vars
    <3>1. object' = object /\ dialog' = dialog /\ class' = class
      BY <2>10 DEF vars
    <3> QED
      BY <1>1, <3>1, NextTyped
  <2> QED
    BY <2>1, <2>2, <2>3, <2>4, <2>5, <2>6, <2>7, <2>8, <2>9, <2>10 DEF Next
<1> QED
  BY <1>2, <1>3 DEF Typing

LEMMA TypingAlways == Spec => []Typing
BY InitTyping, StepTyping, PTL DEF Spec

\* An edit shows values of its own kind and is on apply_list once at most, and
\* the object stays one whatever the edits write, whoever else writes to it and
\* whichever of the writes fail.
THEOREM PropertiesTypeOK == Spec => []TypeOK
<1>1. ASSUME Typing PROVE TypeOK
  <2>1. object \in Objects /\ Sound(dialog) /\ TypedDialog(dialog)
    BY <1>1 DEF Typing
  <2>2. dialog.tab \in Tabs /\ dialog.warning \in {"none", "attributes", "security"}
    BY <2>1 DEF TypedDialog, TypedPlace
  <2>3. ASSUME dialog.open
        PROVE  /\ DOMAIN dialog.shown = EditList(dialog)
               /\ \A e \in EditList(dialog) : dialog.shown[e] \in ShownBy(e)
               /\ \A i \in DOMAIN dialog.apply_list :
                      dialog.apply_list[i] \in EditList(dialog)
               /\ IsInjective(dialog.apply_list)
    <3>1. dialog.shown = [e \in EditList(dialog) |-> dialog.shown[e]]
          /\ dialog.apply_list \in Seq(EditList(dialog))
      BY <2>1, <2>3, SoundOpen DEF Shows
    <3>2. DOMAIN dialog.shown = EditList(dialog)
      BY <3>1
    <3>3. \A i \in DOMAIN dialog.apply_list : dialog.apply_list[i] \in EditList(dialog)
      BY <3>1
    <3> QED
      BY <2>1, <2>3, <3>2, <3>3 DEF TypedDialog, GoodValue
  <2> QED
    BY <2>1, <2>2, <2>3 DEF TypeOK
<1> QED
  BY <1>1, TypingAlways, PTL

\* What an apply leaves of the object.
LEMMA AppliedObject ==
    ASSUME Typing, Applying
    PROVE  \/ object' = object
           \/ \E q, r : /\ r.object = object /\ object' = q.object
                        /\ Outcome(q, r, dialog.apply_list, dialog.shown,
                                   Len(dialog.apply_list))
<1>1. object \in Objects /\ Sound(dialog) /\ TypedDialog(dialog)
  BY DEF Typing
<1>2. CASE Accept \/ ApplyButton
  <2>1. PICK r \in ApplyInternal(dialog) : object' = r.object /\ dialog.open
    BY <1>2 DEF Accept, ApplyButton, Ready
  <2>2. StartOf(dialog).object = object
    BY DEF StartOf
  <2> QED
    BY <1>1, <2>1, <2>2, AppliedTyped
<1>3. CASE WarningApplied
  <2>1. dialog.open
    BY <1>1, <1>3, NotClosed DEF WarningApplied
  <2>2. /\ Sound(Asked) /\ Asked.open /\ TypedDialog(Asked)
        /\ Asked.shown = dialog.shown /\ Asked.apply_list = dialog.apply_list
    BY <1>1, <2>1, AskedSound, AskedTyped
  <2>3. StartOf(Asked).object = object
    BY DEF StartOf
  <2>4. object' = object \/ \E r \in ApplyInternal(Asked) : object' = r.object
    BY <1>3 DEF WarningApplied
  <2>5. ASSUME NEW r \in ApplyInternal(Asked), object' = r.object
        PROVE  \/ object' = object
               \/ \E q : /\ object' = q.object
                         /\ Outcome(q, StartOf(Asked), Asked.apply_list, Asked.shown,
                                    Len(Asked.apply_list))
    BY <1>1, <2>2, <2>5, AppliedTyped
  <2> QED
    BY <2>2, <2>3, <2>4, <2>5
<1> QED
  BY <1>2, <1>3 DEF Applying

LEMMA ListedDomain ==
    ASSUME Sound(dialog), dialog.open
    PROVE  DOMAIN dialog.apply_list = 1..Len(dialog.apply_list)
<1>1. dialog.apply_list \in Seq(EditList(dialog))
  BY SoundOpen DEF Shows
<1> QED
  BY <1>1

LEMMA ApplyingOpen ==
    ASSUME Sound(dialog), Applying
    PROVE  dialog.open
BY NotClosed DEF Applying, Accept, ApplyButton, Ready, WarningApplied

\* properties.cpp, apply_internal(): whatever others changed in the object since
\* it was loaded, and whichever writes fail, an apply writes to the parts of the
\* edits on the list only.  What the edits read again before they write must be
\* read: where userAccountControl or groupType is not, the bits that are not the
\* edit's are cleared.
THEOREM PropertiesOthersKept ==
    ASSUME "read" \notin Faults
    PROVE  Spec => OthersKept
<1>1. ASSUME Typing, Applying, NEW p \in AllParts, Part(object', p) # Part(object, p)
      PROVE  \E i \in DOMAIN dialog.apply_list :
                 p \in Parts(dialog.apply_list[i], dialog.shown[dialog.apply_list[i]])
  <2> DEFINE list == dialog.apply_list
             shown == dialog.shown
  <2>1. object' # object
    BY <1>1
  <2>2. PICK q, r : /\ r.object = object /\ object' = q.object
                    /\ Outcome(q, r, list, shown, Len(list))
    BY <1>1, <2>1, AppliedObject
  <2>3. SameBut(object', object, PartsUpTo(list, shown, Len(list)))
    BY <2>2 DEF Outcome, Changes
  <2>4. p \in PartsUpTo(list, shown, Len(list))
    BY <1>1, <2>3 DEF SameBut
  <2>5. DOMAIN list = 1..Len(list)
    BY <1>1, ApplyingOpen, ListedDomain DEF Typing
  <2> QED
    BY <2>4, <2>5 DEF PartsUpTo
<1>2. Typing /\ [Next]_vars =>
        [Applying =>
            \A p \in AllParts :
                Part(object', p) # Part(object, p) =>
                    \E i \in DOMAIN dialog.apply_list :
                        p \in Parts(dialog.apply_list[i],
                                    dialog.shown[dialog.apply_list[i]])]_vars
  BY <1>1
<1> QED
  BY <1>2, TypingAlways, PTL DEF Spec, OthersKept

\* properties.cpp, accept() and apply(): if the dialog closes or its list is
\* empty afterwards, the object is what every edit on the list showed, but for
\* those that one after them writes over.
THEOREM PropertiesAppliedIsShown ==
    ASSUME "read" \notin Faults
    PROVE  Spec => AppliedIsShown
<1>1. ASSUME Typing, Accept \/ ApplyButton,
             ~dialog'.open \/ dialog'.apply_list = << >>,
             NEW i \in DOMAIN dialog.apply_list
      PROVE  \/ Overwritten(dialog, i)
             \/ Reflects(object', dialog.apply_list[i], dialog.shown[dialog.apply_list[i]])
  <2> DEFINE list == dialog.apply_list
             shown == dialog.shown
  <2>1. object \in Objects /\ Sound(dialog) /\ TypedDialog(dialog) /\ dialog.open
    BY <1>1 DEF Typing, Accept, ApplyButton, Ready
  <2>2. DOMAIN list = 1..Len(list)
    BY <2>1, ListedDomain
  <2>3. PICK r \in ApplyInternal(dialog) :
            object' = r.object /\ (~r.ok => dialog' = r.dialog)
    BY <1>1 DEF Accept, ApplyButton
  <2>4. /\ r.dialog.open /\ r.dialog.apply_list = list
        /\ \/ r.object = object /\ ~r.ok
           \/ \E q : /\ Outcome(q, StartOf(dialog), list, shown, Len(list))
                     /\ r.object = q.object /\ r.ok = q.ok
    BY <2>1, AppliedTyped
  <2>5. r.ok
    <3>1. list = << >> => DOMAIN list = {}
      OBVIOUS
    <3> QED
      BY <1>1, <2>3, <2>4, <3>1
  <2>6. PICK q : /\ Outcome(q, StartOf(dialog), list, shown, Len(list))
                 /\ object' = q.object /\ q.ok
    BY <2>3, <2>4, <2>5
  <2>7. Reflects(q.object, list[i], shown[list[i]]) \/ OverwrittenBy(list, shown, i, Len(list))
    BY <1>1, <2>2, <2>6 DEF Outcome
  <2> QED
    BY <2>2, <2>6, <2>7 DEF OverwrittenBy, Overwritten
<1>2. Typing /\ [Next]_vars =>
        [(Accept \/ ApplyButton) /\ (~dialog'.open \/ dialog'.apply_list = << >>) =>
            \A i \in DOMAIN dialog.apply_list :
                Overwritten(dialog, i) \/
                    Reflects(object', dialog.apply_list[i],
                             dialog.shown[dialog.apply_list[i]])]_vars
  BY <1>1
<1> QED
  BY <1>2, TypingAlways, PTL DEF Spec, AppliedIsShown
=============================================================================
