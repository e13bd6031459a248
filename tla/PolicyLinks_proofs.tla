-------------------------- MODULE PolicyLinks_proofs --------------------------
(***************************************************************************)
(* Whatever the OUs, the policies, the attributes and the number of edits. *)
(*                                                                         *)
(* With any operations, any faults and other administrators: the current   *)
(* item is in the tree; an attribute written, cached or shown links no     *)
(* policy twice; a row of the links table is a link of its object.         *)
(*                                                                         *)
(* With one administrator, a directory that does not fail, and the         *)
(* operations that tell the cache of every edit (OneAdmin): the cache is   *)
(* the server's links, both tables and the tree show them, and an option   *)
(* changes no link.                                                        *)
(*                                                                         *)
(* With no faults and the operations that write what the server or the     *)
(* links table has (CleanDeletes): a deleted policy stays without links.   *)
(***************************************************************************)
EXTENDS PolicyLinks, TLAPS

\* The operations that cache what they write under the OU they write it to, but
\* for DropOU, which is left to TLC.
CachingOps == {"LinkGpo", "DropPolicy", "AddLink", "RemoveLink", "ChangeOption",
               "LinksToggle", "LinksRemove", "LinksMove", "LinksReorder"}

OneAdmin == Faults = {} /\ StartLoaded /\ UserOps \subseteq CachingOps

Idle ==
    /\ is_updated = TRUE
    /\ thread = Manager!Search!NoThread
    /\ events = << >>

ScopeItems ==
    {OtherItem, AllPoliciesItem} \cup {OUItem(ou) : ou \in OUs}
    \cup {PolicyItem(p, g) : p \in Parents, g \in GPOs}

LinksRecord(w) ==
    w = [ou |-> w.ou, gplink |-> w.gplink, rows |-> w.rows, from |-> w.from]

LinksInv ==
    /\ gplink = [ou \in OUs |-> gplink[ou]]
    /\ ou_links = gplink
    /\ Idle
    /\ scope \in ScopeItems
    /\ LinksRecord(links)
    /\ LinksTableFresh

LEMMA NoFaults ==
    ASSUME OneAdmin
    PROVE  /\ \A server, ou : Reads(server, ou) = {server.gplink[ou]}
           /\ \A server : Founds(server) = {server.gpos}
           /\ WriteOutcomes = {TRUE} /\ EditOutcomes = {TRUE}
           /\ \A fault, x : MayFail(fault, x) = {}
BY DEF OneAdmin, Reads, Founds, WriteOutcomes, EditOutcomes, MayFail

LEMMA LinksUpdatesFresh ==
    ASSUME OneAdmin, NEW w, NEW ou, NEW server, NEW u \in LinksUpdates(w, ou, server)
    PROVE  LinksRecord(u) /\ u.ou = ou /\ u.gplink = server.gplink[ou]
<1>1. PICK str \in Reads(server, ou) :
        u \in {[ou |-> ou, gplink |-> str, rows |-> rows, from |-> ou] :
                rows \in RowSets(str, server)}
  BY NoFaults DEF LinksUpdates
<1>2. str = server.gplink[ou]
  BY <1>1, NoFaults
<1> QED
  BY <1>1, <1>2 DEF LinksRecord

LEMMA ItemTypes ==
    ASSUME NEW item \in ScopeItems
    PROVE  /\ item.type = "PolicyOU" => item.at \in OUs /\ item = OUItem(item.at)
           /\ item.type = "Policy" => item.at \in Parents /\ item.gpo \in GPOs
BY DEF ScopeItems, OtherItem, AllPoliciesItem, OUItem, PolicyItem

IsView(v) == v = View(v.tree, v.links, v.results)

\* The links table is about ou, and as the server has it.
ShowsOU(w, ou, server) ==
    LinksRecord(w) /\ w.ou = ou /\ w.gplink = server.gplink[ou]

LEMMA SelectedsShow ==
    ASSUME OneAdmin, NEW item \in ScopeItems, NEW v, IsView(v), NEW server, NEW cache,
           NEW u \in Selecteds(item, v, server, cache)
    PROVE  /\ IsView(u)
           /\ IF item.type = "PolicyOU" THEN ShowsOU(u.links, item.at, server)
              ELSE u.links = v.links
<1>1. CASE item.type = "PolicyOU"
  <2>1. PICK t, w : w \in LinksUpdates(v.links, item.at, server) /\ u = View(t, w, v.results)
    BY <1>1 DEF Selecteds
  <2> QED
    BY <1>1, <2>1, LinksUpdatesFresh DEF ShowsOU, View, IsView
<1>2. CASE item.type = "AllPoliciesFolder"
  BY <1>2 DEF Selecteds, View, IsView
<1>3. CASE item.type = "Policy"
  BY <1>3, NoFaults DEF Selecteds, View, IsView
<1>4. CASE item.type \notin {"PolicyOU", "AllPoliciesFolder", "Policy"}
  BY <1>4 DEF Selecteds
<1> QED
  BY <1>1, <1>2, <1>3, <1>4

\* Deleting the current item shows its parent; deleting another changes no
\* table.
LEMMA DeletedItemShows ==
    ASSUME OneAdmin, NEW p \in OUs, NEW g \in GPOs, NEW v, IsView(v), NEW server,
           NEW cache, NEW u \in DeletedItem(PolicyItem(p, g), v, server, cache)
    PROVE  IF scope = PolicyItem(p, g) THEN ShowsOU(u.links, p, server)
           ELSE u.links = v.links
<1>1. /\ PolicyItem(p, g).at = p
      /\ ParentItem(p) = OUItem(p) /\ OUItem(p) \in ScopeItems
      /\ OUItem(p).type = "PolicyOU" /\ OUItem(p).at = p
  BY PolicyLinksAssumption DEF PolicyItem, ParentItem, OUItem, ScopeItems
<1> DEFINE before == IF scope = PolicyItem(p, g)
                     THEN Selecteds(OUItem(p), v, server, cache) ELSE {v}
<1>2. PICK w \in before : u = [w EXCEPT !.tree = DeleteItem(@, PolicyItem(p, g).at,
                                                            PolicyItem(p, g).gpo)]
  BY <1>1 DEF DeletedItem
<1>3. /\ IsView(w)
      /\ IF scope = PolicyItem(p, g) THEN ShowsOU(w.links, p, server) ELSE w.links = v.links
  BY <1>1, <1>2, SelectedsShow
<1>4. u.links = w.links
  BY <1>2, <1>3 DEF IsView, View
<1> QED
  BY <1>3, <1>4

LEMMA RefreshesShow ==
    ASSUME OneAdmin, NEW c, c.scope \in ScopeItems, NEW ou \in OUs, NEW server,
           NEW cache, NEW r \in Refreshes(c, ou, server, cache)
    PROVE  /\ ShowsOU(r.view.links, ou, server)
           /\ r.scope \in {OUItem(ou), OtherItem, c.scope}
<1>1. PICK q \in WithoutChildren(c, ou, server, cache) :
        \E t, w : /\ w \in LinksUpdates(q.view.links, ou, server)
                  /\ r = [view |-> View(t, w, q.view.results), scope |-> q.scope]
  BY DEF Refreshes
<1>2. q.scope \in {OUItem(ou), OtherItem, c.scope}
  BY DEF WithoutChildren
<1>3. ShowsOU(r.view.links, ou, server)
  BY <1>1, LinksUpdatesFresh DEF ShowsOU, View
<1> QED
  BY <1>1, <1>2, <1>3
-----------------------------------------------------------------------------
\* What an operation does to the invariant: the server and the cache are
\* written alike, and the links table shows the current OU, if one is current.
Coherent ==
    /\ gplink' = [ou \in OUs |-> gplink'[ou]]
    /\ ou_links' = gplink'

LEMMA WriteCoherent ==
    ASSUME OneAdmin, LinksInv, NEW ou \in OUs, NEW str,
           Replace(ou, str, TRUE), Cache(ou, str)
    PROVE  Coherent /\ gplink' = [gplink EXCEPT ![ou] = str]
BY DEF OneAdmin, LinksInv, Replace, Cache, Coherent

LEMMA Preserved ==
    ASSUME LinksInv, Coherent, UNCHANGED updateVars, scope' \in ScopeItems,
           LinksRecord(links)',
           scope'.type = "PolicyOU" =>
               links'.ou = scope'.at /\ links'.gplink = gplink'[scope'.at]
    PROVE  LinksInv'
BY DEF LinksInv, Coherent, LinksTableFresh, Idle, updateVars

LEMMA ConsoleIsView == IsView(Console)
BY DEF IsView, Console, View

\* What a handler about policies acts on is a policy, and no OU is current.
LEMMA Chosen ==
    ASSUME scope \in ScopeItems, NEW g \in ChosenPolicies
    PROVE  /\ g \in GPOs
           /\ \/ scope = AllPoliciesItem /\ tree.items[AllPolicies][g] > 0
              \/ scope.type = "Policy" /\ scope.gpo = g
           /\ scope.type # "PolicyOU"
BY PolicyLinksAssumption
DEF ChosenPolicies, ScopeItems, OtherItem, AllPoliciesItem, OUItem, PolicyItem

LEMMA LinkToInv ==
    ASSUME OneAdmin, LinksInv, NEW ou \in OUs, NEW g, NEW h, LinkTo(ou, g, h),
           UNCHANGED <<scope, updateVars>>
    PROVE  LinksInv'
<1>1. PICK new :
        /\ Replace(ou, new, TRUE)
        /\ Cache(ou, new)
        /\ IF scope.type = "PolicyOU"
           THEN links' \in LinksUpdates(links, scope.at, Server')
           ELSE UNCHANGED links
  <2>1. PICK str \in Reads(Server, ou), success \in EditOutcomes :
            LET new == Adding(Adding(str, g), h)
                added == Named(new) \ Named(str)
            IN  /\ Replace(ou, new, success)
                /\ IF success
                   THEN /\ Cache(ou, new)
                        /\ \E found \in Founds(Server) :
                                tree' \in Listed(AddItems(tree, ou, added \cap found))
                        /\ IF scope.type = "PolicyOU"
                           THEN links' \in LinksUpdates(links, scope.at, Server')
                           ELSE UNCHANGED links
                   ELSE tree' \in Listed(tree) /\ UNCHANGED <<ou_links, links>>
    BY DEF LinkTo
  <2>2. success = TRUE
    BY NoFaults
  <2> QED
    BY <2>1, <2>2
<1>2. Coherent
  BY <1>1, WriteCoherent
<1>3. CASE scope.type = "PolicyOU"
  <2>1. ShowsOU(links', scope.at, Server')
    BY <1>1, <1>3, LinksUpdatesFresh DEF ShowsOU
  <2> QED
    BY <1>2, <2>1, Preserved DEF LinksInv, ShowsOU, Server
<1>4. CASE scope.type # "PolicyOU"
  BY <1>1, <1>2, <1>4, Preserved DEF LinksInv
<1> QED
  BY <1>3, <1>4

LEMMA AddLinkInv ==
    ASSUME OneAdmin, LinksInv, NEW g, NEW ou \in OUs, AddLink(g, ou, ou)
    PROVE  LinksInv'
<1> DEFINE start == [view |-> Console, scope |-> scope]
<1>1. scope.type # "PolicyOU" /\ UNCHANGED updateVars /\ AddLinks(g, ou, ou, TRUE)
  BY Chosen DEF AddLink, LinksInv
<1>2. PICK new : gplink' = [gplink EXCEPT ![ou] = new] /\ ou_links' = [ou_links EXCEPT ![ou] = new]
  <2> DEFINE new(str1, str2) ==
                [o \in {ou, ou} |-> Adding(IF o = ou THEN str1 ELSE str2, g)]
             ok(ok1, ok2) == [o \in {ou, ou} |-> IF o = ou THEN ok1 ELSE ok2]
  <2>1. PICK str1 \in Reads(Server, ou), str2 \in Reads(Server, ou),
             ok1 \in WriteOutcomes, ok2 \in WriteOutcomes :
          /\ gplink' = [o \in OUs |-> IF o \in {ou, ou} /\ ok(ok1, ok2)[o]
                                      THEN new(str1, str2)[o] ELSE gplink[o]]
          /\ ou_links' = [o \in OUs |-> IF o \in {ou, ou}
                                        THEN new(str1, str2)[o] ELSE ou_links[o]]
    BY <1>1 DEF AddLinks
  <2>2. ok1 = TRUE
    BY NoFaults
  <2> DEFINE str == new(str1, str2)[ou]
  <2>3. /\ gplink' = [o \in OUs |-> IF o = ou THEN str ELSE gplink[o]]
        /\ ou_links' = [o \in OUs |-> IF o = ou THEN str ELSE ou_links[o]]
    <3>1. ok(ok1, ok2)[ou] = TRUE
      BY <2>2
    <3> HIDE DEF ok, new
    <3> QED
      BY <2>1, <3>1
  <2> HIDE DEF str
  <2> QED
    BY <2>3 DEF LinksInv
<1>3. Coherent
  BY <1>2 DEF LinksInv, Coherent
<1>4. PICK c \in AddedTo({start}, ou, Server', ou_links') :
        links' = c.view.links /\ scope' = c.scope
  BY <1>1 DEF AddLinks
<1>5. CASE c = start
  BY <1>1, <1>3, <1>4, <1>5, Preserved DEF LinksInv, Console, View
<1>6. CASE c \in Refreshes(start, ou, Server', ou_links')
  <2>1. start.scope \in ScopeItems
    BY DEF LinksInv
  <2>2. /\ ShowsOU(c.view.links, ou, Server')
        /\ c.scope \in {OUItem(ou), OtherItem, scope}
    BY <1>6, <2>1, RefreshesShow
  <2>3. scope' \in ScopeItems /\ (scope'.type = "PolicyOU" => scope'.at = ou)
    BY <1>1, <1>4, <2>1, <2>2 DEF ScopeItems, OUItem, OtherItem
  <2> QED
    BY <1>1, <1>3, <1>4, <2>2, <2>3, Preserved DEF ShowsOU, Server
<1> QED
  BY <1>4, <1>5, <1>6 DEF AddedTo

LEMMA RemoveLinkInv ==
    ASSUME OneAdmin, LinksInv, RemoveLink
    PROVE  LinksInv'
<1> DEFINE ou == scope.at
<1>1. scope.type = "Policy" /\ ou \in OUs /\ UNCHANGED updateVars
  BY DEF RemoveLink
<1>2. scope.gpo \in GPOs /\ scope = PolicyItem(ou, scope.gpo)
  BY <1>1, PolicyLinksAssumption
  DEF LinksInv, ScopeItems, OtherItem, AllPoliciesItem, OUItem, PolicyItem
<1>3. PICK str \in Reads(Server, ou), success \in EditOutcomes :
        LET new == Removing(str, scope.gpo)
        IN  /\ Replace(ou, new, success)
            /\ IF success
               THEN /\ Cache(ou, new)
                    /\ scope' = ScopeAfterDeleting(scope)
                    /\ \E v \in DeletedItem(scope, Console, Server', ou_links') : Show(v)
               ELSE UNCHANGED <<ou_links, uiVars>>
  BY DEF RemoveLink
<1>4. /\ Replace(ou, Removing(str, scope.gpo), TRUE)
      /\ Cache(ou, Removing(str, scope.gpo))
      /\ scope' = ScopeAfterDeleting(scope)
      /\ \E v \in DeletedItem(scope, Console, Server', ou_links') : Show(v)
  <2>1. success = TRUE
    BY NoFaults
  <2> QED
    BY <1>3, <2>1
<1>5. Coherent
  BY <1>1, <1>4, WriteCoherent
<1>6. PICK v \in DeletedItem(scope, Console, Server', ou_links') : links' = v.links
  BY <1>4 DEF Show
<1>7. ShowsOU(links', ou, Server')
  BY <1>1, <1>2, <1>6, ConsoleIsView, DeletedItemShows
<1>8. scope' = OUItem(ou)
  BY <1>1, <1>4, PolicyLinksAssumption DEF ScopeAfterDeleting, ParentItem
<1>9. scope' \in ScopeItems /\ scope'.at = ou
  BY <1>1, <1>8 DEF ScopeItems, OUItem
<1> QED
  BY <1>1, <1>5, <1>7, <1>9, Preserved DEF ShowsOU, Server

LEMMA ChangeOptionInv ==
    ASSUME OneAdmin, LinksInv, NEW o, NEW checked, ChangeOption(o, checked)
    PROVE  LinksInv'
<1> DEFINE new == Setting(ou_links[scope.at], scope.gpo, o, checked)
<1>1. /\ scope.type = "Policy" /\ scope.at \in OUs
      /\ UNCHANGED <<scope, links, updateVars>>
  BY DEF ChangeOption
<1>2. PICK success \in EditOutcomes :
        /\ Replace(scope.at, new, success)
        /\ IF success
           THEN /\ Cache(scope.at, new)
                /\ results' \in ResultsUpdates(results, scope.gpo, ou_links')
           ELSE UNCHANGED <<ou_links, results>>
  BY DEF ChangeOption
<1>3. success = TRUE
  BY NoFaults
<1>4. Replace(scope.at, new, TRUE) /\ Cache(scope.at, new)
  BY <1>2, <1>3
<1>5. Coherent
  BY <1>1, <1>4, WriteCoherent
<1> QED
  BY <1>1, <1>5, Preserved DEF LinksInv

\* The table writes to its own OU, the cache is told of the current one.
LEMMA TableWrite ==
    ASSUME OneAdmin, LinksInv, scope.type = "PolicyOU", NEW new,
           Replace(links.ou, new, TRUE), Cache(scope.at, new),
           UNCHANGED <<scope, updateVars>>, LinksRecord(links)',
           links'.ou = links.ou, links'.gplink = new
    PROVE  LinksInv'
<1>1. scope.at \in OUs /\ links.ou = scope.at
  BY ItemTypes DEF LinksInv, LinksTableFresh
<1>2. Coherent /\ gplink' = [gplink EXCEPT ![scope.at] = new]
  BY <1>1, WriteCoherent
<1>3. gplink'[scope.at] = new
  BY <1>1, <1>2 DEF LinksInv
<1> QED
  BY <1>1, <1>2, <1>3, Preserved DEF LinksInv

LEMMA LinksToggleInv ==
    ASSUME OneAdmin, LinksInv, NEW g, NEW o, LinksToggle(g, o)
    PROVE  LinksInv'
<1> DEFINE checked == o \notin links.rows[g]
           new == Setting(links.gplink, g, o, checked)
           rows == [links.rows EXCEPT ![g] = IF checked THEN @ \cup {o} ELSE @ \ {o}]
<1>1. scope.type = "PolicyOU" /\ UNCHANGED <<scope, updateVars>>
  BY DEF LinksToggle, LinksShown
<1>2. PICK success \in EditOutcomes :
        /\ Replace(links.ou, new, success)
        /\ IF success
           THEN /\ links' = [links EXCEPT !.rows = rows, !.gplink = new]
                /\ Cache(scope.at, new)
           ELSE /\ links' = [links EXCEPT !.rows = rows]
                /\ UNCHANGED ou_links
  BY DEF LinksToggle
<1> HIDE DEF new, rows
<1>3. /\ Replace(links.ou, new, TRUE) /\ Cache(scope.at, new)
      /\ links' = [links EXCEPT !.rows = rows, !.gplink = new]
  <2>1. success = TRUE
    BY NoFaults
  <2> QED
    BY <1>2, <2>1
<1>4. LinksRecord(links)' /\ links'.ou = links.ou /\ links'.gplink = new
  BY <1>3 DEF LinksInv, LinksRecord
<1> QED
  BY <1>1, <1>3, <1>4, TableWrite

LEMMA ModifyGplinkInv ==
    ASSUME OneAdmin, LinksInv, scope.type = "PolicyOU", NEW new, ModifyGplink(new),
           UNCHANGED <<scope, updateVars>>
    PROVE  LinksInv'
<1>1. PICK rows : /\ Replace(links.ou, new, TRUE) /\ Cache(scope.at, new)
                  /\ links' = [links EXCEPT !.gplink = new, !.rows = rows]
  BY NoFaults DEF ModifyGplink, OneAdmin
<1>2. LinksRecord(links)' /\ links'.ou = links.ou /\ links'.gplink = new
  BY <1>1 DEF LinksInv, LinksRecord
<1> QED
  BY <1>1, <1>2, TableWrite

LEMMA LinksReorderInv ==
    ASSUME OneAdmin, LinksInv, NEW g, NEW h, NEW to, LinksReorder(g, h, to)
    PROVE  LinksInv'
<1>1. scope.type = "PolicyOU" /\ UNCHANGED <<scope, updateVars>>
  BY DEF LinksReorder, LinksShown
<1> DEFINE new == IF g = h THEN DraggingOne(links.gplink, g, to)
                  ELSE DraggingTwo(links.gplink, g, h, to)
<1>2. PICK success \in EditOutcomes :
        /\ Replace(links.ou, new, success)
        /\ IF success
           THEN links' = [links EXCEPT !.gplink = new] /\ Cache(scope.at, new)
           ELSE UNCHANGED <<links, ou_links>>
  BY DEF LinksReorder
<1> HIDE DEF new
<1>3. /\ Replace(links.ou, new, TRUE) /\ Cache(scope.at, new)
      /\ links' = [links EXCEPT !.gplink = new]
  <2>1. success = TRUE
    BY NoFaults
  <2> QED
    BY <1>2, <2>1
<1>4. LinksRecord(links)' /\ links'.ou = links.ou /\ links'.gplink = new
  BY <1>3 DEF LinksInv, LinksRecord
<1> QED
  BY <1>1, <1>3, <1>4, TableWrite

LEMMA CacheRests ==
    ASSUME LinksInv
    PROVE  ~ CacheUpdates
<1>1. ~ Manager!SearchRuns
  BY DEF LinksInv, Idle, Manager!SearchRuns, Manager!Search!Run, Manager!Search!Connect,
         Manager!Search!SearchPage, Manager!Search!CheckPage, Manager!Search!Finish,
         Manager!Search!NoThread
<1>2. ~ Manager!Slots
  BY DEF LinksInv, Idle, Manager!Slots, Manager!ResultsSlot, Manager!FinishedSlot
<1> QED
  BY <1>1, <1>2 DEF CacheUpdates

LEMMA LooksInv ==
    ASSUME OneAdmin, LinksInv, Looks
    PROVE  LinksInv'
<1>1. UNCHANGED <<gplink, ou_links, updateVars>> /\ Coherent
  BY DEF Looks, Select, RefreshOU, RefreshAllPolicies, RefreshPolicy, Looking,
         serverVars, LinksInv, Coherent
<1>2. ASSUME NEW item \in Items, Select(item)
      PROVE  LinksInv'
  <2>1. item \in ScopeItems /\ scope' = item
    BY <1>2 DEF Select, Items, ScopeItems
  <2>2. PICK v \in Selecteds(item, Console, Server, ou_links) : links' = v.links
    BY <1>2 DEF Select, Show
  <2>3. IF item.type = "PolicyOU" THEN ShowsOU(links', item.at, Server)
        ELSE links' = links
    BY <2>1, <2>2, ConsoleIsView, SelectedsShow DEF Console, View
  <2> QED
    BY <1>1, <2>1, <2>3, Preserved DEF ShowsOU, Server, LinksInv
<1>3. CASE RefreshOU
  <2> DEFINE start == [view |-> Console, scope |-> scope]
  <2>1. scope.type = "PolicyOU" /\ scope.at \in OUs /\ scope = OUItem(scope.at)
    BY <1>3, ItemTypes DEF RefreshOU, LinksInv
  <2>2. PICK c \in Refreshes(start, scope.at, Server, ou_links) :
            links' = c.view.links /\ scope' = c.scope
    BY <1>3 DEF RefreshOU, Show
  <2>3. /\ ShowsOU(links', scope.at, Server)
        /\ scope' \in {scope, OtherItem}
    BY <2>1, <2>2, RefreshesShow DEF LinksInv
  <2>4. scope' \in ScopeItems /\ (scope'.type = "PolicyOU" => scope'.at = scope.at)
    BY <2>3 DEF LinksInv, ScopeItems, OtherItem
  <2> QED
    BY <1>1, <2>3, <2>4, Preserved DEF ShowsOU, Server
<1>4. CASE RefreshAllPolicies \/ RefreshPolicy
  <2>1. UNCHANGED <<scope, links>>
    BY <1>4 DEF RefreshAllPolicies, RefreshPolicy
  <2> QED
    BY <1>1, <2>1, Preserved DEF LinksInv, LinksTableFresh
<1> QED
  BY <1>2, <1>3, <1>4 DEF Looks

LEMMA TreeEditsInv ==
    ASSUME OneAdmin, LinksInv, TreeEdits
    PROVE  LinksInv'
<1>1. UserOps \subseteq CachingOps
  BY DEF OneAdmin
<1>2. ASSUME NEW g \in GPOs, NEW h \in GPOs, LinkGpo(g, h)
      PROVE  LinksInv'
  <2>1. scope.at \in OUs /\ UNCHANGED <<scope, updateVars>> /\ LinkTo(scope.at, g, h)
    BY <1>2, ItemTypes DEF LinkGpo, LinksInv
  <2> QED
    BY <2>1, LinkToInv
<1>3. ASSUME NEW ou \in OUs, NEW g, NEW h, DropPolicy(ou, g, h)
      PROVE  LinksInv'
  <2>1. UNCHANGED <<scope, updateVars>> /\ LinkTo(ou, g, h)
    BY <1>3 DEF DropPolicy
  <2> QED
    BY <2>1, LinkToInv
<1>4. ASSUME NEW g, NEW ou1 \in OUs, NEW ou2 \in OUs, AddLink(g, ou1, ou2)
      PROVE  LinksInv'
  <2>1. ou1 = ou2
    BY <1>1, <1>4 DEF AddLink, Edit, CachingOps
  <2> QED
    BY <1>4, <2>1, AddLinkInv
<1>5. ASSUME NEW o, NEW checked, ChangeOption(o, checked)
      PROVE  LinksInv'
  BY <1>5, ChangeOptionInv
<1>6. CASE RemoveLink
  BY <1>6, RemoveLinkInv
<1>7. /\ \A g, ou1, ou2 : ~ FindAddLink(g, ou1, ou2)
      /\ \A g : ~ DropOU(g) /\ ~ DeletePolicy(g) /\ ~ FindDeletePolicy(g)
  BY <1>1 DEF FindAddLink, DropOU, FindDeletePolicy, DeletePolicy, Edit, CachingOps
<1> QED
  BY <1>2, <1>3, <1>4, <1>5, <1>6, <1>7 DEF TreeEdits

LEMMA TableEditsInv ==
    ASSUME OneAdmin, LinksInv, TableEdits
    PROVE  LinksInv'
<1>1. ASSUME NEW g \in GPOs, NEW h \in GPOs, LinksRemove(g, h)
      PROVE  LinksInv'
  BY <1>1, ModifyGplinkInv DEF LinksRemove, LinksShown
<1>2. ASSUME NEW g, NEW h, NEW to, LinksReorder(g, h, to)
      PROVE  LinksInv'
  BY <1>2, LinksReorderInv
<1>3. ASSUME NEW g, LinksMove(g)
      PROVE  LinksInv'
  BY <1>3, ModifyGplinkInv DEF LinksMove, LinksShown
<1>4. ASSUME NEW g, NEW o, LinksToggle(g, o)
      PROVE  LinksInv'
  BY <1>4, LinksToggleInv
<1>5. /\ \A ou : ~ ResultsDelete(ou)
      /\ \A ou, o, checked : ~ ResultsToggle(ou, o, checked)
  BY DEF OneAdmin, ResultsDelete, ResultsToggle, ResultsShown, Edit, CachingOps
<1> QED
  BY <1>1, <1>2, <1>3, <1>4, <1>5 DEF TableEdits

LEMMA LinksStep ==
    ASSUME OneAdmin, LinksInv, [Next]_vars
    PROVE  LinksInv'
<1>1. ~ OtherAdmin /\ ~ RefreshDomain
  BY DEF OneAdmin, OtherAdmin, RefreshDomain, Edit, CachingOps
<1>2. CASE UNCHANGED vars
  BY <1>2, Preserved DEF vars, serverVars, uiVars, LinksInv, LinksTableFresh, Coherent
<1> QED
  BY <1>1, <1>2, CacheRests, LooksInv, TreeEditsInv, TableEditsInv DEF Next

LEMMA LinksInit ==
    ASSUME OneAdmin, Init
    PROVE  LinksInv
<1>1. /\ gplink = [ou \in OUs |-> gplink[ou]]
      /\ scope = OtherItem
  BY DEF Init
<1>2. ou_links = gplink /\ Idle
  BY DEF Init, Loaded, OneAdmin, Idle
<1>3. LinksRecord(links)
  BY DEF Init, LinksRecord
<1> QED
  BY <1>1, <1>2, <1>3 DEF LinksInv, ScopeItems, OtherItem, LinksTableFresh

\* While one administrator works alone and the directory does not fail, the
\* cache is the server's links after any number of edits: each of these
\* operations passes to set_gplink() what it wrote, under the OU it wrote it to.
THEOREM OneAdminCacheCoherent ==
    ASSUME OneAdmin
    PROVE  Spec => []CacheCoherent
<1>1. Init => LinksInv
  BY LinksInit
<1>2. LinksInv /\ [Next]_vars => LinksInv'
  BY LinksStep
<1>3. LinksInv => CacheCoherent
  BY DEF LinksInv, CacheCoherent
<1> QED
  BY <1>1, <1>2, <1>3, PTL DEF Spec

\* Then the links table, too, is about the OU that is selected and holds that
\* OU's attribute as the server has it, whichever handler wrote it last.
THEOREM OneAdminLinksTableFresh ==
    ASSUME OneAdmin
    PROVE  Spec => []LinksTableFresh
<1>1. Init => LinksInv
  BY LinksInit
<1>2. LinksInv /\ [Next]_vars => LinksInv'
  BY LinksStep
<1>3. LinksInv => LinksTableFresh
  BY DEF LinksInv
<1> QED
  BY <1>1, <1>2, <1>3, PTL DEF Spec
-----------------------------------------------------------------------------
(* The current item, with any faults and operations.  What is current is   *)
(* in the tree because items are only under what was fetched, and only     *)
(* what is shown is fetched.                                               *)

TreeOK(t) ==
    /\ t = [shown |-> t.shown, fetched |-> t.fetched, items |-> t.items]
    /\ t.items \in [Parents -> [GPOs -> Nat]]
    /\ t.shown \subseteq Parents /\ t.fetched \subseteq t.shown
    /\ \A p \in Parents, g \in GPOs : t.items[p][g] > 0 => p \in t.fetched

InTree(t, item) ==
    \/ item = OtherItem
    \/ item = AllPoliciesItem /\ AllPolicies \in t.shown
    \/ \E ou \in OUs \cap t.shown : item = OUItem(ou)
    \/ \E p \in Parents, g \in GPOs : t.items[p][g] > 0 /\ item = PolicyItem(p, g)

Grows(t, u) ==
    /\ t.shown \subseteq u.shown
    /\ \A p \in Parents, g \in GPOs : t.items[p][g] > 0 => u.items[p][g] > 0

LEMMA ItemShapes ==
    /\ OtherItem.type = "Other" /\ AllPoliciesItem.type = "AllPoliciesFolder"
    /\ AllPoliciesItem.at = AllPolicies
    /\ \A ou : OUItem(ou).type = "PolicyOU" /\ OUItem(ou).at = ou
    /\ \A p, g : /\ PolicyItem(p, g).type = "Policy"
                 /\ PolicyItem(p, g).at = p /\ PolicyItem(p, g).gpo = g
BY DEF OtherItem, AllPoliciesItem, OUItem, PolicyItem

LEMMA GrowsKeeps ==
    ASSUME NEW t, NEW u, Grows(t, u), NEW item, InTree(t, item)
    PROVE  InTree(u, item)
BY DEF Grows, InTree

LEMMA GrowsTwice ==
    ASSUME NEW t, NEW u, NEW v, Grows(t, u), Grows(u, v)
    PROVE  Grows(t, v)
BY DEF Grows

\* Items are added under what was fetched only.
LEMMA AddItemsTree ==
    ASSUME NEW t, TreeOK(t), NEW p, NEW S
    PROVE  TreeOK(AddItems(t, p, S)) /\ Grows(t, AddItems(t, p, S))
<1>1. CASE p \notin t.fetched
  BY <1>1 DEF AddItems, Grows
<1>2. CASE p \in t.fetched
  <2> DEFINE row == [g \in GPOs |-> IF g \in S THEN t.items[p][g] + 1 ELSE t.items[p][g]]
             rows == [t.items EXCEPT ![p] = row]
             u == [t EXCEPT !.items = rows]
  <2>1. AddItems(t, p, S) = u
    BY <1>2 DEF AddItems, TreeOK
  <2>2. /\ p \in Parents => row \in [GPOs -> Nat] /\ rows[p] = row
        /\ p \notin Parents => rows = t.items
        /\ \A q \in Parents \ {p} : rows[q] = t.items[q]
    BY DEF TreeOK
  <2>3. p \in Parents => \A g \in GPOs : row[g] \in Nat /\ row[g] >= t.items[p][g]
    BY DEF TreeOK
  <2>4. rows \in [Parents -> [GPOs -> Nat]]
    BY <2>2 DEF TreeOK
  <2> HIDE DEF row, rows
  <2>5. u.shown = t.shown /\ u.fetched = t.fetched /\ u.items = rows
        /\ u = [shown |-> u.shown, fetched |-> u.fetched, items |-> u.items]
    BY DEF TreeOK
  <2> HIDE DEF u
  <2>6. \A q \in Parents, g \in GPOs : t.items[q][g] > 0 => rows[q][g] > 0
    BY <2>2, <2>3 DEF TreeOK
  <2>7. \A q \in Parents, g \in GPOs : rows[q][g] > 0 => q \in t.fetched
    BY <1>2, <2>2 DEF TreeOK
  <2> QED
    BY <2>1, <2>4, <2>5, <2>6, <2>7 DEF TreeOK, Grows
<1> QED
  BY <1>1, <1>2

\* What is fetched is shown.
LEMMA MarkedTree ==
    ASSUME NEW t, TreeOK(t), NEW p \in t.shown
    PROVE  LET u == Marked(t, p)
           IN  TreeOK(u) /\ Grows(t, u) /\ u.shown = t.shown
<1> DEFINE S == t.fetched \cup {p}
           u == [t EXCEPT !.fetched = S]
<1>1. Marked(t, p) = u
  BY DEF Marked
<1>2. S \subseteq t.shown /\ t.fetched \subseteq S
  BY DEF TreeOK
<1> HIDE DEF S
<1>3. /\ u.shown = t.shown /\ u.fetched = S /\ u.items = t.items
      /\ u = [shown |-> u.shown, fetched |-> u.fetched, items |-> u.items]
  BY DEF TreeOK
<1> HIDE DEF u
<1> QED
  BY <1>1, <1>2, <1>3 DEF TreeOK, Grows

LEMMA ShowingTree ==
    ASSUME NEW t, TreeOK(t), NEW T \in SUBSET Parents
    PROVE  LET u == Showing(t, T) IN TreeOK(u) /\ Grows(t, u)
<1> DEFINE S == t.shown \cup T
           u == [t EXCEPT !.shown = S]
<1>1. Showing(t, T) = u
  BY DEF Showing
<1>2. t.shown \subseteq S /\ S \subseteq Parents
  BY DEF TreeOK
<1> HIDE DEF S
<1>3. /\ u.shown = S /\ u.fetched = t.fetched /\ u.items = t.items
      /\ u = [shown |-> u.shown, fetched |-> u.fetched, items |-> u.items]
  BY DEF TreeOK
<1> HIDE DEF u
<1> QED
  BY <1>1, <1>2, <1>3 DEF TreeOK, Grows

\* fetch() adds the policies found under the OU, or fails before that.
LEMMA FetchesAdds ==
    ASSUME NEW t, NEW ou, NEW server, NEW u \in Fetches(t, ou, server)
    PROVE  \/ \E children \in {ChildOUs(ou)} \cup MayFail("read", {}),
                str \in Reads(server, ou), found \in Founds(server) :
                u = AddItems(Showing(Marked(t, ou), children \cup Folder(ou)), ou,
                             Named(str) \cap found)
           \/ u \in MayFail("connect", Marked(t, ou))
<1>1. \/ \E children \in {ChildOUs(ou)} \cup MayFail("read", {}),
           str \in Reads(server, ou), found \in Founds(server) :
           u = Fetched(t, ou, children, str, found)
      \/ u \in MayFail("connect", Marked(t, ou))
  BY DEF Fetches
<1> QED
  BY <1>1 DEF Fetched

LEMMA FetchesTree ==
    ASSUME NEW t, TreeOK(t), NEW ou \in t.shown, ou \in OUs, NEW server,
           NEW u \in Fetches(t, ou, server)
    PROVE  TreeOK(u) /\ Grows(t, u)
<1>1. TreeOK(Marked(t, ou)) /\ Grows(t, Marked(t, ou))
  BY MarkedTree
<1>2. CASE u \in MayFail("connect", Marked(t, ou))
  BY <1>1, <1>2 DEF MayFail
<1>3. CASE \E children \in {ChildOUs(ou)} \cup MayFail("read", {}),
              str \in Reads(server, ou), found \in Founds(server) :
              u = AddItems(Showing(Marked(t, ou), children \cup Folder(ou)), ou,
                           Named(str) \cap found)
  <2>1. PICK children, S :
            /\ children \in {ChildOUs(ou)} \cup MayFail("read", {})
            /\ u = AddItems(Showing(Marked(t, ou), children \cup Folder(ou)), ou, S)
    BY <1>3
  <2> DEFINE T == children \cup Folder(ou)
             s == Showing(Marked(t, ou), T)
  <2>2. T \subseteq Parents
    BY <2>1, PolicyLinksAssumption DEF MayFail, ChildOUs, Folder, Parents
  <2>3. u = AddItems(s, ou, S)
    BY <2>1
  <2> HIDE DEF T
  <2>4. TreeOK(s) /\ Grows(Marked(t, ou), s)
    BY <1>1, <2>2, ShowingTree
  <2> HIDE DEF s
  <2>5. TreeOK(u) /\ Grows(s, u)
    BY <2>3, <2>4, AddItemsTree
  <2> QED
    BY <1>1, <2>4, <2>5, GrowsTwice
<1> QED
  BY <1>2, <1>3, FetchesAdds

LEMMA FetchesAllTree ==
    ASSUME NEW t, TreeOK(t), AllPolicies \in t.shown, NEW server,
           NEW u \in FetchesAllPolicies(t, server)
    PROVE  TreeOK(u) /\ Grows(t, u)
<1>1. \/ u = Marked(t, AllPolicies)
      \/ \E S : u = AddItems(Marked(t, AllPolicies), AllPolicies, S)
  BY DEF FetchesAllPolicies, MayFail
<1>2. TreeOK(Marked(t, AllPolicies)) /\ Grows(t, Marked(t, AllPolicies))
  BY MarkedTree
<1> QED
  BY <1>1, <1>2, AddItemsTree, GrowsTwice

\* Selecting an item of the tree loses nothing of the tree.
LEMMA SelectedsTree ==
    ASSUME NEW item, NEW v, IsView(v), TreeOK(v.tree), InTree(v.tree, item),
           NEW server, NEW cache, NEW u \in Selecteds(item, v, server, cache)
    PROVE  IsView(u) /\ TreeOK(u.tree) /\ Grows(v.tree, u.tree)
<1>1. Grows(v.tree, v.tree)
  BY DEF Grows
<1>2. CASE item.type = "PolicyOU"
  <2>1. PICK w \in LinksUpdates(v.links, item.at, server),
             t \in IF item.at \in v.tree.fetched THEN {v.tree}
                   ELSE Fetches(v.tree, item.at, server) : u = View(t, w, v.results)
    BY <1>2 DEF Selecteds
  <2>2. item.at \in OUs /\ item.at \in v.tree.shown
    BY <1>2, ItemShapes DEF InTree
  <2>3. TreeOK(t) /\ Grows(v.tree, t)
    BY <1>1, <2>1, <2>2, FetchesTree
  <2> QED
    BY <2>1, <2>3 DEF View, IsView
<1>3. CASE item.type = "AllPoliciesFolder"
  <2>1. PICK t \in IF AllPolicies \in v.tree.fetched THEN {v.tree}
                   ELSE FetchesAllPolicies(v.tree, server) : u = View(t, v.links, v.results)
    BY <1>3 DEF Selecteds
  <2>2. AllPolicies \in v.tree.shown
    BY <1>3, ItemShapes DEF InTree
  <2>3. TreeOK(t) /\ Grows(v.tree, t)
    BY <1>1, <2>1, <2>2, FetchesAllTree
  <2> QED
    BY <2>1, <2>3 DEF View, IsView
<1>4. CASE item.type = "Policy"
  <2>1. u = v \/ \E r : u = View(v.tree, v.links, r)
    BY <1>4 DEF Selecteds, MayFail
  <2> QED
    BY <1>1, <2>1 DEF View, IsView
<1>5. CASE item.type \notin {"PolicyOU", "AllPoliciesFolder", "Policy"}
  BY <1>1, <1>5 DEF Selecteds
<1> QED
  BY <1>2, <1>3, <1>4, <1>5

\* An item less, and every other item as it was.
LEMMA DeleteItemTree ==
    ASSUME NEW t, TreeOK(t), NEW p, NEW g
    PROVE  LET u == DeleteItem(t, p, g)
           IN  /\ TreeOK(u) /\ u.shown = t.shown
               /\ \A q \in Parents, h \in GPOs :
                    (q # p \/ h # g) => u.items[q][h] = t.items[q][h]
<1>1. CASE t.items[p][g] = 0
  BY <1>1 DEF DeleteItem
<1>2. CASE t.items[p][g] # 0
  <2> DEFINE n == t.items[p][g] - 1
             rows == [t.items EXCEPT ![p][g] = n]
             u == [t EXCEPT !.items = rows]
  <2>1. DeleteItem(t, p, g) = u
    BY <1>2 DEF DeleteItem, TreeOK
  <2>2. p \in Parents /\ g \in GPOs => n \in Nat /\ (n > 0 => t.items[p][g] > 0)
    BY <1>2 DEF TreeOK
  <2> HIDE DEF n
  <2>3. /\ rows \in [Parents -> [GPOs -> Nat]]
        /\ \A q \in Parents, h \in GPOs :
            rows[q][h] = IF q = p /\ h = g THEN n ELSE t.items[q][h]
    BY <2>2 DEF TreeOK
  <2> HIDE DEF rows
  <2>4. /\ u.shown = t.shown /\ u.fetched = t.fetched /\ u.items = rows
        /\ u = [shown |-> u.shown, fetched |-> u.fetched, items |-> u.items]
    BY DEF TreeOK
  <2> HIDE DEF u
  <2>5. \A q \in Parents, h \in GPOs : rows[q][h] > 0 => q \in t.fetched
    BY <2>2, <2>3 DEF TreeOK
  <2> QED
    BY <2>1, <2>3, <2>4, <2>5 DEF TreeOK
<1> QED
  BY <1>1, <1>2

\* What is left current when an item is deleted is still in the tree.
LEMMA DeletedItemTree ==
    ASSUME NEW p, NEW g, NEW v, IsView(v), TreeOK(v.tree), InTree(v.tree, scope),
           NEW server, NEW cache,
           NEW u \in DeletedItem(PolicyItem(p, g), v, server, cache)
    PROVE  /\ IsView(u) /\ TreeOK(u.tree)
           /\ InTree(u.tree, ScopeAfterDeleting(PolicyItem(p, g)))
<1> DEFINE item == PolicyItem(p, g)
<1>1. item.at = p /\ item.gpo = g
  BY ItemShapes
<1>2. PICK w \in IF scope = item THEN Selecteds(ParentItem(p), v, server, cache) ELSE {v} :
        u = [w EXCEPT !.tree = DeleteItem(w.tree, p, g)]
  BY <1>1 DEF DeletedItem
<1>3. CASE scope = item
  <2>1. p \in Parents /\ p \in v.tree.shown
    BY <1>3, ItemShapes DEF InTree, TreeOK
  <2>2. \A t : p \in t.shown => InTree(t, ParentItem(p))
    BY <2>1 DEF InTree, ParentItem, Parents
  <2>3. IsView(w) /\ TreeOK(w.tree) /\ Grows(v.tree, w.tree)
    BY <1>2, <1>3, <2>1, <2>2, SelectedsTree
  <2>4. TreeOK(DeleteItem(w.tree, p, g)) /\ p \in DeleteItem(w.tree, p, g).shown
    BY <2>1, <2>3, DeleteItemTree DEF Grows
  <2>5. IsView(u) /\ u.tree = DeleteItem(w.tree, p, g)
    BY <1>2, <2>3 DEF IsView, View
  <2>6. ScopeAfterDeleting(item) = ParentItem(p)
    BY <1>1, <1>3 DEF ScopeAfterDeleting
  <2> QED
    BY <2>2, <2>4, <2>5, <2>6
<1>4. CASE scope # item
  <2>1. IsView(u) /\ u.tree = DeleteItem(v.tree, p, g)
    BY <1>2, <1>4 DEF IsView, View
  <2>2. InTree(u.tree, scope)
    BY <1>4, <2>1, DeleteItemTree DEF InTree
  <2>3. ScopeAfterDeleting(item) = scope
    BY <1>4 DEF ScopeAfterDeleting
  <2> QED
    BY <2>1, <2>2, <2>3, DeleteItemTree
<1> QED
  BY <1>3, <1>4

LEMMA DeleteItemsOfTree ==
    ASSUME NEW t, TreeOK(t), NEW g
    PROVE  LET u == DeleteItemsOf(t, g)
           IN  /\ TreeOK(u) /\ u.shown = t.shown
               /\ \A q \in Parents, h \in GPOs :
                    h # g => u.items[q][h] = t.items[q][h]
<1> DEFINE rows == [p \in Parents |-> [t.items[p] EXCEPT ![g] = 0]]
           u == [t EXCEPT !.items = rows]
<1>1. DeleteItemsOf(t, g) = u
  BY DEF DeleteItemsOf
<1>2. /\ rows \in [Parents -> [GPOs -> Nat]]
      /\ \A q \in Parents, h \in GPOs :
            rows[q][h] = IF h = g THEN 0 ELSE t.items[q][h]
  BY DEF TreeOK
<1> HIDE DEF rows
<1>3. /\ u.shown = t.shown /\ u.fetched = t.fetched /\ u.items = rows
      /\ u = [shown |-> u.shown, fetched |-> u.fetched, items |-> u.items]
  BY DEF TreeOK
<1> HIDE DEF u
<1> QED
  BY <1>1, <1>2, <1>3 DEF TreeOK

\* Deleting the children of an OU takes what is under it, and not the OU.
LEMMA DeleteChildrenTree ==
    ASSUME NEW t, TreeOK(t), NEW ou \in OUs, ou \in t.shown
    PROVE  LET u == DeleteChildren(t, ou)
           IN  /\ TreeOK(u) /\ ou \in u.shown
               /\ u.shown = t.shown \ Subtree(ou)
               /\ \A q \in Parents \ (Subtree(ou) \cup {ou}) : u.items[q] = t.items[q]
<1>1. ou \notin Subtree(ou)
  BY PolicyLinksAssumption DEF Subtree, Folder
<1> DEFINE rows == [p \in Parents |-> IF p \in Subtree(ou) \cup {ou}
                                     THEN NoItems ELSE t.items[p]]
<1>2. NoItems \in [GPOs -> Nat] /\ \A h \in GPOs : NoItems[h] = 0
  BY DEF NoItems
<1>3. /\ rows \in [Parents -> [GPOs -> Nat]]
      /\ \A q \in Parents \ (Subtree(ou) \cup {ou}) : rows[q] = t.items[q]
      /\ \A q \in Parents, h \in GPOs :
            rows[q][h] > 0 => q \in t.fetched /\ q \notin Subtree(ou)
  BY <1>2 DEF TreeOK
<1>4. DeleteChildren(t, ou) = [shown |-> t.shown \ Subtree(ou),
                               fetched |-> t.fetched \ Subtree(ou), items |-> rows]
  BY DEF DeleteChildren
<1> HIDE DEF rows
<1> QED
  BY <1>1, <1>3, <1>4 DEF TreeOK

ConsoleOK(c) ==
    /\ c = [view |-> c.view, scope |-> c.scope]
    /\ IsView(c.view) /\ TreeOK(c.view.tree) /\ InTree(c.view.tree, c.scope)

LEMMA WithoutChildrenOK ==
    ASSUME NEW c, ConsoleOK(c), NEW ou \in OUs, ou \in c.view.tree.shown,
           NEW server, NEW cache, NEW d \in WithoutChildren(c, ou, server, cache)
    PROVE  ConsoleOK(d) /\ ou \in d.view.tree.shown
<1> DEFINE t == c.view.tree
           u == DeleteChildren(t, ou)
           view == [c.view EXCEPT !.tree = u]
<1>1. /\ TreeOK(u) /\ ou \in u.shown /\ u.shown = t.shown \ Subtree(ou)
      /\ \A q \in Parents \ (Subtree(ou) \cup {ou}) : u.items[q] = t.items[q]
  BY DeleteChildrenTree DEF ConsoleOK
<1> HIDE DEF u
<1>2. view.tree = u /\ IsView(view)
  BY DEF ConsoleOK, IsView, View
<1>3. WithoutChildren(c, ou, server, cache) =
        IF IsChild(c.scope, ou)
        THEN {[view |-> v, scope |-> OUItem(ou)] :
                v \in Selecteds(OUItem(ou), view, server, cache)}
        ELSE {[view |-> view, scope |-> IF c.scope.at \in Subtree(ou)
                                        THEN OtherItem ELSE c.scope]}
  BY DEF WithoutChildren, u
<1> HIDE DEF view
<1>4. CASE IsChild(c.scope, ou)
  <2>1. PICK v \in Selecteds(OUItem(ou), view, server, cache) :
            d = [view |-> v, scope |-> OUItem(ou)]
    BY <1>3, <1>4
  <2>2. InTree(view.tree, OUItem(ou))
    BY <1>1, <1>2 DEF InTree
  <2>3. IsView(v) /\ TreeOK(v.tree) /\ Grows(view.tree, v.tree)
    BY <1>1, <1>2, <2>2, SelectedsTree
  <2>4. InTree(v.tree, OUItem(ou)) /\ ou \in v.tree.shown
    BY <1>1, <1>2, <2>2, <2>3, GrowsKeeps DEF Grows
  <2> QED
    BY <2>1, <2>3, <2>4 DEF ConsoleOK
<1>5. CASE ~IsChild(c.scope, ou) /\ c.scope.at \in Subtree(ou)
  <2>1. d = [view |-> view, scope |-> OtherItem]
    BY <1>3, <1>5
  <2> QED
    BY <1>1, <1>2, <2>1 DEF ConsoleOK, InTree
<1>6. CASE ~IsChild(c.scope, ou) /\ c.scope.at \notin Subtree(ou)
  <2>1. d = [view |-> view, scope |-> c.scope]
    BY <1>3, <1>6
  <2>2. c.scope = OtherItem => InTree(u, c.scope)
    BY DEF InTree
  <2>3. ASSUME c.scope = AllPoliciesItem, AllPolicies \in t.shown
        PROVE  InTree(u, c.scope)
    <3>1. AllPolicies \in u.shown
      BY <1>1, <1>6, <2>3, ItemShapes
    <3> QED
      BY <2>3, <3>1 DEF InTree
  <2>4. ASSUME NEW o \in OUs \cap t.shown, c.scope = OUItem(o)
        PROVE  InTree(u, c.scope)
    <3>1. o \in u.shown
      BY <1>1, <1>6, <2>4, ItemShapes
    <3> QED
      BY <2>4, <3>1 DEF InTree
  <2>5. ASSUME NEW p \in Parents, NEW g \in GPOs, t.items[p][g] > 0,
               c.scope = PolicyItem(p, g)
        PROVE  InTree(u, c.scope)
    <3>1. p # ou /\ p \notin Subtree(ou)
      BY <1>6, <2>5, ItemShapes DEF IsChild
    <3>2. u.items[p] = t.items[p]
      BY <1>1, <3>1
    <3> QED
      BY <2>5, <3>2 DEF InTree
  <2>6. InTree(t, c.scope)
    BY DEF ConsoleOK
  <2>7. InTree(u, c.scope)
    BY <2>2, <2>3, <2>4, <2>5, <2>6 DEF InTree
  <2> QED
    BY <1>1, <1>2, <2>1, <2>7 DEF ConsoleOK
<1> QED
  BY <1>4, <1>5, <1>6

\* PolicyOUImpl::refresh() of an OU that is in the tree.
LEMMA RefreshesOK ==
    ASSUME NEW c, ConsoleOK(c), NEW ou \in OUs, ou \in c.view.tree.shown,
           NEW server, NEW cache, NEW d \in Refreshes(c, ou, server, cache)
    PROVE  ConsoleOK(d)
<1>1. PICK r \in WithoutChildren(c, ou, server, cache) :
        d \in {[view |-> View(t, w, r.view.results), scope |-> r.scope] :
                t \in Fetches(r.view.tree, ou, server),
                w \in LinksUpdates(r.view.links, ou, server)}
  BY DEF Refreshes
<1>2. PICK t \in Fetches(r.view.tree, ou, server),
           w \in LinksUpdates(r.view.links, ou, server) :
        d = [view |-> View(t, w, r.view.results), scope |-> r.scope]
  BY <1>1
<1>3. ConsoleOK(r) /\ ou \in r.view.tree.shown
  BY <1>1, WithoutChildrenOK
<1>4. TreeOK(t) /\ Grows(r.view.tree, t)
  BY <1>2, <1>3, FetchesTree DEF ConsoleOK
<1>5. InTree(t, r.scope)
  BY <1>3, <1>4, GrowsKeeps DEF ConsoleOK
<1>6. d.view = View(t, w, r.view.results) /\ d.scope = r.scope
      /\ d = [view |-> d.view, scope |-> d.scope]
  BY <1>2
<1>7. d.view.tree = t /\ IsView(d.view)
  BY <1>6 DEF View, IsView
<1> QED
  BY <1>4, <1>5, <1>6, <1>7 DEF ConsoleOK

LEMMA AddedToOK ==
    ASSUME NEW cs, \A c \in cs : ConsoleOK(c), NEW ou \in OUs, NEW server, NEW cache,
           NEW d \in AddedTo(cs, ou, server, cache)
    PROVE  ConsoleOK(d)
<1>1. PICK c \in cs :
        d \in IF ou \in c.view.tree.shown \cap c.view.tree.fetched
             THEN Refreshes(c, ou, server, cache) ELSE {c}
  BY DEF AddedTo
<1> QED
  BY <1>1, RefreshesOK

\* remove_link() of the links table.
LEMMA RemovesFirstTree ==
    ASSUME NEW t, TreeOK(t), NEW ou, NEW g, NEW u \in RemovesFirst(t, ou, g)
    PROVE  TreeOK(u) /\ u.shown = t.shown
<1>1. u = t \/ \E p : u = DeleteItem(t, p, g)
  BY DEF RemovesFirst
<1> QED
  BY <1>1, DeleteItemTree

CurrentInv == TreeOK(tree) /\ InTree(tree, scope)

LEMMA CurrentConsole ==
    ASSUME CurrentInv
    PROVE  ConsoleOK([view |-> Console, scope |-> scope]) /\ Console.tree = tree
BY ConsoleIsView DEF CurrentInv, ConsoleOK, Console, View

LEMMA CurrentItems ==
    ASSUME CurrentInv
    PROVE  /\ \A item \in Items : InTree(tree, item)
           /\ scope.type = "PolicyOU" =>
                scope.at \in OUs \cap tree.shown /\ scope = OUItem(scope.at)
           /\ scope.type = "Policy" =>
                /\ scope.at \in Parents /\ scope.gpo \in GPOs
                /\ scope = PolicyItem(scope.at, scope.gpo)
<1>1. \A item \in Items : InTree(tree, item)
  BY DEF Items, InTree
<1> QED
  BY <1>1, ItemShapes DEF CurrentInv, InTree

LEMMA CurrentScope ==
    ASSUME CurrentInv
    PROVE  scope \in ScopeItems
BY DEF CurrentInv, InTree, ScopeItems

LEMMA CurrentKept ==
    ASSUME CurrentInv, UNCHANGED <<tree, scope>>
    PROVE  CurrentInv'
BY DEF CurrentInv

LEMMA SelectCurrent ==
    ASSUME CurrentInv, NEW item \in Items, Select(item)
    PROVE  CurrentInv'
<1>1. PICK v \in Selecteds(item, Console, Server, ou_links) : Show(v)
  BY DEF Select
<1>2. InTree(tree, item) /\ TreeOK(tree) /\ Console.tree = tree /\ IsView(Console)
  BY CurrentItems, CurrentConsole, ConsoleIsView DEF CurrentInv
<1>3. TreeOK(v.tree) /\ Grows(tree, v.tree)
  BY <1>1, <1>2, SelectedsTree
<1>4. tree' = v.tree /\ scope' = item
  BY <1>1 DEF Show, Select
<1> QED
  BY <1>2, <1>3, <1>4, GrowsKeeps DEF CurrentInv

LEMMA RefreshOUCurrent ==
    ASSUME CurrentInv, RefreshOU
    PROVE  CurrentInv'
<1>1. PICK c \in Refreshes([view |-> Console, scope |-> scope], scope.at, Server, ou_links) :
        Show(c.view) /\ scope' = c.scope
  BY DEF RefreshOU
<1>2. scope.at \in OUs /\ scope.at \in tree.shown
  BY CurrentItems DEF RefreshOU
<1>3. ConsoleOK(c)
  BY <1>1, <1>2, CurrentConsole, RefreshesOK
<1> QED
  BY <1>1, <1>3 DEF CurrentInv, ConsoleOK, Show

\* "All policies" is refreshed: its items go before it is fetched.
LEMMA WithoutItems ==
    ASSUME NEW t, TreeOK(t)
    PROVE  LET u == [t EXCEPT !.items[AllPolicies] = NoItems]
           IN  /\ TreeOK(u) /\ u.shown = t.shown /\ u.fetched = t.fetched
               /\ \A g \in GPOs : u.items[AllPolicies][g] = 0
               /\ \A p \in Parents \ {AllPolicies} : u.items[p] = t.items[p]
<1> DEFINE rows == [t.items EXCEPT ![AllPolicies] = NoItems]
           u == [t EXCEPT !.items = rows]
<1>1. [t EXCEPT !.items[AllPolicies] = NoItems] = u
  BY DEF TreeOK
<1>2. NoItems \in [GPOs -> Nat] /\ \A g \in GPOs : NoItems[g] = 0
  BY DEF NoItems
<1>3. /\ rows \in [Parents -> [GPOs -> Nat]]
      /\ \A p \in Parents : rows[p] = IF p = AllPolicies THEN NoItems ELSE t.items[p]
  BY <1>2 DEF TreeOK
<1>4. AllPolicies \in Parents
  BY DEF Parents
<1> HIDE DEF rows
<1>5. /\ u.shown = t.shown /\ u.fetched = t.fetched /\ u.items = rows
      /\ u = [shown |-> u.shown, fetched |-> u.fetched, items |-> u.items]
  BY DEF TreeOK
<1> HIDE DEF u
<1>6. \A p \in Parents, g \in GPOs : rows[p][g] > 0 => p \in t.fetched
  BY <1>2, <1>3 DEF TreeOK
<1>7. TreeOK(u)
  BY <1>3, <1>5, <1>6 DEF TreeOK
<1> QED
  BY <1>1, <1>2, <1>3, <1>4, <1>5, <1>7

LEMMA ListedTree ==
    ASSUME NEW t, TreeOK(t), InTree(t, scope), NEW u \in Listed(t)
    PROVE  TreeOK(u) /\ InTree(u, scope)
<1>1. CASE scope = AllPoliciesItem
  <2> DEFINE w == [t EXCEPT !.items[AllPolicies] = NoItems]
  <2>1. u \in FetchesAllPolicies(w, Server)
    BY <1>1 DEF Listed
  <2>2. AllPolicies \in t.shown
    BY <1>1, ItemShapes DEF InTree
  <2>3. TreeOK(w) /\ w.shown = t.shown
    BY WithoutItems
  <2> HIDE DEF w
  <2>4. TreeOK(u) /\ Grows(w, u)
    BY <2>1, <2>2, <2>3, FetchesAllTree
  <2> QED
    BY <1>1, <2>2, <2>3, <2>4 DEF Grows, InTree
<1>2. CASE scope # AllPoliciesItem
  BY <1>2 DEF Listed
<1> QED
  BY <1>1, <1>2

LEMMA RefreshAllPoliciesCurrent ==
    ASSUME CurrentInv, RefreshAllPolicies
    PROVE  CurrentInv'
<1>1. tree' \in Listed(tree) /\ scope' = scope
  BY DEF RefreshAllPolicies, Listed
<1> QED
  BY <1>1, ListedTree DEF CurrentInv

LEMMA LinkToCurrent ==
    ASSUME CurrentInv, scope' = scope, NEW ou, NEW g, NEW h, LinkTo(ou, g, h)
    PROVE  CurrentInv'
<1>1. PICK t : tree' \in Listed(t) /\ (t = tree \/ \E S : t = AddItems(tree, ou, S))
  BY DEF LinkTo
<1>2. TreeOK(t) /\ InTree(t, scope)
  BY <1>1, AddItemsTree, GrowsKeeps DEF CurrentInv
<1> QED
  BY <1>1, <1>2, ListedTree DEF CurrentInv

LEMMA AddLinksCurrent ==
    ASSUME CurrentInv, NEW g, NEW ou1 \in OUs, NEW ou2 \in OUs, NEW b,
           AddLinks(g, ou1, ou2, b)
    PROVE  CurrentInv'
<1> DEFINE start == {[view |-> Console, scope |-> scope]}
           first == AddedTo(start, ou1, Server', ou_links')
           both == IF ou1 = ou2 THEN first ELSE AddedTo(first, ou2, Server', ou_links')
<1>1. PICK c \in both : tree' = c.view.tree /\ scope' = c.scope
  BY DEF AddLinks
<1>2. \A d \in start : ConsoleOK(d)
  BY CurrentConsole
<1> HIDE DEF start
<1>3. \A d \in first : ConsoleOK(d)
  BY <1>2, AddedToOK
<1> HIDE DEF first
<1>4. ConsoleOK(c)
  BY <1>1, <1>3, AddedToOK
<1> QED
  BY <1>1, <1>4 DEF CurrentInv, ConsoleOK

\* A handler that deletes one item of a policy.
LEMMA DeletingCurrent ==
    ASSUME CurrentInv, NEW p, NEW g, NEW server, NEW cache,
           NEW v \in DeletedItem(PolicyItem(p, g), Console, server, cache),
           scope' = ScopeAfterDeleting(PolicyItem(p, g))
    PROVE  /\ IsView(v) /\ TreeOK(v.tree)
           /\ InTree(v.tree, scope')
           /\ tree' = v.tree => CurrentInv'
<1>1. IsView(v) /\ TreeOK(v.tree) /\ InTree(v.tree, ScopeAfterDeleting(PolicyItem(p, g)))
  BY CurrentConsole, ConsoleIsView, DeletedItemTree DEF CurrentInv
<1> QED
  BY <1>1 DEF CurrentInv

LEMMA RemoveLinkCurrent ==
    ASSUME CurrentInv, RemoveLink
    PROVE  CurrentInv'
<1>1. \/ UNCHANGED <<tree, scope>>
      \/ /\ scope' = ScopeAfterDeleting(scope)
         /\ \E v \in DeletedItem(scope, Console, Server', ou_links') : Show(v)
  BY DEF RemoveLink, uiVars
<1>2. CASE UNCHANGED <<tree, scope>>
  BY <1>2, CurrentKept
<1>3. CASE /\ scope' = ScopeAfterDeleting(scope)
           /\ \E v \in DeletedItem(scope, Console, Server', ou_links') : Show(v)
  <2>1. PICK v \in DeletedItem(scope, Console, Server', ou_links') : tree' = v.tree
    BY <1>3 DEF Show
  <2>2. scope = PolicyItem(scope.at, scope.gpo)
    BY CurrentItems DEF RemoveLink
  <2> QED
    BY <1>3, <2>1, <2>2, DeletingCurrent
<1> QED
  BY <1>1, <1>2, <1>3

LEMMA DeletePolicyItemsCurrent ==
    ASSUME CurrentInv, NEW g, NEW b, DeletePolicyItems(g, b)
    PROVE  CurrentInv'
<1> DEFINE item == PolicyItem(scope.at, g)
<1>1. CASE g \in gpos'
  BY <1>1, CurrentKept DEF DeletePolicyItems, uiVars
<1>2. CASE g \notin gpos'
  <2>1. PICK v \in DeletedItem(item, Console, Server', ou_links) :
            Show([v EXCEPT !.tree = DeleteItemsOf(v.tree, g)])
    BY <1>2 DEF DeletePolicyItems
  <2>2. scope' = ScopeAfterDeleting(item)
    BY <1>2 DEF DeletePolicyItems
  <2>3. IsView(v) /\ TreeOK(v.tree) /\ InTree(v.tree, scope')
    BY <2>1, <2>2, DeletingCurrent
  <2>4. tree' = DeleteItemsOf(v.tree, g)
    BY <2>1, <2>3 DEF Show, IsView, View
  <2>5. /\ TreeOK(tree') /\ tree'.shown = v.tree.shown
        /\ \A q \in Parents, h \in GPOs :
            h # g => tree'.items[q][h] = v.tree.items[q][h]
    BY <2>3, <2>4, DeleteItemsOfTree
  <2>6. ASSUME NEW q, scope' = PolicyItem(q, g)
        PROVE  FALSE
    <3>1. CASE scope = item
      BY <2>2, <2>6, <3>1, ItemShapes DEF ScopeAfterDeleting, ParentItem
    <3>2. CASE scope # item
      BY <2>2, <2>6, <3>2, ItemShapes DEF ScopeAfterDeleting
    <3> QED
      BY <3>1, <3>2
  <2>7. InTree(tree', scope')
    BY <2>3, <2>5, <2>6 DEF InTree
  <2> QED
    BY <2>5, <2>7 DEF CurrentInv
<1> QED
  BY <1>1, <1>2

LEMMA LinksRemoveCurrent ==
    ASSUME CurrentInv, NEW g, NEW h, LinksRemove(g, h)
    PROVE  CurrentInv'
<1>1. TreeOK(tree') /\ tree'.shown = tree.shown
  <2>1. tree' \in IF g = h THEN RemovesFirst(tree, links.ou, g)
                  ELSE UNION {RemovesFirst(t, links.ou, h) :
                                t \in RemovesFirst(tree, links.ou, g)}
    BY DEF LinksRemove
  <2>2. \A t \in RemovesFirst(tree, links.ou, g) : TreeOK(t) /\ t.shown = tree.shown
    BY RemovesFirstTree DEF CurrentInv
  <2>3. \/ tree' \in RemovesFirst(tree, links.ou, g)
        \/ \E t \in RemovesFirst(tree, links.ou, g) : tree' \in RemovesFirst(t, links.ou, h)
    BY <2>1
  <2> QED
    BY <2>2, <2>3, RemovesFirstTree
<1>2. scope' = scope /\ scope.at \in OUs \cap tree.shown /\ scope = OUItem(scope.at)
  BY CurrentItems DEF LinksRemove, LinksShown
<1> QED
  BY <1>1, <1>2 DEF CurrentInv, InTree

LEMMA ResultsDeleteCurrent ==
    ASSUME CurrentInv, NEW ou, ResultsDelete(ou)
    PROVE  CurrentInv'
<1> DEFINE item == PolicyItem(ou, results.gpo)
<1>1. \/ UNCHANGED <<tree, scope>>
      \/ /\ scope' = ScopeAfterDeleting(item)
         /\ \E v \in DeletedItem(item, Console, Server', ou_links') :
                tree' = [v EXCEPT !.results.rows = [r \in DOMAIN v.results.rows \ {ou} |->
                                                    v.results.rows[r]]].tree
  BY DEF ResultsDelete, uiVars, Show
<1>2. CASE UNCHANGED <<tree, scope>>
  BY <1>2, CurrentKept
<1>3. ASSUME scope' = ScopeAfterDeleting(item),
             NEW v \in DeletedItem(item, Console, Server', ou_links'),
             tree' = [v EXCEPT !.results.rows = [r \in DOMAIN v.results.rows \ {ou} |->
                                                 v.results.rows[r]]].tree
      PROVE  CurrentInv'
  <2>1. IsView(v)
    BY <1>3, DeletingCurrent
  <2>2. tree' = v.tree
    BY <1>3, <2>1 DEF IsView, View
  <2> QED
    BY <1>3, <2>2, DeletingCurrent
<1> QED
  BY <1>1, <1>2, <1>3

LEMMA StartTree ==
    ASSUME NEW t, t = EmptyTree \/ t = [EmptyTree EXCEPT !.shown = {Domain}]
    PROVE  TreeOK(t) /\ InTree(t, OtherItem)
<1>1. NoItems \in [GPOs -> Nat] /\ \A g \in GPOs : NoItems[g] = 0
  BY DEF NoItems
<1> DEFINE rows == [p \in Parents |-> NoItems]
<1>2. rows \in [Parents -> [GPOs -> Nat]] /\ \A p \in Parents, g \in GPOs : rows[p][g] = 0
  BY <1>1
<1>3. EmptyTree = [shown |-> {}, fetched |-> {}, items |-> rows]
  BY DEF EmptyTree
<1> HIDE DEF rows
<1>4. t = [shown |-> t.shown, fetched |-> t.fetched, items |-> t.items]
      /\ t.fetched = {} /\ t.items = rows /\ t.shown \subseteq {Domain}
  BY <1>3
<1> QED
  BY <1>2, <1>4, PolicyLinksAssumption DEF TreeOK, InTree, Parents

LEMMA CurrentStep ==
    ASSUME CurrentInv, [Next]_vars
    PROVE  CurrentInv'
<1>1. CASE \E item \in Items : Select(item)
  BY <1>1, SelectCurrent
<1>2. CASE RefreshOU \/ RefreshAllPolicies
  BY <1>2, RefreshOUCurrent, RefreshAllPoliciesCurrent
<1>3. CASE RefreshPolicy \/ CacheUpdates \/ OtherAdmin \/ UNCHANGED vars
  BY <1>3, CurrentKept DEF RefreshPolicy, CacheUpdates, OtherAdmin, uiVars, vars
<1>4. CASE \E g, h \in GPOs : LinkGpo(g, h)
  BY <1>4, LinkToCurrent DEF LinkGpo
<1>5. CASE \E g, h \in GPOs : \E ou \in OUs : DropPolicy(ou, g, h)
  BY <1>5, LinkToCurrent DEF DropPolicy
<1>6. CASE \/ \E g \in GPOs, ou1, ou2 \in OUs : AddLink(g, ou1, ou2) \/ FindAddLink(g, ou1, ou2)
           \/ \E g \in GPOs : DropOU(g)
  <2>1. \E g, b : \E ou1, ou2 \in OUs : AddLinks(g, ou1, ou2, b)
    BY <1>6, CurrentItems DEF AddLink, FindAddLink, DropOU
  <2> QED
    BY <2>1, AddLinksCurrent
<1>7. CASE RemoveLink
  BY <1>7, RemoveLinkCurrent
<1>8. CASE \E g \in GPOs : DeletePolicy(g) \/ FindDeletePolicy(g)
  BY <1>8, DeletePolicyItemsCurrent DEF DeletePolicy, FindDeletePolicy
<1>9. CASE \E o \in Options, checked \in BOOLEAN : ChangeOption(o, checked)
  BY <1>9, CurrentKept DEF ChangeOption
<1>10. CASE \E g, h \in GPOs : LinksRemove(g, h)
  BY <1>10, LinksRemoveCurrent
<1>11. CASE \/ \E g, h \in GPOs : \E to \in 1..Cardinality(GPOs) : LinksReorder(g, h, to)
            \/ \E g \in GPOs : LinksMove(g) \/ \E o \in Options : LinksToggle(g, o)
            \/ \E ou \in OUs, o \in Options, checked \in BOOLEAN :
                    ResultsToggle(ou, o, checked)
  BY <1>11, CurrentKept DEF LinksReorder, LinksMove, LinksToggle, ResultsToggle
<1>12. CASE \E ou \in OUs : ResultsDelete(ou)
  BY <1>12, ResultsDeleteCurrent
<1>13. CASE RefreshDomain
  BY <1>13, StartTree DEF RefreshDomain, CurrentInv
<1> QED
  BY <1>1, <1>2, <1>3, <1>4, <1>5, <1>6, <1>7, <1>8, <1>9, <1>10, <1>11, <1>12, <1>13
  DEF Next, Looks, TreeEdits, TableEdits

\* Whatever fails, is deleted, refreshed or edited, by whomever: the current
\* item is in the tree, or none of the tree is current.  on_remove_link(),
\* link_gpo() and the menus take what they act on from it.
THEOREM CurrentItemIsShown == Spec => []ScopeIsShown
<1>1. Init => CurrentInv
  BY StartTree DEF Init, CurrentInv
<1>2. CurrentInv /\ [Next]_vars => CurrentInv'
  BY CurrentStep
<1>3. CurrentInv => ScopeIsShown
  BY DEF CurrentInv, InTree, ScopeIsShown, Items
<1> QED
  BY <1>1, <1>2, <1>3, PTL DEF Spec

-----------------------------------------------------------------------------
(* What is written, with any faults and operations: attributes that name   *)
(* no policy twice.  The facts about Gplink come from GplinkEdit_proofs.   *)

Edits == INSTANCE GplinkEdit_proofs WITH link <- << >>, MaxParts <- 0

\* The operators of Gplink are those that GplinkEdit_proofs is about.
LEMMA SameStrings ==
    /\ \A str : Edits!Named(str) = Named(str) /\ Edits!Parse(str) = Parse(str)
    /\ Edits!GplinkString = GplinkString
    /\ \A l : Edits!WellFormed(l) <=> WellFormed(l)
    /\ \A l : Edits!to_string(l) = to_string(l)
<1>1. Edits!GplinkOption = GplinkOption
  BY DEF GplinkOption, Edits!GplinkOption
<1>2. Edits!Part = Part
  BY <1>1 DEF Part, Edits!Part
<1>3. \A str : Edits!NoDuplicates(str) <=> NoDuplicates(str)
  BY DEF NoDuplicates, Edits!NoDuplicates
<1>4. Edits!GplinkString = GplinkString
  BY <1>2, <1>3 DEF GplinkString, Edits!GplinkString
<1>5. \A str : Edits!Named(str) = Named(str)
  BY DEF Named, Edits!Named
<1>6. \A str, g : Edits!LastPart(str, g) = LastPart(str, g)
  BY DEF LastPart, Edits!LastPart
<1>7. \A str : Edits!Parse(str) = Parse(str)
  BY <1>5, <1>6 DEF Parse, Edits!Parse
<1>8. \A l : Edits!Range(l) = Range(l)
  BY DEF Range, Edits!Range
<1>9. \A l : Edits!WellFormed(l) <=> WellFormed(l)
  BY <1>1, <1>8 DEF WellFormed, Edits!WellFormed
<1>10. \A l, g : Edits!OptionBits(l, g) = OptionBits(l, g)
  BY DEF OptionBits, Edits!OptionBits
<1>11. \A l : Edits!to_string(l) = to_string(l)
  BY <1>10 DEF to_string, Edits!to_string
<1> QED
  BY <1>4, <1>5, <1>7, <1>9, <1>11

LEMMA SameEdits ==
    /\ \A l, g : Edits!add(l, g) = add(l, g)
    /\ \A l, g : Edits!remove(l, g) = remove(l, g)
    /\ \A l, from, to : Edits!move(l, from, to) = move(l, from, to)
    /\ \A l, g : Edits!get_gpo_order(l, g) = get_gpo_order(l, g)
    /\ \A l, g : Edits!move_up(l, g) = move_up(l, g)
    /\ \A l, g : Edits!move_down(l, g) = move_down(l, g)
    /\ \A l, g, o, value : Edits!set_option(l, g, o, value) = set_option(l, g, o, value)
<1>1. \A l, g : Edits!contains(l, g) <=> contains(l, g)
  BY DEF contains, Edits!contains
<1>2. \A l, g : Edits!add(l, g) = add(l, g)
  BY <1>1 DEF add, Edits!add
<1>3. \A list, g : Edits!RemoveAll(list, g) = RemoveAll(list, g)
  BY Zenon DEF RemoveAll, Edits!RemoveAll, RemoveAt, Edits!RemoveAt
<1>4. \A l, g : Edits!remove(l, g) = remove(l, g)
  BY <1>1, <1>3 DEF remove, Edits!remove
<1>5. \A list, from, to : Edits!MoveItem(list, from, to) = MoveItem(list, from, to)
  BY DEF MoveItem, Edits!MoveItem
<1>6. \A l, from, to : Edits!move(l, from, to) = move(l, from, to)
  BY <1>5 DEF move, Edits!move
<1>7. \A l, g : Edits!get_gpo_order(l, g) = get_gpo_order(l, g)
  BY DEF get_gpo_order, Edits!get_gpo_order
<1>8. \A l, g : Edits!move_up(l, g) = move_up(l, g)
  BY <1>1, <1>6, <1>7 DEF move_up, Edits!move_up
<1>9. \A l, g : Edits!move_down(l, g) = move_down(l, g)
  BY <1>1, <1>6, <1>7 DEF move_down, Edits!move_down
<1>10. \A l, g, o, value : Edits!set_option(l, g, o, value) = set_option(l, g, o, value)
  BY <1>1 DEF set_option, Edits!set_option
<1> QED
  BY <1>2, <1>4, <1>6, <1>7, <1>8, <1>9, <1>10

LEMMA StringOfLink ==
    ASSUME NEW l, WellFormed(l)
    PROVE  to_string(l) \in GplinkString /\ Named(to_string(l)) = DOMAIN l.options
BY SameStrings, Edits!PrintedString

LEMMA LinkOfString ==
    ASSUME NEW str \in GplinkString
    PROVE  WellFormed(Parse(str)) /\ DOMAIN Parse(str).options = Named(str)
BY SameStrings, Edits!ParseWellFormed, Edits!ParsedNames

LEMMA EditedLinks ==
    ASSUME NEW l, WellFormed(l)
    PROVE  /\ \A g \in GPOs : /\ WellFormed(add(l, g)) /\ WellFormed(remove(l, g))
                            /\ WellFormed(move_up(l, g)) /\ WellFormed(move_down(l, g))
                            /\ get_gpo_order(l, g) \in Nat
           /\ \A from, to \in Nat : WellFormed(move(l, from, to))
           /\ \A g \in GPOs, o \in GplinkOption, value \in BOOLEAN :
                WellFormed(set_option(l, g, o, value))
<1>1. Edits!WellFormed(l)
  BY SameStrings
<1>2. Edits!GplinkOption = GplinkOption
  BY DEF GplinkOption, Edits!GplinkOption
<1>3. \A g \in GPOs : /\ WellFormed(add(l, g)) /\ WellFormed(remove(l, g))
  BY <1>1, SameStrings, SameEdits, Edits!AddWellFormed, Edits!RemoveWellFormed
<1>4. \A g \in GPOs : /\ WellFormed(move_up(l, g)) /\ WellFormed(move_down(l, g))
                     /\ get_gpo_order(l, g) \in Nat
  BY <1>1, SameStrings, SameEdits, Edits!MoveByOneWellFormed, Edits!OrderInRange
<1>5. \A from, to \in Nat : WellFormed(move(l, from, to))
  BY <1>1, SameStrings, SameEdits, Edits!MoveWellFormed
<1>6. \A g \in GPOs, o \in GplinkOption, value \in BOOLEAN :
        WellFormed(set_option(l, g, o, value))
  BY <1>1, <1>2, SameStrings, SameEdits, Edits!SetOptionWellFormed
<1> QED
  BY <1>3, <1>4, <1>5, <1>6

LEMMA EditedLinkNames ==
    ASSUME NEW l, WellFormed(l)
    PROVE  /\ \A g : DOMAIN add(l, g).options = DOMAIN l.options \cup {g}
           /\ \A g : DOMAIN remove(l, g).options = DOMAIN l.options \ {g}
           /\ \A from, to : DOMAIN move(l, from, to).options = DOMAIN l.options
           /\ \A g : /\ DOMAIN move_up(l, g).options = DOMAIN l.options
                     /\ DOMAIN move_down(l, g).options = DOMAIN l.options
           /\ \A g, o, value : DOMAIN set_option(l, g, o, value).options = DOMAIN l.options
<1>1. Edits!WellFormed(l)
  BY SameStrings
<1> QED
  BY <1>1, SameEdits, Edits!EditedNames

\* What each edit of an attribute yields: an attribute, of these policies.
LEMMA EditedStrings ==
    ASSUME NEW str \in GplinkString, NEW g \in GPOs
    PROVE  /\ Adding(str, g) \in GplinkString /\ Named(Adding(str, g)) = Named(str) \cup {g}
           /\ Removing(str, g) \in GplinkString /\ Named(Removing(str, g)) = Named(str) \ {g}
           /\ MovingUp(str, g) \in GplinkString /\ Named(MovingUp(str, g)) = Named(str)
           /\ MovingDown(str, g) \in GplinkString /\ Named(MovingDown(str, g)) = Named(str)
           /\ \A o \in GplinkOption, value \in BOOLEAN :
                /\ Setting(str, g, o, value) \in GplinkString
                /\ Named(Setting(str, g, o, value)) = Named(str)
<1> DEFINE l == Parse(str)
<1>1. WellFormed(l) /\ DOMAIN l.options = Named(str)
  BY LinkOfString
<1>2. Adding(str, g) \in GplinkString /\ Named(Adding(str, g)) = Named(str) \cup {g}
  BY <1>1, EditedLinks, EditedLinkNames, StringOfLink DEF Adding
<1>3. Removing(str, g) \in GplinkString /\ Named(Removing(str, g)) = Named(str) \ {g}
  BY <1>1, EditedLinks, EditedLinkNames, StringOfLink DEF Removing
<1>4. MovingUp(str, g) \in GplinkString /\ Named(MovingUp(str, g)) = Named(str)
  BY <1>1, EditedLinks, EditedLinkNames, StringOfLink DEF MovingUp
<1>5. MovingDown(str, g) \in GplinkString /\ Named(MovingDown(str, g)) = Named(str)
  BY <1>1, EditedLinks, EditedLinkNames, StringOfLink DEF MovingDown
<1>6. ASSUME NEW o \in GplinkOption, NEW value \in BOOLEAN
      PROVE  /\ Setting(str, g, o, value) \in GplinkString
             /\ Named(Setting(str, g, o, value)) = Named(str)
  <2> DEFINE m == set_option(l, g, o, value)
  <2>1. WellFormed(m)
    BY <1>1, EditedLinks
  <2>2. DOMAIN m.options = DOMAIN l.options
    BY <1>1, EditedLinkNames
  <2>3. Setting(str, g, o, value) = to_string(m)
    BY DEF Setting
  <2> HIDE DEF m
  <2> QED
    BY <1>1, <2>1, <2>2, <2>3, StringOfLink
<1> QED
  BY <1>2, <1>3, <1>4, <1>5, <1>6

LEMMA DraggedStrings ==
    ASSUME NEW str \in GplinkString, NEW g \in GPOs, NEW h \in GPOs, NEW to \in Nat
    PROVE  /\ DraggingOne(str, g, to) \in GplinkString
           /\ Named(DraggingOne(str, g, to)) = Named(str)
           /\ DraggingTwo(str, g, h, to) \in GplinkString
           /\ Named(DraggingTwo(str, g, h, to)) = Named(str)
<1> DEFINE l == Parse(str)
<1>1. WellFormed(l) /\ DOMAIN l.options = Named(str)
  BY LinkOfString
<1>2. /\ DraggingOne(str, g, to) \in GplinkString
      /\ Named(DraggingOne(str, g, to)) = Named(str)
  <2> DEFINE m == move(l, get_gpo_order(l, g), to)
  <2>1. get_gpo_order(l, g) \in Nat
    BY <1>1, EditedLinks
  <2>2. WellFormed(m)
    BY <1>1, <2>1, EditedLinks
  <2>3. DOMAIN m.options = DOMAIN l.options
    BY <1>1, EditedLinkNames
  <2>4. DraggingOne(str, g, to) = to_string(m)
    BY DEF DraggingOne
  <2> HIDE DEF m
  <2> QED
    BY <1>1, <2>2, <2>3, <2>4, StringOfLink
<1>3. /\ DraggingTwo(str, g, h, to) \in GplinkString
      /\ Named(DraggingTwo(str, g, h, to)) = Named(str)
  <2> DEFINE next == IF to < Len(l.gpo_list) THEN to + 1 ELSE to
             m == move(l, get_gpo_order(l, g), to)
             n == move(m, get_gpo_order(l, h), next)
  <2>1. get_gpo_order(l, g) \in Nat /\ get_gpo_order(l, h) \in Nat /\ next \in Nat
    <3>1. get_gpo_order(l, g) \in Nat /\ get_gpo_order(l, h) \in Nat
      BY <1>1, EditedLinks
    <3> QED
      BY <3>1
  <2>2. DraggingTwo(str, g, h, to) = to_string(n)
    BY DEF DraggingTwo
  <2> HIDE DEF l, next
  <2>3. WellFormed(m) /\ DOMAIN m.options = DOMAIN l.options
    <3>1. WellFormed(m)
      BY <1>1, <2>1, EditedLinks
    <3>2. DOMAIN m.options = DOMAIN l.options
      BY <1>1, EditedLinkNames
    <3> QED
      BY <3>1, <3>2
  <2> HIDE DEF m
  <2>4. WellFormed(n) /\ DOMAIN n.options = DOMAIN m.options
    <3>1. WellFormed(n)
      BY <2>1, <2>3, EditedLinks
    <3>2. DOMAIN n.options = DOMAIN m.options
      BY <2>3, EditedLinkNames
    <3> QED
      BY <3>1, <3>2
  <2> HIDE DEF n
  <2> QED
    BY <1>1, <2>2, <2>3, <2>4, StringOfLink
<1> QED
  BY <1>2, <1>3

\* An absent attribute.
LEMMA NoString ==
    << >> \in GplinkString /\ Named(<< >>) = {}
<1>1. << >> \in Seq(Part) /\ DOMAIN << >> = {}
  OBVIOUS
<1> QED
  BY <1>1 DEF GplinkString, NoDuplicates, Named

LEMMA StringNames ==
    ASSUME NEW str \in GplinkString
    PROVE  /\ Named(str) \subseteq GPOs
           /\ \A g : OptionBits(Parse(str), g) \subseteq GplinkOption
<1>1. WellFormed(Parse(str))
  BY LinkOfString
<1>2. Named(str) \subseteq GPOs
  <2>1. \A i \in DOMAIN str : str[i] \in Part
    BY DEF GplinkString
  <2>2. \A i \in DOMAIN str : str[i].gpo \in GPOs
    BY <2>1 DEF Part
  <2> QED
    BY <2>2 DEF Named
<1> QED
  BY <1>1, <1>2 DEF WellFormed, OptionBits

-----------------------------------------------------------------------------
(* What the tables hold, with any faults and operations.                   *)

LinksOK(w) ==
    /\ LinksRecord(w)
    /\ w.ou \in OUs /\ w.from \in OUs /\ w.gplink \in GplinkString
    /\ w.rows = [g \in DOMAIN w.rows |-> w.rows[g]]
    /\ DOMAIN w.rows \subseteq Named(w.gplink)
    /\ \A g \in DOMAIN w.rows : w.rows[g] \subseteq GplinkOption

ResultsOK(r) ==
    /\ r = [gpo |-> r.gpo, rows |-> r.rows]
    /\ r.gpo \in GPOs \cup {NoGPO}
    /\ DOMAIN r.rows \subseteq OUs
    /\ \A ou \in DOMAIN r.rows : r.rows[ou] \in GplinkString

CacheOK(cache) == cache \in [OUs -> GplinkString]

TablesOK(v) == IsView(v) /\ LinksOK(v.links) /\ ResultsOK(v.results)

ItemOK(item) ==
    /\ item.type = "PolicyOU" => item.at \in OUs
    /\ item.type = "Policy" => item.gpo \in GPOs

\* update_link_items() shows links of the attribute only.
LEMMA RowsOK ==
    ASSUME NEW str \in GplinkString, NEW found
    PROVE  LET rows == Rows(str, found)
           IN  /\ rows = [g \in DOMAIN rows |-> rows[g]]
               /\ DOMAIN rows \subseteq Named(str)
               /\ \A g \in DOMAIN rows : rows[g] \subseteq GplinkOption
BY StringNames DEF Rows

LEMMA RowSetsOK ==
    ASSUME NEW str \in GplinkString, NEW server, NEW rows \in RowSets(str, server)
    PROVE  /\ rows = [g \in DOMAIN rows |-> rows[g]]
           /\ DOMAIN rows \subseteq Named(str)
           /\ \A g \in DOMAIN rows : rows[g] \subseteq GplinkOption
<1>1. (\E found : rows = Rows(str, found)) \/ rows = Rows(<< >>, {})
  BY DEF RowSets, MayFail
<1>2. CASE \E found : rows = Rows(str, found)
  BY <1>2, RowsOK
<1>3. CASE rows = Rows(<< >>, {})
  <2>1. /\ rows = [g \in DOMAIN rows |-> rows[g]]
        /\ DOMAIN rows \subseteq Named(<< >>)
        /\ \A g \in DOMAIN rows : rows[g] \subseteq GplinkOption
    BY <1>3, NoString, RowsOK
  <2> QED
    BY <2>1, NoString
<1> QED
  BY <1>1, <1>2, <1>3

LEMMA ReadsOK ==
    ASSUME NEW server, CacheOK(server.gplink), NEW ou \in OUs, NEW str \in Reads(server, ou)
    PROVE  str \in GplinkString
BY NoString DEF Reads, MayFail, CacheOK

LEMMA LinksUpdatesOK ==
    ASSUME NEW w, LinksOK(w), NEW ou \in OUs, NEW server, CacheOK(server.gplink),
           NEW u \in LinksUpdates(w, ou, server)
    PROVE  LinksOK(u)
<1>1. \/ \E str \in Reads(server, ou) : \E rows \in RowSets(str, server) :
            u = [ou |-> ou, gplink |-> str, rows |-> rows, from |-> ou]
      \/ u = [w EXCEPT !.ou = ou]
  BY DEF LinksUpdates, MayFail
<1>2. CASE u = [w EXCEPT !.ou = ou]
  BY <1>2 DEF LinksOK, LinksRecord
<1>3. ASSUME NEW str \in Reads(server, ou), NEW rows \in RowSets(str, server),
             u = [ou |-> ou, gplink |-> str, rows |-> rows, from |-> ou]
      PROVE  LinksOK(u)
  <2>1. str \in GplinkString
    BY ReadsOK
  <2> QED
    BY <1>3, <2>1, RowSetsOK DEF LinksOK, LinksRecord
<1> QED
  BY <1>1, <1>2, <1>3

LEMMA ResultsUpdatesOK ==
    ASSUME NEW r, ResultsOK(r), NEW g \in GPOs, NEW cache, CacheOK(cache),
           NEW u \in ResultsUpdates(r, g, cache)
    PROVE  ResultsOK(u)
<1>1. \/ u = [gpo |-> g, rows |-> [ou \in linked_ou_list(cache, g) |-> cache[ou]]]
      \/ u = [r EXCEPT !.gpo = g]
  BY DEF ResultsUpdates, MayFail
<1>2. CASE u = [r EXCEPT !.gpo = g]
  BY <1>2 DEF ResultsOK
<1>3. CASE u = [gpo |-> g, rows |-> [ou \in linked_ou_list(cache, g) |-> cache[ou]]]
  BY <1>3 DEF ResultsOK, CacheOK, linked_ou_list
<1> QED
  BY <1>1, <1>2, <1>3

LEMMA SelectedsOK ==
    ASSUME NEW item, ItemOK(item), NEW v, TablesOK(v), NEW server, CacheOK(server.gplink),
           NEW cache, CacheOK(cache), NEW u \in Selecteds(item, v, server, cache)
    PROVE  TablesOK(u)
<1>1. CASE item.type = "PolicyOU"
  <2>1. PICK w \in LinksUpdates(v.links, item.at, server),
             t \in IF item.at \in v.tree.fetched THEN {v.tree}
                   ELSE Fetches(v.tree, item.at, server) : u = View(t, w, v.results)
    BY <1>1 DEF Selecteds
  <2>2. LinksOK(w)
    BY <1>1, <2>1, LinksUpdatesOK DEF TablesOK, ItemOK
  <2> QED
    BY <2>1, <2>2 DEF TablesOK, IsView, View
<1>2. CASE item.type = "AllPoliciesFolder"
  <2>1. PICK t : u = View(t, v.links, v.results)
    BY <1>2 DEF Selecteds
  <2> QED
    BY <2>1 DEF TablesOK, IsView, View
<1>3. CASE item.type = "Policy"
  <2>1. u = v \/ \E r \in ResultsUpdates(v.results, item.gpo, cache) : u = View(v.tree, v.links, r)
    BY <1>3 DEF Selecteds, MayFail
  <2>2. \A r \in ResultsUpdates(v.results, item.gpo, cache) : ResultsOK(r)
    BY <1>3, ResultsUpdatesOK DEF TablesOK, ItemOK
  <2> QED
    BY <2>1, <2>2 DEF TablesOK, IsView, View
<1>4. CASE item.type \notin {"PolicyOU", "AllPoliciesFolder", "Policy"}
  BY <1>4 DEF Selecteds
<1> QED
  BY <1>1, <1>2, <1>3, <1>4

LEMMA DeletedItemOK ==
    ASSUME NEW p \in Parents, NEW g, NEW v, TablesOK(v), NEW server, CacheOK(server.gplink),
           NEW cache, CacheOK(cache),
           NEW u \in DeletedItem(PolicyItem(p, g), v, server, cache)
    PROVE  TablesOK(u)
<1> DEFINE item == PolicyItem(p, g)
<1>1. PICK w \in IF scope = item THEN Selecteds(ParentItem(p), v, server, cache) ELSE {v} :
        u = [w EXCEPT !.tree = DeleteItem(w.tree, p, g)]
  BY ItemShapes DEF DeletedItem
<1>2. ItemOK(ParentItem(p))
  BY ItemShapes DEF ItemOK, ParentItem, Parents
<1>3. TablesOK(w)
  BY <1>1, <1>2, SelectedsOK
<1> QED
  BY <1>1, <1>3 DEF TablesOK, IsView, View

LEMMA RefreshesTables ==
    ASSUME NEW c, TablesOK(c.view), NEW ou \in OUs, NEW server, CacheOK(server.gplink),
           NEW cache, CacheOK(cache), NEW d \in Refreshes(c, ou, server, cache)
    PROVE  TablesOK(d.view)
<1> DEFINE view == [c.view EXCEPT !.tree = DeleteChildren(c.view.tree, ou)]
<1>1. PICK r \in WithoutChildren(c, ou, server, cache) :
        d \in {[view |-> View(t, w, r.view.results), scope |-> r.scope] :
                t \in Fetches(r.view.tree, ou, server),
                w \in LinksUpdates(r.view.links, ou, server)}
  BY DEF Refreshes
<1>2. PICK t \in Fetches(r.view.tree, ou, server),
           w \in LinksUpdates(r.view.links, ou, server) :
        d = [view |-> View(t, w, r.view.results), scope |-> r.scope]
  BY <1>1
<1>3. TablesOK(view)
  BY DEF TablesOK, IsView, View
<1> HIDE DEF view
<1>4. r.view = view \/ r.view \in Selecteds(OUItem(ou), view, server, cache)
  BY <1>1 DEF WithoutChildren, view
<1>5. ItemOK(OUItem(ou))
  BY ItemShapes DEF ItemOK
<1>6. TablesOK(r.view)
  BY <1>3, <1>4, <1>5, SelectedsOK
<1>7. LinksOK(w)
  BY <1>2, <1>6, LinksUpdatesOK DEF TablesOK
<1>8. d.view = View(t, w, r.view.results)
  BY <1>2
<1> QED
  BY <1>6, <1>7, <1>8 DEF TablesOK, IsView, View

LEMMA AddedToTables ==
    ASSUME NEW cs, \A c \in cs : TablesOK(c.view), NEW ou \in OUs, NEW server,
           CacheOK(server.gplink), NEW cache, CacheOK(cache),
           NEW d \in AddedTo(cs, ou, server, cache)
    PROVE  TablesOK(d.view)
<1>1. PICK c \in cs :
        d \in IF ou \in c.view.tree.shown \cap c.view.tree.fetched
             THEN Refreshes(c, ou, server, cache) ELSE {c}
  BY DEF AddedTo
<1> QED
  BY <1>1, RefreshesTables

SignalsOK == events \in Seq(Manager!Search!Events)

Typed ==
    /\ gplink \in [OUs -> GplinkString] /\ gpos \subseteq GPOs
    /\ CacheOK(ou_links)
    /\ LinksOK(links) /\ ResultsOK(results)
    /\ SignalsOK

ContentInv == CurrentInv /\ Typed

LEMMA TypedConsole ==
    ASSUME Typed
    PROVE  /\ TablesOK(Console) /\ Console.links = links /\ Console.results = results
           /\ Server.gplink = gplink /\ CacheOK(gplink)
BY ConsoleIsView DEF Typed, TablesOK, Console, View, Server, CacheOK

\* A handler that leaves the queue alone and writes attributes of its own.
LEMMA TypedKept ==
    ASSUME Typed, gplink' \in [OUs -> GplinkString], gpos' \subseteq gpos,
           CacheOK(ou_links'), LinksOK(links'), ResultsOK(results'), UNCHANGED events
    PROVE  Typed'
BY DEF Typed, SignalsOK

LEMMA ReplaceOK ==
    ASSUME Typed, NEW ou \in OUs, NEW str \in GplinkString, NEW success,
           Replace(ou, str, success)
    PROVE  gplink' \in [OUs -> GplinkString] /\ CacheOK(gplink')
BY DEF Typed, Replace, CacheOK

LEMMA CacheKept ==
    ASSUME Typed, NEW ou \in OUs, NEW str \in GplinkString,
           Cache(ou, str) \/ UNCHANGED ou_links
    PROVE  CacheOK(ou_links')
BY DEF Typed, Cache, CacheOK

LEMMA LinkToTyped ==
    ASSUME ContentInv, NEW ou \in OUs, NEW g \in GPOs, NEW h \in GPOs, LinkTo(ou, g, h)
    PROVE  /\ gplink' \in [OUs -> GplinkString] /\ CacheOK(ou_links') /\ LinksOK(links')
<1>1. PICK str \in Reads(Server, ou), success \in EditOutcomes :
        LET new == Adding(Adding(str, g), h)
            added == Named(new) \ Named(str)
        IN  /\ Replace(ou, new, success)
            /\ IF success
               THEN /\ Cache(ou, new)
                    /\ \E found \in Founds(Server) :
                            tree' \in Listed(AddItems(tree, ou, added \cap found))
                    /\ IF scope.type = "PolicyOU"
                       THEN links' \in LinksUpdates(links, scope.at, Server')
                       ELSE UNCHANGED links
               ELSE tree' \in Listed(tree) /\ UNCHANGED <<ou_links, links>>
  BY DEF LinkTo
<1> DEFINE new == Adding(Adding(str, g), h)
<1>2. str \in GplinkString
  BY <1>1, ReadsOK, TypedConsole DEF ContentInv
<1>3. new \in GplinkString
  BY <1>2, EditedStrings
<1>4. /\ Replace(ou, new, success)
      /\ Cache(ou, new) \/ UNCHANGED ou_links
      /\ \/ UNCHANGED links
         \/ scope.type = "PolicyOU" /\ links' \in LinksUpdates(links, scope.at, Server')
  BY <1>1
<1> HIDE DEF new
<1>5. gplink' \in [OUs -> GplinkString] /\ CacheOK(gplink')
  BY <1>3, <1>4, ReplaceOK DEF ContentInv
<1>6. CacheOK(ou_links')
  BY <1>3, <1>4, CacheKept DEF ContentInv
<1>7. CacheOK(Server'.gplink)
  BY <1>5 DEF Server
<1>8. LinksOK(links) /\ (scope.type = "PolicyOU" => scope.at \in OUs)
  BY CurrentItems DEF ContentInv, Typed
<1>9. LinksOK(links')
  <2>1. CASE UNCHANGED links
    BY <1>8, <2>1
  <2>2. CASE scope.type = "PolicyOU" /\ links' \in LinksUpdates(links, scope.at, Server')
    BY <1>7, <1>8, <2>2, LinksUpdatesOK
  <2> QED
    BY <1>4, <2>1, <2>2
<1> QED
  BY <1>5, <1>6, <1>9

LEMMA AddLinksTyped ==
    ASSUME ContentInv, NEW g \in GPOs, NEW ou1 \in OUs, NEW ou2 \in OUs, NEW b,
           AddLinks(g, ou1, ou2, b), UNCHANGED <<gpos, events>>
    PROVE  Typed'
<1> DEFINE start == {[view |-> Console, scope |-> scope]}
           first == AddedTo(start, ou1, Server', ou_links')
           both == IF ou1 = ou2 THEN first ELSE AddedTo(first, ou2, Server', ou_links')
<1>1. /\ gplink' \in [OUs -> GplinkString] /\ CacheOK(gplink')
      /\ CacheOK(ou_links')
  <2>1. PICK str1 \in Reads(Server, ou1), str2 \in Reads(Server, ou2),
             ok1 \in WriteOutcomes, ok2 \in WriteOutcomes :
        LET new == [ou \in {ou1, ou2} |-> Adding(IF ou = ou1 THEN str1 ELSE str2, g)]
            ok == [ou \in {ou1, ou2} |-> IF ou = ou1 THEN ok1 ELSE ok2]
        IN  /\ gplink' = [ou \in OUs |-> IF ou \in {ou1, ou2} /\ ok[ou]
                                         THEN new[ou] ELSE gplink[ou]]
            /\ ou_links' = [ou \in OUs |-> IF ou \in {ou1, ou2}
                                           THEN new[ou] ELSE ou_links[ou]]
    BY DEF AddLinks
  <2> DEFINE new == [ou \in {ou1, ou2} |-> Adding(IF ou = ou1 THEN str1 ELSE str2, g)]
             ok == [ou \in {ou1, ou2} |-> IF ou = ou1 THEN ok1 ELSE ok2]
  <2>2. str1 \in GplinkString /\ str2 \in GplinkString
    BY ReadsOK, TypedConsole DEF ContentInv
  <2>3. Adding(str1, g) \in GplinkString /\ Adding(str2, g) \in GplinkString
    BY <2>2, EditedStrings
  <2>4. \A ou \in {ou1, ou2} : new[ou] \in GplinkString
    <3>1. \A ou \in {ou1, ou2} : new[ou] = Adding(str1, g) \/ new[ou] = Adding(str2, g)
      OBVIOUS
    <3> QED
      BY <2>3, <3>1
  <2>5. /\ gplink' = [ou \in OUs |-> IF ou \in {ou1, ou2} /\ ok[ou]
                                     THEN new[ou] ELSE gplink[ou]]
        /\ ou_links' = [ou \in OUs |-> IF ou \in {ou1, ou2}
                                       THEN new[ou] ELSE ou_links[ou]]
    BY <2>1
  <2> HIDE DEF new, ok
  <2> QED
    BY <2>4, <2>5 DEF ContentInv, Typed, CacheOK
<1>2. PICK c \in both :
        /\ tree' = c.view.tree /\ links' = c.view.links /\ scope' = c.scope
        /\ \/ results' \in ResultsUpdates(c.view.results, g, ou_links')
           \/ results' = c.view.results
  BY DEF AddLinks
<1>3. CacheOK(Server'.gplink)
  BY <1>1 DEF Server
<1>4. \A d \in start : TablesOK(d.view) /\ ConsoleOK(d)
  BY TypedConsole, CurrentConsole DEF ContentInv
<1> HIDE DEF start
<1>5. \A d \in first : TablesOK(d.view) /\ ConsoleOK(d)
  BY <1>1, <1>3, <1>4, AddedToTables, AddedToOK
<1> HIDE DEF first
<1>6. TablesOK(c.view) /\ ConsoleOK(c)
  BY <1>1, <1>2, <1>3, <1>5, AddedToTables, AddedToOK
<1>7. ResultsOK(results')
  BY <1>1, <1>2, <1>6, ResultsUpdatesOK DEF TablesOK
<1> QED
  BY <1>1, <1>2, <1>6, <1>7, TypedKept DEF TablesOK, ContentInv

\* console_policy_remove_link() and delete_link() end with deleting an item.
LEMMA DeletingTyped ==
    ASSUME ContentInv, NEW p \in Parents, NEW g, gplink' \in [OUs -> GplinkString],
           NEW cache, CacheOK(cache),
           NEW v \in DeletedItem(PolicyItem(p, g), Console, Server', cache)
    PROVE  TablesOK(v)
<1>1. CacheOK(Server'.gplink)
  BY DEF Server, CacheOK
<1> QED
  BY <1>1, TypedConsole, DeletedItemOK DEF ContentInv

LEMMA RemoveLinkTyped ==
    ASSUME ContentInv, RemoveLink
    PROVE  Typed'
<1>1. scope.at \in OUs /\ scope.gpo \in GPOs /\ scope = PolicyItem(scope.at, scope.gpo)
      /\ scope.at \in Parents
  BY CurrentItems DEF ContentInv, RemoveLink
<1>2. PICK str \in Reads(Server, scope.at), success \in EditOutcomes :
        LET new == Removing(str, scope.gpo)
        IN  /\ Replace(scope.at, new, success)
            /\ IF success
               THEN /\ Cache(scope.at, new)
                    /\ scope' = ScopeAfterDeleting(scope)
                    /\ \E v \in DeletedItem(scope, Console, Server', ou_links') : Show(v)
               ELSE UNCHANGED <<ou_links, uiVars>>
  BY DEF RemoveLink
<1> DEFINE new == Removing(str, scope.gpo)
<1>3. str \in GplinkString
  BY <1>1, ReadsOK, TypedConsole DEF ContentInv
<1>4. new \in GplinkString
  BY <1>1, <1>3, EditedStrings
<1>5. /\ Replace(scope.at, new, success)
      /\ Cache(scope.at, new) \/ UNCHANGED ou_links
      /\ \/ UNCHANGED <<links, results>>
         \/ \E v \in DeletedItem(scope, Console, Server', ou_links') : Show(v)
  BY <1>2 DEF uiVars
<1> HIDE DEF new
<1>6. gplink' \in [OUs -> GplinkString]
  BY <1>1, <1>4, <1>5, ReplaceOK DEF ContentInv
<1>7. CacheOK(ou_links')
  BY <1>1, <1>4, <1>5, CacheKept DEF ContentInv
<1>8. \A v \in DeletedItem(scope, Console, Server', ou_links') : TablesOK(v)
  BY <1>1, <1>6, <1>7, DeletingTyped
<1>9. LinksOK(links') /\ ResultsOK(results')
  BY <1>5, <1>8 DEF Show, TablesOK, ContentInv, Typed
<1>10. UNCHANGED <<gpos, events>>
  BY DEF RemoveLink, updateVars
<1> QED
  BY <1>6, <1>7, <1>9, <1>10, TypedKept DEF ContentInv

\* gpo_delete() takes the policy out of attributes, and the console forgets it.
LEMMA DeleteTyped ==
    ASSUME ContentInv, NEW g \in GPOs, NEW b, DeletedOnServer(g), DeletePolicyItems(g, b),
           scope.type \in {"Policy", "PolicyOU", "AllPoliciesFolder"}
    PROVE  Typed'
<1>1. gplink' \in [OUs -> GplinkString] /\ gpos' \subseteq gpos
  <2>1. \A ou \in OUs : Removing(gplink[ou], g) \in GplinkString
    BY EditedStrings DEF ContentInv, Typed
  <2>2. \E S : gplink' = [ou \in OUs |-> IF ou \in S THEN Removing(gplink[ou], g)
                                         ELSE gplink[ou]]
    BY DEF DeletedOnServer
  <2>3. gpos' \subseteq gpos
    BY DEF DeletedOnServer
  <2> QED
    BY <2>1, <2>2, <2>3 DEF ContentInv, Typed
<1>2. UNCHANGED <<ou_links, events>>
  BY DEF DeletePolicyItems, updateVars
<1>3. scope.at \in Parents
  BY CurrentItems, ItemShapes DEF ContentInv, CurrentInv, InTree, Parents
<1>4. LinksOK(links') /\ ResultsOK(results')
  <2>1. CASE g \in gpos'
    <3>1. /\ links' = links
          /\ results' \in ResultsUpdates(results, g, ou_links) \/ results' = results
      BY <2>1 DEF DeletePolicyItems
    <3> QED
      BY <3>1, ResultsUpdatesOK DEF ContentInv, Typed
  <2>2. CASE g \notin gpos'
    <3>1. PICK v \in DeletedItem(PolicyItem(scope.at, g), Console, Server', ou_links) :
            Show([v EXCEPT !.tree = DeleteItemsOf(v.tree, g)])
      BY <2>2 DEF DeletePolicyItems
    <3>2. TablesOK(v)
      BY <1>1, <1>3, <3>1, DeletingTyped DEF ContentInv, Typed
    <3> QED
      BY <3>1, <3>2 DEF Show, TablesOK, IsView, View
  <2> QED
    BY <2>1, <2>2
<1> QED
  BY <1>1, <1>2, <1>4, TypedKept DEF ContentInv, Typed

LEMMA ChangeOptionTyped ==
    ASSUME ContentInv, NEW o \in Options, NEW checked \in BOOLEAN, ChangeOption(o, checked)
    PROVE  Typed'
<1> DEFINE new == Setting(ou_links[scope.at], scope.gpo, o, checked)
<1>1. /\ scope.at \in OUs /\ scope.gpo \in GPOs /\ o \in GplinkOption
      /\ UNCHANGED <<gpos, links, events>>
  BY CurrentItems, PolicyLinksAssumption DEF ContentInv, ChangeOption, updateVars
<1>2. new \in GplinkString
  BY <1>1, EditedStrings DEF ContentInv, Typed, CacheOK
<1>3. PICK success : /\ Replace(scope.at, new, success)
                     /\ Cache(scope.at, new) \/ UNCHANGED ou_links
                     /\ \/ results' \in ResultsUpdates(results, scope.gpo, ou_links')
                        \/ UNCHANGED results
  BY DEF ChangeOption
<1> HIDE DEF new
<1>4. gplink' \in [OUs -> GplinkString] /\ CacheOK(ou_links')
  BY <1>1, <1>2, <1>3, ReplaceOK, CacheKept DEF ContentInv
<1>5. ResultsOK(results')
  BY <1>1, <1>3, <1>4, ResultsUpdatesOK DEF ContentInv, Typed
<1> QED
  BY <1>1, <1>4, <1>5, TypedKept DEF ContentInv, Typed

\* A check box changes an option of a row and of the attribute.
LEMMA LinksToggleTyped ==
    ASSUME ContentInv, NEW g \in GPOs, NEW o \in Options, LinksToggle(g, o)
    PROVE  Typed'
<1> DEFINE checked == o \notin links.rows[g]
           new == Setting(links.gplink, g, o, checked)
           row == IF checked THEN links.rows[g] \cup {o} ELSE links.rows[g] \ {o}
           rows == [links.rows EXCEPT ![g] = row]
<1>1. /\ o \in GplinkOption /\ g \in DOMAIN links.rows /\ scope.at \in OUs
      /\ LinksOK(links) /\ checked \in BOOLEAN
      /\ UNCHANGED <<gpos, results, events>>
  BY CurrentItems, PolicyLinksAssumption
  DEF ContentInv, Typed, LinksToggle, LinksShown, updateVars
<1>2. new \in GplinkString /\ Named(new) = Named(links.gplink)
  <2> HIDE DEF checked
  <2> QED
    BY <1>1, EditedStrings DEF LinksOK
<1>3. PICK success : /\ Replace(links.ou, new, success)
                     /\ \/ links' = [links EXCEPT !.rows = rows, !.gplink = new]
                        \/ links' = [links EXCEPT !.rows = rows]
                     /\ Cache(scope.at, new) \/ UNCHANGED ou_links
  BY DEF LinksToggle
<1>4. /\ rows = [h \in DOMAIN rows |-> rows[h]] /\ DOMAIN rows = DOMAIN links.rows
      /\ \A h \in DOMAIN rows : rows[h] \subseteq GplinkOption
  <2>1. row \subseteq GplinkOption
    BY <1>1 DEF LinksOK
  <2> HIDE DEF row
  <2> QED
    BY <1>1, <2>1 DEF LinksOK
<1> HIDE DEF new, rows
<1>5. gplink' \in [OUs -> GplinkString] /\ CacheOK(ou_links')
  BY <1>1, <1>2, <1>3, ReplaceOK, CacheKept DEF ContentInv, LinksOK
<1>6. LinksOK(links')
  <2>1. CASE links' = [links EXCEPT !.rows = rows, !.gplink = new]
    BY <1>1, <1>2, <1>4, <2>1 DEF LinksOK, LinksRecord
  <2>2. CASE links' = [links EXCEPT !.rows = rows]
    BY <1>1, <1>4, <2>2 DEF LinksOK, LinksRecord
  <2> QED
    BY <1>3, <2>1, <2>2
<1> QED
  BY <1>1, <1>5, <1>6, TypedKept DEF ContentInv, Typed

LEMMA ModifyGplinkTyped ==
    ASSUME ContentInv, scope.type = "PolicyOU", NEW new \in GplinkString, ModifyGplink(new),
           UNCHANGED <<gpos, results, events>>
    PROVE  Typed'
<1>1. scope.at \in OUs /\ LinksOK(links)
  BY CurrentItems DEF ContentInv, Typed
<1>2. \/ UNCHANGED <<gplink, links, ou_links>>
      \/ /\ \E success : Replace(links.ou, new, success)
         /\ \E rows \in RowSets(new, Server) :
                links' = [links EXCEPT !.gplink = new, !.rows = rows]
         /\ Cache(scope.at, new)
  BY DEF ModifyGplink
<1>3. gplink' \in [OUs -> GplinkString] /\ CacheOK(ou_links')
  BY <1>1, <1>2, ReplaceOK, CacheKept DEF ContentInv, LinksOK, Typed
<1>4. ASSUME NEW rows \in RowSets(new, Server),
             links' = [links EXCEPT !.gplink = new, !.rows = rows]
      PROVE  LinksOK(links')
  BY <1>1, <1>4, RowSetsOK, ZenonT(30) DEF LinksOK, LinksRecord
<1>5. LinksOK(links')
  BY <1>1, <1>2, <1>4
<1> QED
  BY <1>3, <1>5, TypedKept DEF ContentInv, Typed

\* Removing, moving and dragging rows of the links table.
LEMMA LinksTableTyped ==
    ASSUME ContentInv, NEW g \in GPOs, NEW h \in GPOs, NEW to \in Nat,
           LinksRemove(g, h) \/ LinksMove(g) \/ LinksReorder(g, h, to)
    PROVE  Typed'
<1> DEFINE str == links.gplink
<1>1. /\ scope.type = "PolicyOU" /\ UNCHANGED <<gpos, results, events>>
      /\ str \in GplinkString /\ scope.at \in OUs /\ LinksOK(links)
  BY CurrentItems
  DEF ContentInv, Typed, LinksOK, LinksRemove, LinksMove, LinksReorder, LinksShown, updateVars
<1>2. /\ Removing(Removing(str, g), h) \in GplinkString
      /\ MovingUp(str, g) \in GplinkString /\ MovingDown(str, g) \in GplinkString
  <2>1. Removing(str, g) \in GplinkString
    BY <1>1, EditedStrings
  <2> HIDE DEF str
  <2> QED
    BY <1>1, <2>1, EditedStrings
<1>3. CASE LinksRemove(g, h) \/ LinksMove(g)
  <2>1. \/ ModifyGplink(Removing(Removing(str, g), h))
        \/ ModifyGplink(MovingUp(str, g)) \/ ModifyGplink(MovingDown(str, g))
    BY <1>3 DEF LinksRemove, LinksMove
  <2> QED
    BY <1>1, <1>2, <2>1, ModifyGplinkTyped
<1>4. CASE LinksReorder(g, h, to)
  <2> DEFINE new == IF g = h THEN DraggingOne(str, g, to) ELSE DraggingTwo(str, g, h, to)
  <2>1. new \in GplinkString /\ Named(new) = Named(str)
    BY <1>1, DraggedStrings
  <2>2. PICK success : /\ Replace(links.ou, new, success)
                       /\ \/ links' = [links EXCEPT !.gplink = new] /\ Cache(scope.at, new)
                          \/ UNCHANGED <<links, ou_links>>
    BY <1>4 DEF LinksReorder
  <2> HIDE DEF new
  <2>3. gplink' \in [OUs -> GplinkString] /\ CacheOK(ou_links')
    BY <1>1, <2>1, <2>2, ReplaceOK, CacheKept DEF ContentInv, LinksOK
  <2>4. LinksOK(links')
    BY <1>1, <2>1, <2>2 DEF LinksOK, LinksRecord
  <2> QED
    BY <1>1, <2>3, <2>4, TypedKept DEF ContentInv, Typed
<1> QED
  BY <1>3, <1>4

LEMMA TellCacheOK ==
    ASSUME Typed, NEW ou \in OUs, NEW str \in GplinkString,
           TellCache(ou, str) \/ UNCHANGED ou_links
    PROVE  CacheOK(ou_links')
BY CacheKept DEF TellCache

\* A row of the results table keeps an attribute, whatever policy the table
\* thinks it is about.
LEMMA ResultsToggleTyped ==
    ASSUME ContentInv, NEW ou, NEW o \in Options, NEW checked \in BOOLEAN,
           ResultsToggle(ou, o, checked)
    PROVE  Typed'
<1> DEFINE str == results.rows[ou]
           new == Setting(str, results.gpo, o, checked)
<1>1. /\ ou \in OUs /\ ou \in DOMAIN results.rows /\ o \in GplinkOption
      /\ str \in GplinkString /\ ResultsOK(results)
      /\ UNCHANGED <<gpos, links, events>>
  BY PolicyLinksAssumption
  DEF ContentInv, Typed, ResultsOK, ResultsToggle, updateVars
<1>2. new \in GplinkString
  <2>1. CASE results.gpo \in GPOs
    BY <1>1, <2>1, EditedStrings
  <2>2. CASE results.gpo \notin GPOs
    <3>1. WellFormed(Parse(str)) /\ results.gpo \notin DOMAIN Parse(str).options
      BY <1>1, <2>2, LinkOfString, StringNames
    <3>2. new = to_string(Parse(str))
      BY <3>1 DEF Setting, set_option, contains
    <3> QED
      BY <3>1, <3>2, StringOfLink
  <2> QED
    BY <2>1, <2>2
<1>3. PICK success : /\ Replace(ou, new, success)
                     /\ \/ results' = [results EXCEPT !.rows[ou] = new] /\ TellCache(ou, new)
                        \/ UNCHANGED <<results, ou_links>>
  BY DEF ResultsToggle
<1> HIDE DEF new, str
<1>4. gplink' \in [OUs -> GplinkString] /\ CacheOK(ou_links')
  BY <1>1, <1>2, <1>3, ReplaceOK, TellCacheOK DEF ContentInv
<1>5. ResultsOK(results')
  BY <1>1, <1>2, <1>3 DEF ResultsOK
<1> QED
  BY <1>1, <1>4, <1>5, TypedKept DEF ContentInv, Typed

LEMMA ResultsDeleteTyped ==
    ASSUME ContentInv, NEW ou, ResultsDelete(ou)
    PROVE  Typed'
<1> DEFINE str == results.rows[ou]
           new == Removing(str, results.gpo)
           item == PolicyItem(ou, results.gpo)
<1>1. /\ ou \in OUs /\ ou \in Parents /\ ou \in DOMAIN results.rows
      /\ str \in GplinkString /\ UNCHANGED <<gpos, events>>
  BY DEF ContentInv, Typed, ResultsOK, ResultsDelete, updateVars, Parents
<1>2. new \in GplinkString
  <2>1. CASE results.gpo \in GPOs
    BY <1>1, <2>1, EditedStrings
  <2>2. CASE results.gpo \notin GPOs
    <3>1. WellFormed(Parse(str)) /\ results.gpo \notin DOMAIN Parse(str).options
      BY <1>1, <2>2, LinkOfString, StringNames
    <3>2. new = to_string(Parse(str))
      BY <3>1 DEF Removing, remove, contains
    <3> QED
      BY <3>1, <3>2, StringOfLink
  <2> QED
    BY <2>1, <2>2
<1>3. PICK success :
        /\ Replace(ou, new, success)
        /\ \/ /\ TellCache(ou, new)
              /\ \E v \in DeletedItem(item, Console, Server', ou_links') :
                    Show([v EXCEPT !.results.rows =
                        [r \in DOMAIN v.results.rows \ {ou} |-> v.results.rows[r]]])
           \/ UNCHANGED <<ou_links, uiVars>>
  BY DEF ResultsDelete
<1> HIDE DEF new, str
<1>4. gplink' \in [OUs -> GplinkString] /\ CacheOK(ou_links')
  BY <1>1, <1>2, <1>3, ReplaceOK, TellCacheOK DEF ContentInv
<1>5. \A v \in DeletedItem(item, Console, Server', ou_links') : TablesOK(v)
  BY <1>1, <1>4, DeletingTyped
<1> HIDE DEF item
<1>6. ASSUME NEW v, TablesOK(v),
             Show([v EXCEPT !.results.rows =
                        [r \in DOMAIN v.results.rows \ {ou} |-> v.results.rows[r]]])
      PROVE  LinksOK(links') /\ ResultsOK(results')
  <2> DEFINE rows == [r \in DOMAIN v.results.rows \ {ou} |-> v.results.rows[r]]
  <2>1. DOMAIN rows \subseteq OUs /\ \A r \in DOMAIN rows : rows[r] \in GplinkString
    BY <1>6 DEF TablesOK, ResultsOK
  <2>2. links' = v.links /\ results' = [v.results EXCEPT !.rows = rows]
    <3> HIDE DEF rows
    <3>1. v = [tree |-> v.tree, links |-> v.links, results |-> v.results]
      BY <1>6 DEF TablesOK, IsView, View
    <3>2. Show([v EXCEPT !.results.rows = rows])
      BY <1>6 DEF rows
    <3> QED
      BY <3>1, <3>2 DEF Show
  <2> HIDE DEF rows
  <2> QED
    BY <1>6, <2>1, <2>2 DEF TablesOK, ResultsOK
<1>7. LinksOK(links') /\ ResultsOK(results')
  BY <1>3, <1>5, <1>6 DEF uiVars, ContentInv, Typed
<1> QED
  BY <1>1, <1>4, <1>7, TypedKept DEF ContentInv

\* The pages of the cache's search hold attributes, and so does the cache.
LEMMA SearchTyped ==
    ASSUME ContentInv, Manager!SearchRuns
    PROVE  SignalsOK'
<1>1. Manager!Search!Run
  BY DEF Manager!SearchRuns
<1>2. SignalsOK
  BY DEF ContentInv, Typed
<1>3. ASSUME NEW e \in Manager!Search!Events, events' = Append(events, e)
      PROVE  SignalsOK'
  BY <1>2, <1>3 DEF SignalsOK
<1>4. CASE Manager!Search!Connect \/ Manager!Search!CheckPage
  BY <1>2, <1>4 DEF Manager!Search!Connect, Manager!Search!CheckPage, SignalsOK
<1>5. CASE Manager!Search!Finish
  <2>1. Manager!Search!Finished \in Manager!Search!Events
    BY DEF Manager!Search!Events
  <2> QED
    BY <1>3, <1>5, <2>1 DEF Manager!Search!Finish
<1>6. CASE Manager!Search!SearchPage
  <2>1. ASSUME NEW page \in Manager!Search!Pages, NEW success, NEW more,
               Manager!Search!PageRead(page, success, more)
        PROVE  SignalsOK'
    <3>1. Manager!Search!ResultsReady(page) \in Manager!Search!Events
      BY DEF Manager!Search!Events
    <3>2. events' = events \/ events' = Append(events, Manager!Search!ResultsReady(page))
      BY <2>1 DEF Manager!Search!PageRead
    <3> QED
      BY <1>2, <1>3, <3>1, <3>2 DEF SignalsOK
  <2>2. Manager!Search!EmptyPage \in Manager!Search!Pages
    BY DEF Manager!Search!EmptyPage, Manager!Search!Pages
  <2>3. ASSUME NEW S \in SUBSET Manager!Search!Remaining
        PROVE  [o \in S |-> gplink[o]] \in Manager!Search!Pages
    BY DEF Manager!Search!Remaining, Manager!Search!Pages, ContentInv, Typed
  <2>4. \/ \E S \in SUBSET Manager!Search!Remaining :
             Manager!Search!PageRead([o \in S |-> gplink[o]], TRUE,
                                     S # Manager!Search!Remaining)
        \/ \E more : Manager!Search!PageRead(Manager!Search!EmptyPage, FALSE, more)
    BY <1>6 DEF Manager!Search!SearchPage
  <2> QED
    BY <2>1, <2>2, <2>3, <2>4
<1> QED
  BY <1>1, <1>4, <1>5, <1>6 DEF Manager!Search!Run

LEMMA CacheUpdatesTyped ==
    ASSUME ContentInv, CacheUpdates
    PROVE  Typed'
<1>1. UNCHANGED <<gpos, links, results>>
  BY DEF CacheUpdates, uiVars
<1>2. CASE Manager!SearchRuns
  BY <1>1, <1>2, SearchTyped DEF Manager!SearchRuns, ContentInv, Typed
<1>3. CASE Manager!ResultsSlot
  <2>1. /\ events # << >> /\ Head(events).signal = "results_ready"
        /\ Manager!CachePage(Head(events).page) /\ events' = Tail(events)
        /\ UNCHANGED gplink
    BY <1>3 DEF Manager!ResultsSlot
  <2>2. SignalsOK' /\ Head(events) \in Manager!Search!Events
    BY <2>1 DEF ContentInv, Typed, SignalsOK
  <2> DEFINE page == Head(events).page
  <2>3. page \in Manager!Search!Pages
    BY <2>1, <2>2 DEF Manager!Search!Events, Manager!Search!Finished,
                      Manager!Search!ResultsReady
  <2>4. \A ou \in DOMAIN page : page[ou] \in GplinkString
    BY <2>3 DEF Manager!Search!Pages
  <2>5. Manager!CachePage(page)
    BY <2>1
  <2> HIDE DEF page
  <2>6. CacheOK(ou_links')
    BY <2>4, <2>5 DEF Manager!CachePage, ContentInv, Typed, CacheOK
  <2> QED
    BY <1>1, <2>1, <2>2, <2>6 DEF ContentInv, Typed
<1>4. CASE Manager!FinishedSlot
  <2>1. /\ events # << >> /\ events' = Tail(events) /\ UNCHANGED <<gplink, ou_links>>
    BY <1>4 DEF Manager!FinishedSlot
  <2>2. SignalsOK'
    BY <2>1 DEF ContentInv, Typed, SignalsOK
  <2> QED
    BY <1>1, <2>1, <2>2 DEF ContentInv, Typed
<1> QED
  BY <1>2, <1>3, <1>4 DEF CacheUpdates, Manager!Slots

LEMMA OtherAdminTyped ==
    ASSUME ContentInv, OtherAdmin
    PROVE  Typed'
<1>1. UNCHANGED <<links, results, ou_links, events>>
  BY DEF OtherAdmin, uiVars, updateVars
<1>2. CASE \E g \in gpos : gpos' = gpos \ {g} /\ UNCHANGED gplink
  BY <1>1, <1>2, TypedKept DEF ContentInv, Typed
<1>3. ASSUME NEW ou \in OUs, NEW g \in gpos, UNCHANGED gpos,
             \/ gplink' = [gplink EXCEPT ![ou] = Adding(gplink[ou], g)]
             \/ gplink' = [gplink EXCEPT ![ou] = Removing(gplink[ou], g)]
             \/ \E o \in Options : gplink' = [gplink EXCEPT ![ou] = Setting(gplink[ou], g, o, TRUE)]
      PROVE  Typed'
  <2>1. /\ Adding(gplink[ou], g) \in GplinkString /\ Removing(gplink[ou], g) \in GplinkString
        /\ \A o \in Options : Setting(gplink[ou], g, o, TRUE) \in GplinkString
    BY EditedStrings, PolicyLinksAssumption DEF ContentInv, Typed
  <2>2. gplink' \in [OUs -> GplinkString]
    BY <1>3, <2>1 DEF ContentInv, Typed
  <2> QED
    BY <1>1, <1>3, <2>2, TypedKept DEF ContentInv, Typed
<1> QED
  BY <1>2, <1>3 DEF OtherAdmin

LEMMA LooksTyped ==
    ASSUME ContentInv, Looks
    PROVE  Typed'
<1>1. CacheOK(Server.gplink) /\ CacheOK(ou_links) /\ TablesOK(Console)
  BY TypedConsole DEF ContentInv, Typed
<1>2. ASSUME NEW v, TablesOK(v), Show(v), Looking
      PROVE  Typed'
  BY <1>2, TypedKept DEF Show, TablesOK, Looking, serverVars, updateVars, ContentInv, Typed
<1>3. ASSUME NEW item \in Items, Select(item)
      PROVE  Typed'
  <2>1. ItemOK(item)
    BY CurrentItems, ItemShapes DEF ContentInv, InTree, ItemOK
  <2>2. PICK v \in Selecteds(item, Console, Server, ou_links) : Show(v)
    BY <1>3 DEF Select
  <2>3. TablesOK(v)
    BY <1>1, <2>1, <2>2, SelectedsOK
  <2> QED
    BY <1>2, <1>3, <2>2, <2>3 DEF Select
<1>4. CASE RefreshOU
  <2> DEFINE start == [view |-> Console, scope |-> scope]
  <2>1. PICK c \in Refreshes(start, scope.at, Server, ou_links) : Show(c.view)
    BY <1>4 DEF RefreshOU
  <2>2. scope.at \in OUs /\ start.view = Console
    BY <1>4, CurrentItems DEF RefreshOU, ContentInv
  <2> HIDE DEF start
  <2>3. TablesOK(c.view)
    BY <1>1, <2>1, <2>2, RefreshesTables
  <2> QED
    BY <1>2, <1>4, <2>1, <2>3 DEF RefreshOU
<1>5. CASE RefreshAllPolicies
  BY <1>5, TypedKept DEF RefreshAllPolicies, Looking, serverVars, updateVars, ContentInv, Typed
<1>6. CASE RefreshPolicy
  <2>1. scope.gpo \in GPOs /\ results' \in ResultsUpdates(results, scope.gpo, ou_links)
        /\ UNCHANGED links /\ Looking
    BY <1>6, CurrentItems DEF RefreshPolicy, ContentInv
  <2>2. ResultsOK(results')
    BY <1>1, <2>1, ResultsUpdatesOK DEF ContentInv, Typed
  <2> QED
    BY <2>1, <2>2, TypedKept DEF Looking, serverVars, updateVars, ContentInv, Typed
<1> QED
  BY <1>3, <1>4, <1>5, <1>6 DEF Looks

LEMMA RefreshDomainTyped ==
    ASSUME ContentInv, RefreshDomain
    PROVE  Typed'
<1>1. UNCHANGED <<gpos, links, results, gplink, ou_links, events>>
  BY DEF RefreshDomain, Manager!Update, updateVars
<1> QED
  BY <1>1, TypedKept DEF ContentInv, Typed

LEMMA ContentStep ==
    ASSUME ContentInv, [Next]_vars
    PROVE  ContentInv'
<1> SUFFICES Typed'
  BY CurrentStep DEF ContentInv
<1>1. CASE Looks
  BY <1>1, LooksTyped
<1>2. CASE \E g, h \in GPOs : LinkGpo(g, h)
  <2>1. PICK g \in GPOs, h \in GPOs : LinkGpo(g, h)
    BY <1>2
  <2>2. scope.at \in OUs /\ LinkTo(scope.at, g, h) /\ UNCHANGED <<gpos, results, events>>
    BY <2>1, CurrentItems DEF LinkGpo, ContentInv, updateVars
  <2> QED
    BY <2>2, LinkToTyped, TypedKept DEF ContentInv, Typed
<1>3. CASE \E g, h \in GPOs : \E ou \in OUs : DropPolicy(ou, g, h)
  <2>1. PICK g \in GPOs, h \in GPOs : \E o \in OUs : DropPolicy(o, g, h)
    BY <1>3
  <2> PICK ou \in OUs : DropPolicy(ou, g, h)
    BY <2>1
  <2>2. /\ LinkTo(ou, g, h) /\ UNCHANGED <<gpos, events>>
        /\ \/ results' = results
           \/ scope.gpo \in GPOs /\ results' \in ResultsUpdates(results, scope.gpo, ou_links')
    BY CurrentItems DEF DropPolicy, ContentInv, updateVars
  <2>3. /\ gplink' \in [OUs -> GplinkString] /\ CacheOK(ou_links') /\ LinksOK(links')
    BY <2>2, LinkToTyped
  <2>4. ResultsOK(results')
    BY <2>2, <2>3, ResultsUpdatesOK DEF ContentInv, Typed
  <2> QED
    BY <2>2, <2>3, <2>4, TypedKept DEF ContentInv
<1>4. CASE \/ \E g \in GPOs, ou1, ou2 \in OUs : AddLink(g, ou1, ou2) \/ FindAddLink(g, ou1, ou2)
           \/ \E g \in GPOs : DropOU(g)
  <2>1. \E g \in GPOs, ou1, ou2 \in OUs :
            (\E b : AddLinks(g, ou1, ou2, b)) /\ UNCHANGED <<gpos, events>>
    BY <1>4, CurrentItems DEF AddLink, FindAddLink, DropOU, updateVars, ContentInv
  <2> QED
    BY <2>1, AddLinksTyped
<1>5. CASE RemoveLink
  BY <1>5, RemoveLinkTyped
<1>6. CASE \E g \in GPOs : DeletePolicy(g)
  <2>1. PICK g \in GPOs : DeletePolicy(g)
    BY <1>6
  <2>2. g \in ChosenPolicies /\ DeletedOnServer(g) /\ DeletePolicyItems(g, TRUE)
    BY <2>1 DEF DeletePolicy
  <2>3. scope.type \in {"Policy", "AllPoliciesFolder"}
    BY <2>2, CurrentScope, Chosen, ItemShapes DEF ContentInv
  <2> QED
    BY <2>2, <2>3, DeleteTyped
<1>7. CASE \E g \in GPOs : FindDeletePolicy(g)
  BY <1>7, ItemShapes, DeleteTyped DEF FindDeletePolicy
<1>8. CASE \E o \in Options, checked \in BOOLEAN : ChangeOption(o, checked)
  BY <1>8, ChangeOptionTyped
<1>9. CASE \/ \E g, h \in GPOs :
                LinksRemove(g, h) \/ \E to \in 1..Cardinality(GPOs) : LinksReorder(g, h, to)
           \/ \E g \in GPOs : LinksMove(g)
  <2>1. PICK g \in GPOs, h \in GPOs :
            \/ LinksRemove(g, h) \/ LinksMove(g)
            \/ \E to \in 1..Cardinality(GPOs) : LinksReorder(g, h, to)
    BY <1>9
  <2>2. \A to \in 1..Cardinality(GPOs) : to \in Nat
    OBVIOUS
  <2>3. 0 \in Nat
    OBVIOUS
  <2> QED
    BY <2>1, <2>2, <2>3, LinksTableTyped
<1>10. CASE \E g \in GPOs, o \in Options : LinksToggle(g, o)
  BY <1>10, LinksToggleTyped
<1>11. CASE \E ou \in OUs : ResultsDelete(ou)
  BY <1>11, ResultsDeleteTyped
<1>12. CASE \E ou \in OUs, o \in Options, checked \in BOOLEAN : ResultsToggle(ou, o, checked)
  BY <1>12, ResultsToggleTyped
<1>13. CASE RefreshDomain
  BY <1>13, RefreshDomainTyped
<1>14. CASE CacheUpdates
  BY <1>14, CacheUpdatesTyped
<1>15. CASE OtherAdmin
  BY <1>15, OtherAdminTyped
<1>16. CASE UNCHANGED vars
  BY <1>16, TypedKept DEF vars, serverVars, uiVars, updateVars, ContentInv, Typed
<1> QED
  BY <1>1, <1>2, <1>3, <1>4, <1>5, <1>6, <1>7, <1>8, <1>9, <1>10, <1>11, <1>12, <1>13,
     <1>14, <1>15, <1>16
  DEF Next, TreeEdits, TableEdits

LEMMA ContentInit == Init => ContentInv
<1> SUFFICES ASSUME Init PROVE ContentInv
  OBVIOUS
<1>1. CurrentInv
  BY StartTree DEF Init, CurrentInv
<1>2. gplink \in [OUs -> GplinkString] /\ gpos \subseteq GPOs /\ Domain \in OUs
  BY PolicyLinksAssumption DEF Init
<1>3. CacheOK(ou_links)
  BY <1>2, NoString DEF Init, Loaded, CacheOK
<1>4. LinksOK(links)
  BY <1>2, NoString, RowsOK DEF Init, LinksOK, LinksRecord
<1>5. ResultsOK(results) /\ SignalsOK
  BY DEF Init, ResultsOK, SignalsOK
<1> QED
  BY <1>1, <1>2, <1>3, <1>4, <1>5 DEF ContentInv, Typed

\* No sequence of edits, by whomever and whatever fails, writes, caches or
\* holds in a table an attribute that links a policy twice.
THEOREM PolicyLinksTypeOK == Spec => []TypeOK
<1>1. ContentInv => TypeOK
  <2> SUFFICES ASSUME ContentInv PROVE TypeOK
    OBVIOUS
  <2>1. scope \in {OtherItem, AllPoliciesItem} \cup {OUItem(ou) : ou \in OUs}
                  \cup {PolicyItem(p, g) : p \in Parents, g \in GPOs}
    BY DEF ContentInv, CurrentInv, InTree
  <2>2. tree.shown \subseteq Parents /\ tree.fetched \subseteq Parents
        /\ tree.items \in [Parents -> [GPOs -> Nat]]
    BY DEF ContentInv, CurrentInv, TreeOK
  <2>3. links.rows \in UNION {[S -> SUBSET GplinkOption] : S \in SUBSET GPOs}
    <3>1. DOMAIN links.rows \subseteq GPOs
      BY StringNames DEF ContentInv, Typed, LinksOK
    <3>2. links.rows \in [DOMAIN links.rows -> SUBSET GplinkOption]
      BY DEF ContentInv, Typed, LinksOK
    <3> QED
      BY <3>1, <3>2
  <2> QED
    BY <2>1, <2>2, <2>3 DEF TypeOK, ContentInv, Typed, LinksOK, ResultsOK, CacheOK
<1> QED
  BY <1>1, ContentInit, ContentStep, PTL DEF Spec

\* A row of the links table is a link of the object its edits start from.
THEOREM RowsAreTheLinks == Spec => []RowsAreLinks
<1>1. ContentInv => RowsAreLinks
  BY DEF ContentInv, Typed, LinksOK, RowsAreLinks
<1> QED
  BY <1>1, ContentInit, ContentStep, PTL DEF Spec
-----------------------------------------------------------------------------
(* With one administrator, a directory that does not fail and operations   *)
(* that tell the cache: the results table and the tree are fresh, too, and *)
(* a change of an option adds and takes away no link.                      *)

\* The invariants proved so far, which hold before and after each step.
Sound == LinksInv /\ ContentInv

LEMMA SoundStep ==
    ASSUME OneAdmin, Sound, [Next]_vars
    PROVE  Sound'
BY LinksStep, ContentStep DEF Sound

LEMMA SoundInit ==
    ASSUME OneAdmin, Init
    PROVE  Sound
BY LinksInit, ContentInit DEF Sound

\* The attribute of one OU is written.
Writes(ou, new) == gplink' = [gplink EXCEPT ![ou] = new]

LEMMA WritesOne ==
    ASSUME ContentInv, NEW ou \in OUs, NEW new, Writes(ou, new)
    PROVE  gplink'[ou] = new /\ \A o \in OUs \ {ou} : gplink'[o] = gplink[o]
BY DEF ContentInv, Typed, Writes

LEMMA Written ==
    ASSUME OneAdmin, NEW ou, NEW new, NEW success \in EditOutcomes, Replace(ou, new, success)
    PROVE  Writes(ou, new) /\ success = TRUE
<1>1. success = TRUE
  BY NoFaults
<1> QED
  BY <1>1 DEF OneAdmin, Replace, Writes

\* What each edit of one attribute does to it.
LEMMA ChangeOptionWrites ==
    ASSUME OneAdmin, Sound, NEW o \in Options, NEW checked \in BOOLEAN, ChangeOption(o, checked)
    PROVE  /\ Writes(scope.at, Setting(gplink[scope.at], scope.gpo, o, checked))
           /\ Named(gplink'[scope.at]) = Named(gplink[scope.at])
<1> DEFINE new == Setting(gplink[scope.at], scope.gpo, o, checked)
<1>1. scope.type = "Policy" /\ scope.at \in OUs /\ ou_links = gplink
  BY DEF ChangeOption, Sound, LinksInv
<1>2. \E success \in EditOutcomes : Replace(scope.at, new, success)
  BY <1>1 DEF ChangeOption
<1>3. Writes(scope.at, new)
  BY <1>2, Written
<1>4. scope.gpo \in GPOs /\ gplink[scope.at] \in GplinkString /\ o \in GplinkOption
  BY <1>1, CurrentItems, PolicyLinksAssumption DEF Sound, ContentInv, Typed
<1>5. Named(new) = Named(gplink[scope.at])
  BY <1>4, EditedStrings
<1> QED
  BY <1>1, <1>3, <1>5, WritesOne DEF Sound

LEMMA LinksToggleWrites ==
    ASSUME OneAdmin, Sound, NEW g \in GPOs, NEW o \in Options, LinksToggle(g, o)
    PROVE  /\ scope.at \in OUs
           /\ \E new : Writes(scope.at, new)
           /\ Named(gplink'[scope.at]) = Named(gplink[scope.at])
<1> DEFINE checked == o \notin links.rows[g]
           new == Setting(links.gplink, g, o, checked)
<1>1. scope.type = "PolicyOU" /\ scope.at \in OUs
  BY CurrentItems DEF LinksToggle, LinksShown, Sound, ContentInv
<1>2. links.ou = scope.at /\ links.gplink = gplink[scope.at]
  BY <1>1 DEF Sound, LinksInv, LinksTableFresh
<1>3. \E success \in EditOutcomes : Replace(links.ou, new, success)
  BY DEF LinksToggle
<1>4. Writes(scope.at, new)
  BY <1>2, <1>3, Written
<1>5. gplink[scope.at] \in GplinkString /\ o \in GplinkOption /\ checked \in BOOLEAN
  BY <1>1, PolicyLinksAssumption DEF Sound, ContentInv, Typed
<1> HIDE DEF checked
<1>6. Named(new) = Named(gplink[scope.at])
  BY <1>2, <1>5, EditedStrings
<1> QED
  BY <1>1, <1>4, <1>6, WritesOne DEF Sound

LEMMA OptionStep ==
    ASSUME OneAdmin, Sound,
           NEW g \in GPOs, NEW o \in Options, NEW checked \in BOOLEAN, NEW ou \in OUs,
           ChangeOption(o, checked) \/ LinksToggle(g, o) \/ ResultsToggle(ou, o, checked)
    PROVE  \A q \in OUs : Named(gplink'[q]) = Named(gplink[q])
<1>1. ~ ResultsToggle(ou, o, checked)
  BY DEF OneAdmin, ResultsToggle, ResultsShown, Edit, CachingOps
<1>2. \E at \in OUs : \E new : Writes(at, new) /\ Named(gplink'[at]) = Named(gplink[at])
  <2>1. CASE ChangeOption(o, checked)
    BY <2>1, ChangeOptionWrites DEF ChangeOption
  <2>2. CASE LinksToggle(g, o)
    BY <2>2, LinksToggleWrites
  <2> QED
    BY <1>1, <2>1, <2>2
<1> QED
  BY <1>2, WritesOne DEF Sound

\* While one administrator works alone and the directory does not fail, a
\* check box or check mark changes the option of a link and no link: the copy
\* of the attribute the handler writes back is never an old one.
THEOREM OneAdminOptionsKeepLinks ==
    ASSUME OneAdmin
    PROVE  Spec => OptionsKeepLinks
<1> DEFINE Toggled ==
        (\E g \in GPOs, o \in Options, checked \in BOOLEAN, ou \in OUs :
            ChangeOption(o, checked) \/ LinksToggle(g, o) \/ ResultsToggle(ou, o, checked))
        => \A ou \in OUs : Named(gplink'[ou]) = Named(gplink[ou])
<1>1. Init => Sound
  BY SoundInit
<1>2. Sound /\ [Next]_vars => Sound'
  BY SoundStep
<1>3. Sound /\ [Next]_vars => [Toggled]_vars
  BY OptionStep
<1>4. Spec => [][Toggled]_vars
  BY <1>1, <1>2, <1>3, PTL DEF Spec
<1> QED
  BY <1>4 DEF OptionsKeepLinks
-----------------------------------------------------------------------------
(* The results table under the same assumptions.                           *)

\* The results table is about g, as the server has it.
ShowsPolicy(r, g, links_of) ==
    /\ r.gpo = g
    /\ r.rows = [ou \in linked_ou_list(links_of, g) |-> links_of[ou]]

FreshResults(r, item, links_of) ==
    item.type = "Policy" => ShowsPolicy(r, item.gpo, links_of)

LEMMA ResultsUpdatesFresh ==
    ASSUME OneAdmin, NEW r, NEW g, NEW cache, NEW u \in ResultsUpdates(r, g, cache)
    PROVE  ShowsPolicy(u, g, cache)
BY NoFaults DEF ResultsUpdates, ShowsPolicy

\* Selecting an item that is not a policy leaves the results table alone.
LEMMA SelectedsResults ==
    ASSUME OneAdmin, NEW item, NEW v, IsView(v), NEW server, NEW cache,
           NEW u \in Selecteds(item, v, server, cache)
    PROVE  /\ item.type # "Policy" => u.results = v.results
           /\ FreshResults(u.results, item, cache)
<1>1. CASE item.type = "PolicyOU"
  BY <1>1 DEF Selecteds, View, FreshResults
<1>2. CASE item.type = "AllPoliciesFolder"
  BY <1>2 DEF Selecteds, View, FreshResults
<1>3. CASE item.type = "Policy"
  <2>1. PICK r \in ResultsUpdates(v.results, item.gpo, cache) : u = View(v.tree, v.links, r)
    BY <1>3, NoFaults DEF Selecteds
  <2> QED
    BY <1>3, <2>1, ResultsUpdatesFresh DEF View, FreshResults
<1>4. CASE item.type \notin {"PolicyOU", "AllPoliciesFolder", "Policy"}
  BY <1>4 DEF Selecteds, FreshResults
<1> QED
  BY <1>1, <1>2, <1>3, <1>4

\* Nor does refreshing an OU.
LEMMA RefreshesResults ==
    ASSUME OneAdmin, NEW c, IsView(c.view), NEW ou, NEW server, NEW cache,
           NEW d \in Refreshes(c, ou, server, cache)
    PROVE  /\ d.view.results = c.view.results
           /\ d.scope \in {OUItem(ou), OtherItem, c.scope}
<1> DEFINE view == [c.view EXCEPT !.tree = DeleteChildren(c.view.tree, ou)]
<1>1. PICK r \in WithoutChildren(c, ou, server, cache) :
        d \in {[view |-> View(t, w, r.view.results), scope |-> r.scope] :
                t \in Fetches(r.view.tree, ou, server),
                w \in LinksUpdates(r.view.links, ou, server)}
  BY DEF Refreshes
<1>2. d.view.results = r.view.results /\ d.scope = r.scope
  BY <1>1 DEF View
<1>3. IsView(view) /\ view.results = c.view.results
  BY DEF IsView, View
<1> HIDE DEF view
<1>4. r.view = view \/ r.view \in Selecteds(OUItem(ou), view, server, cache)
  BY <1>1 DEF WithoutChildren, view
<1>5. r.view.results = c.view.results
  BY <1>3, <1>4, ItemShapes, SelectedsResults
<1>6. r.scope \in {OUItem(ou), OtherItem, c.scope}
  BY <1>1 DEF WithoutChildren
<1> QED
  BY <1>2, <1>5, <1>6

LEMMA ResultsAreFresh ==
    ASSUME LinksInv
    PROVE  ResultsTableFresh <=> FreshResults(results, scope, ou_links)
BY DEF LinksInv, ResultsTableFresh, FreshResults, ShowsPolicy

LEMMA AddLinkResults ==
    ASSUME OneAdmin, Sound, FreshResults(results, scope, ou_links),
           NEW g, NEW ou \in OUs, AddLink(g, ou, ou)
    PROVE  FreshResults(results, scope, ou_links)'
<1> DEFINE start == [view |-> Console, scope |-> scope]
<1>1. g \in ChosenPolicies /\ AddLinks(g, ou, ou, TRUE)
  BY DEF AddLink
<1>2. PICK c \in AddedTo({start}, ou, Server', ou_links') :
        /\ scope' = c.scope
        /\ results' \in IF /\ g = c.view.results.gpo
                           /\ c.scope \in {AllPoliciesItem, PolicyItem(c.scope.at, g)}
                        THEN ResultsUpdates(c.view.results, g, ou_links')
                        ELSE {c.view.results}
  BY <1>1 DEF AddLinks
<1>3. c = start \/ c \in Refreshes(start, ou, Server', ou_links')
  BY <1>2 DEF AddedTo
<1>4. /\ start.view = Console /\ start.scope = scope /\ IsView(Console)
      /\ Console.results = results
  BY ConsoleIsView DEF Console, View
<1> HIDE DEF start
<1>5. c.view.results = results /\ c.scope \in {OUItem(ou), OtherItem, scope}
  BY <1>3, <1>4, RefreshesResults
<1>6. ASSUME scope'.type = "Policy"
      PROVE  ShowsPolicy(results', scope'.gpo, ou_links')
  <2>1. c.scope = scope /\ scope.type = "Policy"
    BY <1>2, <1>5, <1>6, ItemShapes
  <2>2. scope.gpo = g /\ scope = PolicyItem(scope.at, g)
    BY <1>1, <2>1, Chosen, CurrentScope, CurrentItems, ItemShapes DEF Sound, ContentInv
  <2>3. g = c.view.results.gpo
    BY <1>5, <2>1, <2>2 DEF FreshResults, ShowsPolicy
  <2>4. results' \in ResultsUpdates(c.view.results, g, ou_links')
    BY <1>2, <2>1, <2>2, <2>3
  <2> QED
    BY <1>2, <2>1, <2>2, <2>4, ResultsUpdatesFresh
<1> QED
  BY <1>6 DEF FreshResults

LEMMA ResultsStep ==
    ASSUME OneAdmin, Sound, FreshResults(results, scope, ou_links), [Next]_vars
    PROVE  FreshResults(results, scope, ou_links)'
<1>1. UserOps \subseteq CachingOps
  BY DEF OneAdmin
<1>2. CASE \E item \in Items : Select(item)
  <2>1. PICK item \in Items : Select(item)
    BY <1>2
  <2>2. PICK v \in Selecteds(item, Console, Server, ou_links) : results' = v.results
    BY <2>1 DEF Select, Show
  <2>3. scope' = item /\ ou_links' = ou_links
    BY <2>1 DEF Select, Looking
  <2> QED
    BY <2>2, <2>3, ConsoleIsView, SelectedsResults
<1>3. CASE RefreshOU
  <2> DEFINE start == [view |-> Console, scope |-> scope]
  <2>1. PICK c \in Refreshes(start, scope.at, Server, ou_links) : scope' = c.scope
    BY <1>3 DEF RefreshOU
  <2>2. c.scope \in {OUItem(scope.at), OtherItem, scope} /\ scope.type # "Policy"
    BY <1>3, <2>1, ConsoleIsView, RefreshesResults DEF RefreshOU
  <2> QED
    BY <2>1, <2>2, ItemShapes DEF FreshResults
<1>4. CASE RefreshAllPolicies
  BY <1>4, ItemShapes DEF RefreshAllPolicies, FreshResults
<1>5. CASE RefreshPolicy
  BY <1>5, ResultsUpdatesFresh DEF RefreshPolicy, Looking, FreshResults
<1>6. CASE \E g, h \in GPOs : LinkGpo(g, h)
  BY <1>6 DEF LinkGpo, FreshResults
<1>7. CASE \E g, h \in GPOs : \E ou \in OUs : DropPolicy(ou, g, h)
  BY <1>7, ResultsUpdatesFresh DEF DropPolicy, FreshResults
<1>8. CASE \E g \in GPOs, ou1, ou2 \in OUs : AddLink(g, ou1, ou2)
  <2>1. PICK g \in GPOs, ou1 \in OUs, ou2 \in OUs : AddLink(g, ou1, ou2)
    BY <1>8
  <2>2. ou1 = ou2
    BY <1>1, <2>1 DEF AddLink, Edit, CachingOps
  <2> QED
    BY <2>1, <2>2, AddLinkResults
<1>9. CASE RemoveLink
  <2>1. PICK str \in Reads(Server, scope.at), success \in EditOutcomes :
            LET new == Removing(str, scope.gpo)
            IN  /\ Replace(scope.at, new, success)
                /\ IF success
                   THEN /\ Cache(scope.at, new)
                        /\ scope' = ScopeAfterDeleting(scope)
                        /\ \E v \in DeletedItem(scope, Console, Server', ou_links') : Show(v)
                   ELSE UNCHANGED <<ou_links, uiVars>>
    BY <1>9 DEF RemoveLink
  <2>2. success = TRUE
    BY NoFaults
  <2>3. scope' = ScopeAfterDeleting(scope)
    BY <2>1, <2>2
  <2> QED
    BY <2>3, ItemShapes DEF ScopeAfterDeleting, ParentItem, FreshResults
<1>10. CASE \E o \in Options, checked \in BOOLEAN : ChangeOption(o, checked)
  <2>1. PICK o \in Options, checked \in BOOLEAN : ChangeOption(o, checked)
    BY <1>10
  <2>2. PICK success \in EditOutcomes :
            IF success THEN results' \in ResultsUpdates(results, scope.gpo, ou_links')
            ELSE results' = results
    BY <2>1 DEF ChangeOption
  <2>3. success = TRUE
    BY NoFaults
  <2>4. ShowsPolicy(results', scope.gpo, ou_links')
    BY <2>2, <2>3, ResultsUpdatesFresh
  <2> QED
    BY <2>1, <2>4 DEF ChangeOption, FreshResults
<1>11. CASE TableEdits
  <2>1. scope.type = "PolicyOU" /\ scope' = scope
    BY <1>1, <1>11 DEF TableEdits, LinksRemove, LinksReorder, LinksMove, LinksToggle, LinksShown,
       ResultsDelete, ResultsToggle, ResultsShown, Edit, CachingOps
  <2> QED
    BY <2>1 DEF FreshResults
<1>12. CASE UNCHANGED vars
  BY <1>12 DEF vars, uiVars, FreshResults, ShowsPolicy, linked_ou_list
<1>13. /\ \A g, ou1, ou2 : ~ FindAddLink(g, ou1, ou2)
       /\ \A g : ~ DropOU(g) /\ ~ DeletePolicy(g) /\ ~ FindDeletePolicy(g)
       /\ ~ OtherAdmin /\ ~ RefreshDomain
  BY <1>1 DEF FindAddLink, DropOU, FindDeletePolicy, DeletePolicy, OtherAdmin, RefreshDomain,
              Edit, CachingOps
<1>14. ~ CacheUpdates
  BY CacheRests DEF Sound
<1> QED
  BY <1>2, <1>3, <1>4, <1>5, <1>6, <1>7, <1>8, <1>9, <1>10, <1>11, <1>12, <1>13, <1>14
  DEF Next, Looks, TreeEdits

\* Then the table of a policy's OUs lists the OUs that link it, each with its
\* attribute as the server has it.
THEOREM OneAdminResultsTableFresh ==
    ASSUME OneAdmin
    PROVE  Spec => []ResultsTableFresh
<1> DEFINE IInv == Sound /\ FreshResults(results, scope, ou_links)
<1>1. Init => IInv
  <2>1. Init => FreshResults(results, scope, ou_links)
    BY ItemShapes DEF Init, FreshResults
  <2> QED
    BY <2>1, SoundInit
<1>2. IInv /\ [Next]_vars => IInv'
  BY SoundStep, ResultsStep
<1>3. IInv => ResultsTableFresh
  BY ResultsAreFresh DEF Sound
<1> QED
  BY <1>1, <1>2, <1>3, PTL DEF Spec
-----------------------------------------------------------------------------
(* The tree under the same assumptions, without remove_link() of the links *)
(* table, which deletes the first item of the policy that it finds and not *)
(* that of the OU.                                                         *)

Right(p, g, server) ==
    g \in server.gpos /\ (p # AllPolicies => g \in Named(server.gplink[p]))

RowFresh(t, p, server) ==
    \A g \in GPOs : t.items[p][g] = IF Right(p, g, server) THEN 1 ELSE 0

RowsFresh(t, server) == \A p \in t.fetched : RowFresh(t, p, server)

LEMMA AddItemsRows ==
    ASSUME NEW t, TreeOK(t), NEW p \in t.fetched, NEW S
    PROVE  LET u == AddItems(t, p, S)
           IN  /\ u.fetched = t.fetched /\ u.shown = t.shown
               /\ \A g \in GPOs :
                    u.items[p][g] = IF g \in S THEN t.items[p][g] + 1 ELSE t.items[p][g]
               /\ \A q \in Parents \ {p} : u.items[q] = t.items[q]
<1> DEFINE row == [g \in GPOs |-> IF g \in S THEN t.items[p][g] + 1 ELSE t.items[p][g]]
           rows == [t.items EXCEPT ![p] = row]
           u == [t EXCEPT !.items = rows]
<1>1. AddItems(t, p, S) = u
  BY DEF AddItems, TreeOK
<1>2. p \in Parents
  BY DEF TreeOK
<1>3. rows[p] = row /\ \A q \in Parents \ {p} : rows[q] = t.items[q]
  BY <1>2 DEF TreeOK
<1>4. \A g \in GPOs : row[g] = IF g \in S THEN t.items[p][g] + 1 ELSE t.items[p][g]
  OBVIOUS
<1> HIDE DEF row, rows
<1>5. u.shown = t.shown /\ u.fetched = t.fetched /\ u.items = rows
  BY DEF TreeOK
<1> HIDE DEF u
<1> QED
  BY <1>1, <1>3, <1>4, <1>5

LEMMA MarkedRows ==
    ASSUME NEW t, TreeOK(t), NEW p, NEW T
    PROVE  /\ Marked(t, p).items = t.items /\ Marked(t, p).fetched = t.fetched \cup {p}
           /\ Showing(t, T).items = t.items /\ Showing(t, T).fetched = t.fetched
BY DEF Marked, Showing, TreeOK

\* Fetching fills an empty row with the policies that belong there.
LEMMA FilledRows ==
    ASSUME NEW t, TreeOK(t), NEW p \in t.fetched, NEW S, NEW server,
           \A g \in GPOs : t.items[p][g] = 0,
           \A g \in GPOs : g \in S <=> Right(p, g, server),
           \A q \in t.fetched \ {p} : RowFresh(t, q, server)
    PROVE  RowsFresh(AddItems(t, p, S), server)
<1> DEFINE u == AddItems(t, p, S)
<1>1. /\ u.fetched = t.fetched
      /\ \A g \in GPOs :
            u.items[p][g] = IF g \in S THEN t.items[p][g] + 1 ELSE t.items[p][g]
      /\ \A q \in Parents \ {p} : u.items[q] = t.items[q]
  BY AddItemsRows
<1> HIDE DEF u
<1>2. RowFresh(u, p, server)
  BY <1>1 DEF RowFresh
<1>3. \A q \in t.fetched \ {p} : RowFresh(u, q, server)
  BY <1>1 DEF RowFresh, TreeOK
<1> QED
  BY <1>1, <1>2, <1>3 DEF RowsFresh, u

LEMMA FetchesRows ==
    ASSUME OneAdmin, NEW t, TreeOK(t), NEW ou \in t.shown, ou \in OUs, NEW server,
           \A g \in GPOs : t.items[ou][g] = 0,
           \A q \in t.fetched \ {ou} : RowFresh(t, q, server),
           NEW u \in Fetches(t, ou, server)
    PROVE  RowsFresh(u, server)
<1> DEFINE T == ChildOUs(ou) \cup Folder(ou)
           m == Marked(t, ou)
           s == Showing(m, T)
           S == Named(server.gplink[ou]) \cap server.gpos
<1>1. u = AddItems(s, ou, S)
  <2>1. \/ \E children \in {ChildOUs(ou)} \cup MayFail("read", {}),
              str \in Reads(server, ou), found \in Founds(server) :
              u = AddItems(Showing(Marked(t, ou), children \cup Folder(ou)), ou,
                           Named(str) \cap found)
        \/ u \in MayFail("connect", Marked(t, ou))
    BY FetchesAdds
  <2>2. /\ MayFail("read", {}) = {} /\ MayFail("connect", Marked(t, ou)) = {}
        /\ Reads(server, ou) = {server.gplink[ou]} /\ Founds(server) = {server.gpos}
    BY NoFaults
  <2> QED
    BY <2>1, <2>2
<1>2. T \subseteq Parents
  BY PolicyLinksAssumption DEF ChildOUs, Folder, Parents
<1>3. TreeOK(m) /\ m.items = t.items /\ m.fetched = t.fetched \cup {ou}
  BY MarkedTree, MarkedRows
<1>4. TreeOK(s) /\ s.items = t.items /\ s.fetched = t.fetched \cup {ou}
  <2> HIDE DEF m, T
  <2>1. TreeOK(s)
    BY <1>2, <1>3, ShowingTree
  <2> QED
    BY <1>3, <2>1, MarkedRows
<1> HIDE DEF T, m, s
<1>5. \A g \in GPOs : g \in S <=> Right(ou, g, server)
  BY PolicyLinksAssumption DEF Right
<1> HIDE DEF S
<1>6. \A q \in s.fetched \ {ou} : RowFresh(s, q, server)
  BY <1>4 DEF RowFresh
<1>7. ou \in s.fetched /\ \A g \in GPOs : s.items[ou][g] = 0
  BY <1>4
<1> QED
  BY <1>1, <1>4, <1>5, <1>6, <1>7, FilledRows

LEMMA FetchesAllRows ==
    ASSUME OneAdmin, NEW t, TreeOK(t), AllPolicies \in t.shown, NEW server,
           \A g \in GPOs : t.items[AllPolicies][g] = 0,
           \A q \in t.fetched \ {AllPolicies} : RowFresh(t, q, server),
           NEW u \in FetchesAllPolicies(t, server)
    PROVE  RowsFresh(u, server)
<1> DEFINE m == Marked(t, AllPolicies)
<1>1. u = AddItems(m, AllPolicies, server.gpos)
  BY NoFaults DEF FetchesAllPolicies
<1>2. TreeOK(m) /\ m.items = t.items /\ m.fetched = t.fetched \cup {AllPolicies}
  BY MarkedTree, MarkedRows
<1> HIDE DEF m
<1>3. \A g \in GPOs : g \in server.gpos <=> Right(AllPolicies, g, server)
  BY DEF Right
<1>4. \A q \in m.fetched \ {AllPolicies} : RowFresh(m, q, server)
  BY <1>2 DEF RowFresh
<1>5. AllPolicies \in m.fetched /\ \A g \in GPOs : m.items[AllPolicies][g] = 0
  BY <1>2
<1> QED
  BY <1>1, <1>2, <1>3, <1>4, <1>5, FilledRows

\* What was not fetched has no items.
LEMMA BareRow ==
    ASSUME NEW t, TreeOK(t), NEW p \in Parents \ t.fetched
    PROVE  \A g \in GPOs : t.items[p][g] = 0
BY DEF TreeOK

LEMMA SelectedsRows ==
    ASSUME OneAdmin, NEW item, NEW v, IsView(v), TreeOK(v.tree), InTree(v.tree, item),
           NEW server, RowsFresh(v.tree, server), NEW cache,
           NEW u \in Selecteds(item, v, server, cache)
    PROVE  RowsFresh(u.tree, server)
<1>1. CASE item.type = "PolicyOU"
  <2>1. PICK w \in LinksUpdates(v.links, item.at, server),
             t \in IF item.at \in v.tree.fetched THEN {v.tree}
                   ELSE Fetches(v.tree, item.at, server) : u = View(t, w, v.results)
    BY <1>1 DEF Selecteds
  <2>2. item.at \in OUs /\ item.at \in v.tree.shown /\ item.at \in Parents
    BY <1>1, ItemShapes DEF InTree, Parents
  <2>3. CASE item.at \in v.tree.fetched
    BY <2>1, <2>3 DEF View
  <2>4. CASE item.at \notin v.tree.fetched
    <3>1. \A g \in GPOs : v.tree.items[item.at][g] = 0
      BY <2>2, <2>4, BareRow
    <3>2. RowsFresh(t, server)
      BY <2>1, <2>2, <2>4, <3>1, FetchesRows DEF RowsFresh
    <3> QED
      BY <2>1, <3>2 DEF View
  <2> QED
    BY <2>3, <2>4
<1>2. CASE item.type = "AllPoliciesFolder"
  <2>1. PICK t \in IF AllPolicies \in v.tree.fetched THEN {v.tree}
                   ELSE FetchesAllPolicies(v.tree, server) : u = View(t, v.links, v.results)
    BY <1>2 DEF Selecteds
  <2>2. AllPolicies \in v.tree.shown /\ AllPolicies \in Parents
    BY <1>2, ItemShapes DEF InTree, Parents
  <2>3. CASE AllPolicies \in v.tree.fetched
    BY <2>1, <2>3 DEF View
  <2>4. CASE AllPolicies \notin v.tree.fetched
    <3>1. \A g \in GPOs : v.tree.items[AllPolicies][g] = 0
      BY <2>2, <2>4, BareRow
    <3>2. RowsFresh(t, server)
      BY <2>1, <2>2, <2>4, <3>1, FetchesAllRows DEF RowsFresh
    <3> QED
      BY <2>1, <3>2 DEF View
  <2> QED
    BY <2>3, <2>4
<1>3. CASE item.type = "Policy"
  <2>1. \E r : u = View(v.tree, v.links, r)
    BY <1>3, NoFaults DEF Selecteds
  <2> QED
    BY <2>1 DEF View
<1>4. CASE item.type \notin {"PolicyOU", "AllPoliciesFolder", "Policy"}
  BY <1>4 DEF Selecteds
<1> QED
  BY <1>1, <1>2, <1>3, <1>4

\* Refreshing an OU makes its own row good again and takes the rows below it.
LEMMA RefreshesRows ==
    ASSUME OneAdmin, NEW c, ConsoleOK(c), NEW ou \in OUs, ou \in c.view.tree.shown,
           ou \in c.view.tree.fetched, NEW server,
           \A q \in c.view.tree.fetched \ {ou} : RowFresh(c.view.tree, q, server),
           NEW cache, NEW d \in Refreshes(c, ou, server, cache)
    PROVE  RowsFresh(d.view.tree, server)
<1> DEFINE t == c.view.tree
           u == DeleteChildren(t, ou)
           view == [c.view EXCEPT !.tree = u]
<1>1. PICK r \in WithoutChildren(c, ou, server, cache) :
        d \in {[view |-> View(x, w, r.view.results), scope |-> r.scope] :
                x \in Fetches(r.view.tree, ou, server),
                w \in LinksUpdates(r.view.links, ou, server)}
  BY DEF Refreshes
<1>2. PICK x \in Fetches(r.view.tree, ou, server),
           w \in LinksUpdates(r.view.links, ou, server) :
        d = [view |-> View(x, w, r.view.results), scope |-> r.scope]
  BY <1>1
<1>3. d.view.tree = x
  <2>1. d.view = View(x, w, r.view.results)
    BY <1>2
  <2> QED
    BY <2>1 DEF View
<1>4. TreeOK(t) /\ TreeOK(u) /\ ou \in u.shown
  BY DeleteChildrenTree DEF ConsoleOK
<1>5. /\ u.fetched = t.fetched \ Subtree(ou)
      /\ \A q \in Parents : u.items[q] = IF q \in Subtree(ou) \cup {ou}
                                         THEN NoItems ELSE t.items[q]
  BY DEF DeleteChildren
<1>6. ou \notin Subtree(ou) /\ ou \in Parents
  BY PolicyLinksAssumption DEF Subtree, Folder, Parents
<1> HIDE DEF u
<1>7. ou \in u.fetched /\ \A g \in GPOs : u.items[ou][g] = 0
  BY <1>5, <1>6 DEF NoItems
<1>8. \A q \in u.fetched \ {ou} : RowFresh(u, q, server)
  BY <1>4, <1>5 DEF RowFresh, TreeOK
<1>9. view.tree = u /\ IsView(view)
  BY DEF ConsoleOK, IsView, View
<1>10. r.view = view \/ r.view \in Selecteds(OUItem(ou), view, server, cache)
  BY <1>1 DEF WithoutChildren, u
<1> HIDE DEF view
<1>11. r.view.tree = u
  <2>1. ASSUME r.view \in Selecteds(OUItem(ou), view, server, cache)
        PROVE  r.view.tree = u
    BY <1>7, <1>9, <2>1, ItemShapes DEF Selecteds, View
  <2> QED
    BY <1>9, <1>10, <2>1
<1>12. RowsFresh(x, server)
  BY <1>2, <1>4, <1>7, <1>8, <1>11, FetchesRows
<1> QED
  BY <1>3, <1>12
FreshTree == RowsFresh(tree, Server)

\* Writing other options or another order of the links of one OU.
LEMMA SameLinksRows ==
    ASSUME Sound, FreshTree, UNCHANGED <<tree, gpos>>, NEW ou \in OUs, NEW new,
           Writes(ou, new), Named(new) = Named(gplink[ou])
    PROVE  FreshTree'
<1>1. \A o \in OUs : Named(gplink'[o]) = Named(gplink[o])
  BY WritesOne DEF Sound
<1>2. /\ Server.gplink = gplink /\ Server'.gplink = gplink'
      /\ Server'.gpos = Server.gpos
  BY DEF Server
<1>3. \A p \in tree.fetched : p # AllPolicies => p \in OUs
  BY DEF Sound, ContentInv, CurrentInv, TreeOK, Parents
<1>4. \A p \in tree.fetched, g \in GPOs : Right(p, g, Server') <=> Right(p, g, Server)
  BY <1>1, <1>2, <1>3 DEF Right
<1> QED
  BY <1>4 DEF FreshTree, RowsFresh, RowFresh

LEMMA ServerReads ==
    ASSUME OneAdmin, NEW ou
    PROVE  /\ Reads(Server, ou) = {gplink[ou]}
           /\ Founds(Server) = {gpos}
           /\ EditOutcomes = {TRUE}
<1>1. Server.gplink = gplink /\ Server.gpos = gpos
  BY DEF Server
<1>2. Reads(Server, ou) = {Server.gplink[ou]}
  BY NoFaults
<1>3. Founds(Server) = {Server.gpos} /\ EditOutcomes = {TRUE}
  BY NoFaults
<1> QED
  BY <1>1, <1>2, <1>3

LEMMA ListedRows ==
    ASSUME OneAdmin, NEW t, TreeOK(t), InTree(t, scope), NEW server, server.gpos = gpos,
           RowsFresh(t, server), NEW u \in Listed(t)
    PROVE  RowsFresh(u, server)
<1>1. CASE scope = AllPoliciesItem
  <2> DEFINE w == [t EXCEPT !.items[AllPolicies] = NoItems]
  <2>1. u \in FetchesAllPolicies(w, Server)
    BY <1>1 DEF Listed
  <2>2. u \in FetchesAllPolicies(w, server)
    <3>1. Founds(Server) = Founds(server)
      BY DEF Founds, Server
    <3> QED
      BY <2>1, <3>1 DEF FetchesAllPolicies
  <2>3. AllPolicies \in t.shown
    BY <1>1, ItemShapes DEF InTree
  <2>4. /\ TreeOK(w) /\ w.shown = t.shown /\ w.fetched = t.fetched
        /\ \A g \in GPOs : w.items[AllPolicies][g] = 0
        /\ \A p \in Parents \ {AllPolicies} : w.items[p] = t.items[p]
    BY WithoutItems
  <2> HIDE DEF w
  <2>5. \A p \in w.fetched \ {AllPolicies} : RowFresh(w, p, server)
    BY <2>4 DEF RowsFresh, RowFresh, TreeOK
  <2> QED
    BY <2>2, <2>3, <2>4, <2>5, FetchesAllRows
<1>2. CASE scope # AllPoliciesItem
  BY <1>2 DEF Listed
<1> QED
  BY <1>1, <1>2

LEMMA LinkToRows ==
    ASSUME OneAdmin, Sound, FreshTree, UNCHANGED gpos,
           NEW ou \in OUs, NEW g \in GPOs, NEW h \in GPOs, LinkTo(ou, g, h)
    PROVE  FreshTree'
<1> DEFINE str == gplink[ou]
           new == Adding(Adding(str, g), h)
           S == (Named(new) \ Named(str)) \cap gpos
           added == AddItems(tree, ou, S)
<1>1. Writes(ou, new) /\ tree' \in Listed(added)
  <2>1. PICK read \in Reads(Server, ou), success \in EditOutcomes :
            LET made == Adding(Adding(read, g), h)
                names == Named(made) \ Named(read)
            IN  /\ Replace(ou, made, success)
                /\ IF success
                   THEN /\ Cache(ou, made)
                        /\ \E found \in Founds(Server) :
                                tree' \in Listed(AddItems(tree, ou, names \cap found))
                        /\ IF scope.type = "PolicyOU"
                           THEN links' \in LinksUpdates(links, scope.at, Server')
                           ELSE UNCHANGED links
                   ELSE tree' \in Listed(tree) /\ UNCHANGED <<ou_links, links>>
    BY DEF LinkTo
  <2>2. read = str /\ success = TRUE /\ Founds(Server) = {gpos}
    BY <2>1, ServerReads
  <2>3. Replace(ou, new, success)
    BY <2>1, <2>2
  <2>4. \E found \in Founds(Server) :
            tree' \in Listed(AddItems(tree, ou, (Named(new) \ Named(str)) \cap found))
    BY <2>1, <2>2
  <2> QED
    BY <2>2, <2>3, <2>4, Written
<1>2. str \in GplinkString
  BY DEF Sound, ContentInv, Typed
<1>3. Named(new) = Named(str) \cup {g, h}
  <2> DEFINE one == Adding(str, g)
  <2>1. one \in GplinkString /\ Named(one) = Named(str) \cup {g}
    BY <1>2, EditedStrings
  <2> HIDE DEF one
  <2>2. Named(Adding(one, h)) = Named(one) \cup {h}
    BY <2>1, EditedStrings, SMTT(30)
  <2> QED
    BY <2>1, <2>2 DEF one
<1> HIDE DEF new
<1>4. gplink'[ou] = new /\ \A o \in OUs \ {ou} : gplink'[o] = gplink[o]
  BY <1>1, WritesOne DEF Sound
<1>5. /\ Server.gplink = gplink /\ Server'.gplink = gplink'
      /\ Server.gpos = gpos /\ Server'.gpos = gpos
  BY DEF Server
<1>6. TreeOK(tree) /\ \A p \in tree.fetched : p \in Parents /\ (p # AllPolicies => p \in OUs)
  BY DEF Sound, ContentInv, CurrentInv, TreeOK, Parents
<1>7. \A p \in tree.fetched \ {ou} : RowFresh(tree, p, Server')
  BY <1>4, <1>5, <1>6 DEF FreshTree, RowsFresh, RowFresh, Right
<1>8. RowsFresh(added, Server')
  <2>1. CASE ou \notin tree.fetched
    <3>1. added = tree
      BY <2>1 DEF AddItems
    <3> QED
      BY <1>7, <2>1, <3>1 DEF RowsFresh
  <2>2. CASE ou \in tree.fetched
    <3> HIDE DEF S
    <3>1. /\ added.fetched = tree.fetched
          /\ \A x \in GPOs : added.items[ou][x] = IF x \in S THEN tree.items[ou][x] + 1
                                                   ELSE tree.items[ou][x]
          /\ \A q \in Parents \ {ou} : added.items[q] = tree.items[q]
      BY <1>6, <2>2, AddItemsRows
    <3> HIDE DEF added
    <3>2. ou # AllPolicies
      BY PolicyLinksAssumption
    <3>3. \A x \in GPOs : /\ Right(ou, x, Server) <=> x \in gpos /\ x \in Named(str)
                          /\ Right(ou, x, Server') <=> x \in gpos /\ x \in Named(new)
      BY <1>4, <1>5, <3>2 DEF Right
    <3>4. \A x \in GPOs : tree.items[ou][x] = IF Right(ou, x, Server) THEN 1 ELSE 0
      BY <2>2 DEF FreshTree, RowsFresh, RowFresh
    <3>5. \A x \in GPOs : x \in S <=> Right(ou, x, Server') /\ ~ Right(ou, x, Server)
      BY <3>3 DEF S
    <3>6. \A x \in GPOs : Right(ou, x, Server) => Right(ou, x, Server')
      BY <1>3, <3>3
    <3>7. RowFresh(added, ou, Server')
      BY <3>1, <3>4, <3>5, <3>6 DEF RowFresh
    <3>8. \A p \in tree.fetched \ {ou} : RowFresh(added, p, Server')
      BY <1>6, <1>7, <3>1 DEF RowFresh
    <3> QED
      BY <3>1, <3>7, <3>8 DEF RowsFresh
  <2> QED
    BY <2>1, <2>2
<1>9. TreeOK(added) /\ InTree(added, scope)
  <2> HIDE DEF S
  <2>1. InTree(tree, scope)
    BY DEF Sound, ContentInv, CurrentInv
  <2> QED
    BY <1>6, <2>1, AddItemsTree, GrowsKeeps
<1> HIDE DEF added
<1> QED
  BY <1>1, <1>5, <1>8, <1>9, ListedRows DEF FreshTree

LEMMA RemoveLinkRows ==
    ASSUME OneAdmin, Sound, FreshTree, RemoveLink
    PROVE  FreshTree'
<1> DEFINE ou == scope.at
           g == scope.gpo
           new == Removing(gplink[ou], g)
<1>1. /\ scope.type = "Policy" /\ ou \in OUs /\ UNCHANGED gpos
      /\ g \in GPOs /\ scope = PolicyItem(ou, g)
      /\ TreeOK(tree) /\ tree.items[ou][g] > 0
  BY CurrentItems, ItemShapes DEF RemoveLink, Sound, ContentInv, CurrentInv, InTree
<1>2. PICK str \in Reads(Server, ou), success \in EditOutcomes :
        /\ Replace(ou, Removing(str, g), success)
        /\ IF success
           THEN /\ Cache(ou, Removing(str, g))
                /\ scope' = ScopeAfterDeleting(scope)
                /\ \E v \in DeletedItem(scope, Console, Server', ou_links') : Show(v)
           ELSE UNCHANGED <<ou_links, uiVars>>
  BY DEF RemoveLink
<1>3. str = gplink[ou] /\ success = TRUE
  BY <1>2, ServerReads
<1>4. Writes(ou, new)
  BY <1>2, <1>3, Written
<1>5. PICK v \in DeletedItem(PolicyItem(ou, g), Console, Server', ou_links') : tree' = v.tree
  BY <1>1, <1>2, <1>3 DEF Show
<1>6. ou \in tree.fetched /\ ou \in Parents /\ ou # AllPolicies
  BY <1>1, PolicyLinksAssumption DEF TreeOK, Parents
<1>7. tree' = DeleteItem(tree, ou, g)
  <2>1. PICK w \in Selecteds(OUItem(ou), Console, Server', ou_links') :
            v = [w EXCEPT !.tree = DeleteItem(w.tree, ou, g)]
    BY <1>1, <1>5, <1>6, ItemShapes DEF DeletedItem, ParentItem
  <2>2. Console.tree = tree
    BY DEF Console, View
  <2>3. w = View(tree, w.links, w.results)
    BY <1>6, <2>1, <2>2, ItemShapes DEF Selecteds, View
  <2> QED
    BY <1>5, <2>1, <2>3 DEF View
<1>8. /\ tree'.fetched = tree.fetched
      /\ \A q \in Parents, x \in GPOs :
            tree'.items[q][x] = IF q = ou /\ x = g THEN tree.items[q][x] - 1
                                ELSE tree.items[q][x]
  <2> DEFINE n == tree.items[ou][g] - 1
             rows == [tree.items EXCEPT ![ou][g] = n]
             u == [tree EXCEPT !.items = rows]
  <2>1. tree' = u
    BY <1>1, <1>7 DEF DeleteItem, TreeOK
  <2> HIDE DEF n
  <2>2. \A q \in Parents, x \in GPOs :
            rows[q][x] = IF q = ou /\ x = g THEN n ELSE tree.items[q][x]
    BY <1>1, <1>6 DEF TreeOK
  <2> HIDE DEF rows
  <2>3. u.fetched = tree.fetched /\ u.items = rows
    BY <1>1 DEF TreeOK
  <2> QED
    BY <2>1, <2>2, <2>3 DEF n
<1>9. gplink[ou] \in GplinkString
  BY <1>1 DEF Sound, ContentInv, Typed
<1>10. Named(new) = Named(gplink[ou]) \ {g}
  BY <1>1, <1>9, EditedStrings
<1> HIDE DEF new
<1>11. gplink'[ou] = new /\ \A o \in OUs \ {ou} : gplink'[o] = gplink[o]
  BY <1>1, <1>4, WritesOne DEF Sound
<1>12. /\ Server.gplink = gplink /\ Server'.gplink = gplink'
       /\ Server.gpos = gpos /\ Server'.gpos = gpos
  BY <1>1 DEF Server
<1>13. \A p \in tree.fetched : p \in Parents /\ (p # AllPolicies => p \in OUs)
  BY <1>1 DEF TreeOK, Parents
<1>14. ASSUME NEW p \in tree.fetched, NEW x \in GPOs
       PROVE  tree'.items[p][x] = IF Right(p, x, Server') THEN 1 ELSE 0
  <2>1. tree.items[p][x] = IF Right(p, x, Server) THEN 1 ELSE 0
    BY DEF FreshTree, RowsFresh, RowFresh
  <2>2. CASE p = ou /\ x = g
    <3>1. ~ Right(p, x, Server')
      BY <1>6, <1>10, <1>11, <1>12, <2>2 DEF Right
    <3>2. tree.items[p][x] = 1
      BY <1>1, <2>1, <2>2
    <3> QED
      BY <1>8, <1>13, <2>2, <3>1, <3>2
  <2>3. CASE ~ (p = ou /\ x = g)
    <3>1. Right(p, x, Server') <=> Right(p, x, Server)
      BY <1>10, <1>11, <1>12, <1>13, <2>3 DEF Right
    <3> QED
      BY <1>8, <1>13, <2>1, <2>3, <3>1
  <2> QED
    BY <2>2, <2>3
<1> QED
  BY <1>8, <1>14 DEF FreshTree, RowsFresh, RowFresh

LEMMA AddLinkRows ==
    ASSUME OneAdmin, Sound, FreshTree, NEW g, NEW ou \in OUs, AddLink(g, ou, ou)
    PROVE  FreshTree'
<1> DEFINE start == [view |-> Console, scope |-> scope]
<1>1. AddLinks(g, ou, ou, TRUE) /\ UNCHANGED gpos
  BY DEF AddLink
<1>2. PICK c \in AddedTo({start}, ou, Server', ou_links') : tree' = c.view.tree
  BY <1>1 DEF AddLinks
<1>3. \A o \in OUs \ {ou} : gplink'[o] = gplink[o]
  BY <1>1 DEF AddLinks
<1>4. /\ Server.gplink = gplink /\ Server'.gplink = gplink'
      /\ Server.gpos = gpos /\ Server'.gpos = gpos
  BY <1>1 DEF Server
<1>5. ConsoleOK(start) /\ start.view.tree = tree
  BY CurrentConsole DEF Sound, ContentInv
<1>6. TreeOK(tree) /\ \A p \in tree.fetched : p # AllPolicies => p \in OUs
  BY DEF Sound, ContentInv, CurrentInv, TreeOK, Parents
<1>7. \A p \in tree.fetched \ {ou} : RowFresh(tree, p, Server')
  BY <1>3, <1>4, <1>6 DEF FreshTree, RowsFresh, RowFresh, Right
<1> HIDE DEF start
<1>8. CASE ou \in tree.shown \cap tree.fetched
  <2>1. c \in Refreshes(start, ou, Server', ou_links')
    BY <1>2, <1>5, <1>8 DEF AddedTo
  <2> QED
    BY <1>2, <1>5, <1>7, <1>8, <2>1, RefreshesRows DEF FreshTree
<1>9. CASE ou \notin tree.shown \cap tree.fetched
  <2>1. c = start /\ ou \notin tree.fetched
    BY <1>2, <1>5, <1>6, <1>9 DEF AddedTo, TreeOK
  <2> QED
    BY <1>2, <1>5, <1>7, <2>1 DEF FreshTree, RowsFresh
<1> QED
  BY <1>8, <1>9

LEMMA LooksRows ==
    ASSUME OneAdmin, Sound, FreshTree, Looks
    PROVE  FreshTree'
<1>1. Server' = Server
  BY DEF Looks, Select, RefreshOU, RefreshAllPolicies, RefreshPolicy, Looking, serverVars, Server
<1>2. TreeOK(tree) /\ Console.tree = tree /\ IsView(Console)
  BY CurrentConsole, ConsoleIsView DEF Sound, ContentInv, CurrentInv
<1>3. CASE \E item \in Items : Select(item)
  <2>1. PICK item \in Items : Select(item)
    BY <1>3
  <2>2. PICK v \in Selecteds(item, Console, Server, ou_links) : tree' = v.tree
    BY <2>1 DEF Select, Show
  <2>3. InTree(tree, item)
    BY CurrentItems DEF Sound, ContentInv
  <2> QED
    BY <1>1, <1>2, <2>2, <2>3, SelectedsRows DEF FreshTree
<1>4. CASE RefreshOU
  <2> DEFINE start == [view |-> Console, scope |-> scope]
  <2>1. PICK c \in Refreshes(start, scope.at, Server, ou_links) : tree' = c.view.tree
    BY <1>4 DEF RefreshOU, Show
  <2>2. scope.at \in OUs /\ scope.at \in tree.shown /\ scope.at \in tree.fetched
    BY <1>4, CurrentItems DEF RefreshOU, Sound, ContentInv
  <2>3. ConsoleOK(start) /\ start.view.tree = tree
    BY CurrentConsole DEF Sound, ContentInv
  <2> HIDE DEF start
  <2>4. RowsFresh(c.view.tree, Server)
    BY <2>1, <2>2, <2>3, RefreshesRows DEF FreshTree, RowsFresh
  <2> QED
    BY <1>1, <2>1, <2>4 DEF FreshTree
<1>5. CASE RefreshAllPolicies
  <2>1. tree' \in Listed(tree) /\ Server.gpos = gpos
    BY <1>5 DEF RefreshAllPolicies, Listed, Server
  <2>2. InTree(tree, scope)
    BY DEF Sound, ContentInv, CurrentInv
  <2> QED
    BY <1>1, <1>2, <2>1, <2>2, ListedRows DEF FreshTree
<1>6. CASE RefreshPolicy
  BY <1>1, <1>6 DEF RefreshPolicy, FreshTree
<1> QED
  BY <1>3, <1>4, <1>5, <1>6 DEF Looks

LEMMA OrderRows ==
    ASSUME OneAdmin, Sound, FreshTree, NEW g \in GPOs, NEW h \in GPOs,
           LinksMove(g) \/ \E to \in 1..Cardinality(GPOs) : LinksReorder(g, h, to)
    PROVE  FreshTree'
<1>1. scope.type = "PolicyOU" /\ scope.at \in OUs /\ UNCHANGED <<tree, gpos>>
  BY CurrentItems DEF LinksMove, LinksReorder, LinksShown, Sound, ContentInv
<1>2. links.ou = scope.at /\ links.gplink = gplink[scope.at]
  BY <1>1 DEF Sound, LinksInv, LinksTableFresh
<1>3. gplink[scope.at] \in GplinkString
  BY <1>1 DEF Sound, ContentInv, Typed
<1>4. CASE LinksMove(g)
  <2>1. PICK new \in {MovingUp(links.gplink, g), MovingDown(links.gplink, g)} :
            ModifyGplink(new)
    BY <1>4 DEF LinksMove
  <2>2. \E success \in WriteOutcomes : Replace(links.ou, new, success)
    BY <2>1 DEF ModifyGplink, OneAdmin
  <2>3. Writes(scope.at, new)
    BY <1>2, <2>2, NoFaults, Written
  <2>4. Named(new) = Named(gplink[scope.at])
    <3>1. /\ Named(MovingUp(gplink[scope.at], g)) = Named(gplink[scope.at])
          /\ Named(MovingDown(gplink[scope.at], g)) = Named(gplink[scope.at])
      BY <1>3, EditedStrings
    <3> QED
      BY <1>2, <2>1, <3>1
  <2> QED
    BY <1>1, <2>3, <2>4, SameLinksRows
<1>5. CASE \E to \in 1..Cardinality(GPOs) : LinksReorder(g, h, to)
  <2>1. PICK to \in 1..Cardinality(GPOs) : LinksReorder(g, h, to)
    BY <1>5
  <2> DEFINE new == IF g = h THEN DraggingOne(links.gplink, g, to)
                    ELSE DraggingTwo(links.gplink, g, h, to)
  <2>2. \E success \in EditOutcomes : Replace(links.ou, new, success)
    BY <2>1 DEF LinksReorder
  <2>3. Writes(scope.at, new)
    BY <1>2, <2>2, Written
  <2>4. to \in Nat
    OBVIOUS
  <2>5. Named(new) = Named(gplink[scope.at])
    BY <1>2, <1>3, <2>4, DraggedStrings
  <2> QED
    BY <1>1, <2>3, <2>5, SameLinksRows
<1> QED
  BY <1>4, <1>5

LEMMA OptionRows ==
    ASSUME OneAdmin, Sound, FreshTree, NEW g \in GPOs, NEW o \in Options,
           NEW checked \in BOOLEAN, ChangeOption(o, checked) \/ LinksToggle(g, o)
    PROVE  FreshTree'
<1>1. UNCHANGED <<tree, gpos>>
  BY DEF ChangeOption, LinksToggle
<1>2. \E at \in OUs : \E new : Writes(at, new) /\ Named(gplink'[at]) = Named(gplink[at])
  <2>1. CASE ChangeOption(o, checked)
    BY <2>1, ChangeOptionWrites DEF ChangeOption
  <2>2. CASE LinksToggle(g, o)
    BY <2>2, LinksToggleWrites
  <2> QED
    BY <2>1, <2>2
<1>3. PICK at, new : at \in OUs /\ Writes(at, new) /\ Named(gplink'[at]) = Named(gplink[at])
  BY <1>2
<1>4. gplink'[at] = new
  BY <1>3, WritesOne DEF Sound
<1> QED
  BY <1>1, <1>3, <1>4, SameLinksRows

LEMMA RowsStep ==
    ASSUME OneAdmin, "LinksRemove" \notin UserOps, Sound, FreshTree, [Next]_vars
    PROVE  FreshTree'
<1>1. UserOps \subseteq CachingOps
  BY DEF OneAdmin
<1>2. CASE Looks
  BY <1>2, LooksRows
<1>3. CASE \E g, h \in GPOs : LinkGpo(g, h)
  <2>1. PICK g \in GPOs, h \in GPOs : LinkGpo(g, h)
    BY <1>3
  <2>2. scope.at \in OUs /\ LinkTo(scope.at, g, h) /\ UNCHANGED gpos
    BY <2>1, CurrentItems DEF LinkGpo, Sound, ContentInv
  <2> QED
    BY <2>2, LinkToRows
<1>4. CASE \E g, h \in GPOs : \E ou \in OUs : DropPolicy(ou, g, h)
  BY <1>4, LinkToRows DEF DropPolicy
<1>5. CASE \E g \in GPOs, ou1, ou2 \in OUs : AddLink(g, ou1, ou2)
  <2>1. PICK g \in GPOs, ou1 \in OUs, ou2 \in OUs : AddLink(g, ou1, ou2)
    BY <1>5
  <2>2. ou1 = ou2
    BY <1>1, <2>1 DEF AddLink, Edit, CachingOps
  <2> QED
    BY <2>1, <2>2, AddLinkRows
<1>6. CASE RemoveLink
  BY <1>6, RemoveLinkRows
<1>7. CASE \E o \in Options, checked \in BOOLEAN : ChangeOption(o, checked)
  <2>1. PICK o \in Options, checked \in BOOLEAN : ChangeOption(o, checked)
    BY <1>7
  <2>2. scope.gpo \in GPOs
    BY <2>1, CurrentItems DEF ChangeOption, Sound, ContentInv
  <2> QED
    BY <2>1, <2>2, OptionRows
<1>8. CASE TableEdits
  <2>1. /\ \A g, h : ~ LinksRemove(g, h)
        /\ \A ou : ~ ResultsDelete(ou)
        /\ \A ou, o, checked : ~ ResultsToggle(ou, o, checked)
    BY <1>1 DEF LinksRemove, LinksShown, ResultsDelete, ResultsToggle, ResultsShown, Edit,
                CachingOps
  <2>2. CASE \E g, h \in GPOs :
                LinksMove(g) \/ \E to \in 1..Cardinality(GPOs) : LinksReorder(g, h, to)
    BY <2>2, OrderRows
  <2>3. CASE \E g \in GPOs, o \in Options : LinksToggle(g, o)
    BY <2>3, OptionRows
  <2> QED
    BY <1>8, <2>1, <2>2, <2>3 DEF TableEdits
<1>9. CASE UNCHANGED vars
  BY <1>9 DEF vars, serverVars, uiVars, FreshTree, Server
<1>10. /\ \A g, ou1, ou2 : ~ FindAddLink(g, ou1, ou2)
       /\ \A g : ~ DropOU(g) /\ ~ DeletePolicy(g) /\ ~ FindDeletePolicy(g)
       /\ ~ OtherAdmin /\ ~ RefreshDomain
  BY <1>1 DEF FindAddLink, DropOU, FindDeletePolicy, DeletePolicy, OtherAdmin, RefreshDomain,
              Edit, CachingOps
<1>11. ~ CacheUpdates
  BY CacheRests DEF Sound
<1> QED
  BY <1>2, <1>3, <1>4, <1>5, <1>6, <1>7, <1>8, <1>9, <1>10, <1>11 DEF Next, TreeEdits

\* Then a fetched OU has one item for each policy linked to it, no more and no
\* less, unless links were removed in the links table.
THEOREM OneAdminTreeFresh ==
    ASSUME OneAdmin, "LinksRemove" \notin UserOps
    PROVE  Spec => []TreeFresh
<1> DEFINE IInv == Sound /\ FreshTree
<1>1. Init => IInv
  <2>1. Init => tree.fetched = {}
    BY DEF Init, EmptyTree
  <2> QED
    BY <2>1, SoundInit DEF FreshTree, RowsFresh
<1>2. IInv /\ [Next]_vars => IInv'
  BY SoundStep, RowsStep
<1>3. IInv => TreeFresh
  BY DEF FreshTree, RowsFresh, RowFresh, Right, Server, TreeFresh
<1> QED
  BY <1>1, <1>2, <1>3, PTL DEF Spec
-----------------------------------------------------------------------------
(* Deleting policies, while the directory does not fail, nobody else edits *)
(* and no policy is deleted in the find dialog.  What could bring a link   *)
(* of a deleted policy back is an edit that starts from a copy made before *)
(* the deletion: no item of the tree, and no links table of a current OU,  *)
(* holds a policy that is gone.  The cache and the results table may.      *)

\* The operations that write what the server has, or what the links table of
\* the current OU has.
FreshOps == {"LinkGpo", "DropPolicy", "AddLink", "AddLinkTwo", "DropOU", "FindAddLink",
             "RemoveLink", "DeletePolicy", "LinksToggle", "LinksRemove", "LinksMove",
             "LinksReorder", "RefreshDomain"}

CleanDeletes == Faults = {} /\ UserOps \subseteq FreshOps

LegalServer(server) == \A ou \in OUs : Named(server.gplink[ou]) \subseteq server.gpos

LegalTree(t, server) ==
    \A p \in Parents, g \in GPOs : t.items[p][g] > 0 => g \in server.gpos

LegalLinks(w, item, server) ==
    item.type = "PolicyOU" => Named(w.gplink) \subseteq server.gpos

LEMMA NothingFails ==
    ASSUME Faults = {}
    PROVE  /\ \A server, ou : Reads(server, ou) = {server.gplink[ou]}
           /\ \A server : Founds(server) = {server.gpos}
           /\ WriteOutcomes = {TRUE} /\ EditOutcomes = {TRUE}
           /\ \A fault, x : MayFail(fault, x) = {}
BY DEF Reads, Founds, WriteOutcomes, EditOutcomes, MayFail

LEMMA LinksUpdatesLegal ==
    ASSUME Faults = {}, NEW w, NEW ou \in OUs, NEW server, LegalServer(server),
           NEW u \in LinksUpdates(w, ou, server)
    PROVE  Named(u.gplink) \subseteq server.gpos
<1>1. PICK str \in Reads(server, ou) :
        u \in {[ou |-> ou, gplink |-> str, rows |-> rows, from |-> ou] :
                rows \in RowSets(str, server)}
  BY NothingFails DEF LinksUpdates
<1>2. str = server.gplink[ou]
  BY <1>1, NothingFails
<1>3. u.gplink = str
  BY <1>1
<1> QED
  BY <1>2, <1>3 DEF LegalServer

LEMMA AddItemsLegal ==
    ASSUME NEW t, TreeOK(t), NEW server, LegalTree(t, server), NEW p, NEW S,
           S \subseteq server.gpos
    PROVE  LegalTree(AddItems(t, p, S), server)
<1>1. CASE p \notin t.fetched
  BY <1>1 DEF AddItems
<1>2. CASE p \in t.fetched
  <2> DEFINE u == AddItems(t, p, S)
  <2>1. /\ \A g \in GPOs :
            u.items[p][g] = IF g \in S THEN t.items[p][g] + 1 ELSE t.items[p][g]
        /\ \A q \in Parents \ {p} : u.items[q] = t.items[q]
    BY <1>2, AddItemsRows
  <2> HIDE DEF u
  <2>2. LegalTree(u, server)
    BY <2>1 DEF LegalTree
  <2> QED
    BY <2>2 DEF u
<1> QED
  BY <1>1, <1>2

LEMMA FetchesLegal ==
    ASSUME Faults = {}, NEW t, TreeOK(t), NEW ou \in t.shown, ou \in OUs, NEW server,
           LegalTree(t, server), NEW u \in Fetches(t, ou, server)
    PROVE  LegalTree(u, server)
<1> DEFINE T == ChildOUs(ou) \cup Folder(ou)
           m == Marked(t, ou)
           s == Showing(m, T)
           S == Named(server.gplink[ou]) \cap server.gpos
<1>1. u = AddItems(s, ou, S)
  <2>1. \/ \E children \in {ChildOUs(ou)} \cup MayFail("read", {}),
              str \in Reads(server, ou), found \in Founds(server) :
              u = AddItems(Showing(Marked(t, ou), children \cup Folder(ou)), ou,
                           Named(str) \cap found)
        \/ u \in MayFail("connect", Marked(t, ou))
    BY FetchesAdds
  <2>2. /\ MayFail("read", {}) = {} /\ MayFail("connect", Marked(t, ou)) = {}
        /\ Reads(server, ou) = {server.gplink[ou]} /\ Founds(server) = {server.gpos}
    BY NothingFails
  <2> QED
    BY <2>1, <2>2
<1>2. T \subseteq Parents
  BY PolicyLinksAssumption DEF ChildOUs, Folder, Parents
<1>3. TreeOK(m) /\ m.items = t.items
  BY MarkedTree, MarkedRows
<1>4. TreeOK(s) /\ s.items = t.items
  <2> HIDE DEF m, T
  <2>1. TreeOK(s)
    BY <1>2, <1>3, ShowingTree
  <2> QED
    BY <1>3, <2>1, MarkedRows
<1> HIDE DEF T, m, s
<1>5. LegalTree(s, server) /\ S \subseteq server.gpos
  BY <1>4 DEF LegalTree
<1> QED
  BY <1>1, <1>4, <1>5, AddItemsLegal

LEMMA FetchesAllLegal ==
    ASSUME Faults = {}, NEW t, TreeOK(t), AllPolicies \in t.shown, NEW server,
           LegalTree(t, server), NEW u \in FetchesAllPolicies(t, server)
    PROVE  LegalTree(u, server)
<1> DEFINE m == Marked(t, AllPolicies)
<1>1. u = AddItems(m, AllPolicies, server.gpos)
  BY NothingFails DEF FetchesAllPolicies
<1>2. TreeOK(m) /\ m.items = t.items
  BY MarkedTree, MarkedRows
<1> HIDE DEF m
<1>3. LegalTree(m, server)
  BY <1>2 DEF LegalTree
<1> QED
  BY <1>1, <1>2, <1>3, AddItemsLegal

LegalView(v, item, server) == LegalTree(v.tree, server) /\ LegalLinks(v.links, item, server)

\* Selecting an item reads what the server has.
LEMMA SelectedsLegal ==
    ASSUME Faults = {}, NEW item, NEW v, IsView(v), TreeOK(v.tree), InTree(v.tree, item),
           NEW server, LegalServer(server), LegalTree(v.tree, server), NEW cache,
           NEW u \in Selecteds(item, v, server, cache)
    PROVE  LegalView(u, item, server)
<1>1. CASE item.type = "PolicyOU"
  <2>1. PICK w \in LinksUpdates(v.links, item.at, server),
             t \in IF item.at \in v.tree.fetched THEN {v.tree}
                   ELSE Fetches(v.tree, item.at, server) : u = View(t, w, v.results)
    BY <1>1 DEF Selecteds
  <2>2. item.at \in OUs /\ item.at \in v.tree.shown
    BY <1>1, ItemShapes DEF InTree
  <2>3. LegalTree(t, server)
    BY <2>1, <2>2, FetchesLegal
  <2>4. Named(w.gplink) \subseteq server.gpos
    BY <2>1, <2>2, LinksUpdatesLegal
  <2> QED
    BY <2>1, <2>3, <2>4 DEF View, LegalView, LegalLinks
<1>2. CASE item.type = "AllPoliciesFolder"
  <2>1. PICK t \in IF AllPolicies \in v.tree.fetched THEN {v.tree}
                   ELSE FetchesAllPolicies(v.tree, server) : u = View(t, v.links, v.results)
    BY <1>2 DEF Selecteds
  <2>2. AllPolicies \in v.tree.shown
    BY <1>2, ItemShapes DEF InTree
  <2>3. LegalTree(t, server)
    BY <2>1, <2>2, FetchesAllLegal
  <2> QED
    BY <1>2, <2>1, <2>3 DEF View, LegalView, LegalLinks
<1>3. CASE item.type = "Policy"
  <2>1. \E r : u = View(v.tree, v.links, r)
    BY <1>3, NothingFails DEF Selecteds
  <2> QED
    BY <1>3, <2>1 DEF View, LegalView, LegalLinks
<1>4. CASE item.type \notin {"PolicyOU", "AllPoliciesFolder", "Policy"}
  BY <1>4 DEF Selecteds, LegalView, LegalLinks
<1> QED
  BY <1>1, <1>2, <1>3, <1>4

\* Deleting one item leaves no more of any.
LEMMA DeleteItemLegal ==
    ASSUME NEW t, TreeOK(t), NEW server, LegalTree(t, server), NEW p, NEW g
    PROVE  LegalTree(DeleteItem(t, p, g), server)
<1> DEFINE u == DeleteItem(t, p, g)
<1>1. \A q \in Parents, h \in GPOs : (q # p \/ h # g) => u.items[q][h] = t.items[q][h]
  BY DeleteItemTree
<1>2. p \in Parents /\ g \in GPOs /\ u.items[p][g] > 0 => t.items[p][g] > 0
  <2> SUFFICES ASSUME p \in Parents, g \in GPOs, t.items[p][g] = 0
               PROVE  ~ (u.items[p][g] > 0)
    BY DEF TreeOK
  <2>1. u = t
    BY DEF DeleteItem
  <2> QED
    BY <2>1
<1> HIDE DEF u
<1>3. LegalTree(u, server)
  BY <1>1, <1>2 DEF LegalTree
<1> QED
  BY <1>3 DEF u

LEMMA DeletedItemLegal ==
    ASSUME Faults = {}, NEW p, NEW g, NEW v, IsView(v), TreeOK(v.tree),
           InTree(v.tree, scope), NEW server, LegalServer(server),
           LegalView(v, scope, server), NEW cache,
           NEW u \in DeletedItem(PolicyItem(p, g), v, server, cache)
    PROVE  LegalView(u, ScopeAfterDeleting(PolicyItem(p, g)), server)
<1> DEFINE item == PolicyItem(p, g)
<1>1. item.at = p /\ item.gpo = g
  BY ItemShapes
<1>2. PICK w \in IF scope = item THEN Selecteds(ParentItem(p), v, server, cache) ELSE {v} :
        u = [w EXCEPT !.tree = DeleteItem(w.tree, p, g)]
  BY <1>1 DEF DeletedItem
<1>3. CASE scope = item
  <2>1. p \in Parents /\ p \in v.tree.shown
    BY <1>3, ItemShapes DEF InTree, TreeOK
  <2>2. InTree(v.tree, ParentItem(p))
    BY <2>1 DEF InTree, ParentItem, Parents
  <2>3. IsView(w) /\ TreeOK(w.tree) /\ LegalView(w, ParentItem(p), server)
    BY <1>2, <1>3, <2>2, SelectedsTree, SelectedsLegal DEF LegalView
  <2>4. u.tree = DeleteItem(w.tree, p, g) /\ u.links = w.links
    BY <1>2, <2>3 DEF IsView, View
  <2>5. ScopeAfterDeleting(item) = ParentItem(p)
    BY <1>1, <1>3 DEF ScopeAfterDeleting
  <2>6. LegalTree(u.tree, server)
    BY <2>3, <2>4, DeleteItemLegal DEF LegalView
  <2> QED
    BY <2>3, <2>4, <2>5, <2>6 DEF LegalView
<1>4. CASE scope # item
  <2>1. u.tree = DeleteItem(v.tree, p, g) /\ u.links = v.links
    BY <1>2, <1>4 DEF IsView, View
  <2>2. ScopeAfterDeleting(item) = scope
    BY <1>4 DEF ScopeAfterDeleting
  <2>3. LegalTree(u.tree, server)
    BY <2>1, DeleteItemLegal DEF LegalView
  <2> QED
    BY <2>1, <2>2, <2>3 DEF LegalView
<1> QED
  BY <1>3, <1>4

LEMMA RefreshesLegal ==
    ASSUME Faults = {}, NEW c, ConsoleOK(c), NEW ou \in OUs, ou \in c.view.tree.shown,
           NEW server, LegalServer(server), LegalTree(c.view.tree, server),
           NEW cache, NEW d \in Refreshes(c, ou, server, cache)
    PROVE  LegalView(d.view, d.scope, server)
<1> DEFINE t == c.view.tree
           u == DeleteChildren(t, ou)
           view == [c.view EXCEPT !.tree = u]
<1>1. PICK r \in WithoutChildren(c, ou, server, cache) :
        d \in {[view |-> View(x, w, r.view.results), scope |-> r.scope] :
                x \in Fetches(r.view.tree, ou, server),
                w \in LinksUpdates(r.view.links, ou, server)}
  BY DEF Refreshes
<1>2. PICK x \in Fetches(r.view.tree, ou, server),
           w \in LinksUpdates(r.view.links, ou, server) :
        d = [view |-> View(x, w, r.view.results), scope |-> r.scope]
  BY <1>1
<1>3. d.view.tree = x /\ d.view.links = w
  <2>1. d.view = View(x, w, r.view.results)
    BY <1>2
  <2> QED
    BY <2>1 DEF View
<1>4. TreeOK(t) /\ TreeOK(u) /\ ou \in u.shown
  BY DeleteChildrenTree DEF ConsoleOK
<1>5. \A q \in Parents : u.items[q] = NoItems \/ u.items[q] = t.items[q]
  BY DEF DeleteChildren
<1>6. ConsoleOK(r) /\ ou \in r.view.tree.shown
  BY <1>1, WithoutChildrenOK
<1> HIDE DEF u
<1>7. LegalTree(u, server)
  BY <1>5 DEF LegalTree, NoItems
<1>8. view.tree = u /\ IsView(view)
  BY DEF ConsoleOK, IsView, View
<1>9. r.view = view \/ r.view \in Selecteds(OUItem(ou), view, server, cache)
  BY <1>1 DEF WithoutChildren, u
<1> HIDE DEF view
<1>10. InTree(view.tree, OUItem(ou))
  BY <1>4, <1>8 DEF InTree
<1>11. LegalTree(r.view.tree, server)
  BY <1>4, <1>7, <1>8, <1>9, <1>10, SelectedsLegal DEF LegalView
<1>12. LegalTree(x, server)
  BY <1>2, <1>6, <1>11, FetchesLegal DEF ConsoleOK
<1>13. Named(w.gplink) \subseteq server.gpos
  BY <1>2, LinksUpdatesLegal
<1> QED
  BY <1>3, <1>12, <1>13 DEF LegalView, LegalLinks

LEMMA AddedToLegal ==
    ASSUME Faults = {}, NEW server, LegalServer(server), NEW cs,
           \A c \in cs : ConsoleOK(c) /\ LegalView(c.view, c.scope, server),
           NEW ou \in OUs, NEW cache, NEW d \in AddedTo(cs, ou, server, cache)
    PROVE  ConsoleOK(d) /\ LegalView(d.view, d.scope, server)
<1>1. PICK c \in cs :
        d \in IF ou \in c.view.tree.shown \cap c.view.tree.fetched
             THEN Refreshes(c, ou, server, cache) ELSE {c}
  BY DEF AddedTo
<1> QED
  BY <1>1, RefreshesOK, RefreshesLegal DEF LegalView
Legal ==
    LegalServer(Server) /\ LegalTree(tree, Server) /\ LegalLinks(links, scope, Server)

LEMMA LegalState ==
    ASSUME ContentInv, Legal
    PROVE  /\ Server.gplink = gplink /\ Server.gpos = gpos
           /\ \A ou \in OUs : gplink[ou] \in GplinkString /\ Named(gplink[ou]) \subseteq gpos
           /\ scope.type = "Policy" => scope.gpo \in gpos
           /\ LegalView(Console, scope, Server)
<1>1. Server.gplink = gplink /\ Server.gpos = gpos
  BY DEF Server
<1>2. \A ou \in OUs : gplink[ou] \in GplinkString /\ Named(gplink[ou]) \subseteq gpos
  BY <1>1 DEF ContentInv, Typed, Legal, LegalServer
<1>3. ASSUME scope.type = "Policy" PROVE scope.gpo \in gpos
  <2>1. PICK p \in Parents, g \in GPOs : tree.items[p][g] > 0 /\ scope = PolicyItem(p, g)
    BY <1>3, ItemShapes DEF ContentInv, CurrentInv, InTree
  <2> QED
    BY <1>1, <2>1, ItemShapes DEF Legal, LegalTree
<1>4. LegalView(Console, scope, Server)
  BY DEF Legal, LegalView, Console, View
<1> QED
  BY <1>1, <1>2, <1>3, <1>4

\* An edit that leaves the policies alone and writes one attribute.
LEMMA WrittenLegally ==
    ASSUME ContentInv, Legal, Faults = {}, UNCHANGED gpos, NEW ou, NEW new,
           NEW success \in EditOutcomes, Replace(ou, new, success), Named(new) \subseteq gpos
    PROVE  /\ success = TRUE
           /\ LegalServer(Server') /\ Server'.gpos = Server.gpos /\ Server.gpos = gpos
           /\ LegalTree(tree, Server')
           /\ LegalLinks(links, scope, Server')
           /\ LegalView(Console, scope, Server')
<1>1. success = TRUE
  BY NothingFails
<1>2. gplink' = [gplink EXCEPT ![ou] = new]
  BY <1>1 DEF Replace
<1>3. Server'.gpos = Server.gpos /\ Server.gpos = gpos /\ Server'.gplink = gplink'
  BY DEF Server
<1>4. \A o \in OUs : gplink'[o] = new \/ gplink'[o] = gplink[o]
  BY <1>2 DEF ContentInv, Typed
<1>5. \A o \in OUs : Named(gplink[o]) \subseteq gpos
  BY LegalState
<1>6. LegalServer(Server')
  BY <1>3, <1>4, <1>5 DEF LegalServer
<1>7. LegalTree(tree, Server') /\ LegalLinks(links, scope, Server')
  BY <1>3 DEF Legal, LegalTree, LegalLinks
<1>8. LegalView(Console, scope, Server')
  BY <1>7 DEF LegalView, Console, View
<1> QED
  BY <1>1, <1>3, <1>6, <1>7, <1>8

LEMMA ListedLegal ==
    ASSUME Faults = {}, NEW t, TreeOK(t), InTree(t, scope), NEW server, server.gpos = gpos,
           LegalTree(t, server), NEW u \in Listed(t)
    PROVE  LegalTree(u, server)
<1>1. CASE scope = AllPoliciesItem
  <2> DEFINE w == [t EXCEPT !.items[AllPolicies] = NoItems]
  <2>1. u \in FetchesAllPolicies(w, Server)
    BY <1>1 DEF Listed
  <2>2. u \in FetchesAllPolicies(w, server)
    <3>1. Founds(Server) = Founds(server)
      BY DEF Founds, Server
    <3> QED
      BY <2>1, <3>1 DEF FetchesAllPolicies
  <2>3. AllPolicies \in t.shown
    BY <1>1, ItemShapes DEF InTree
  <2>4. /\ TreeOK(w) /\ w.shown = t.shown
        /\ \A g \in GPOs : w.items[AllPolicies][g] = 0
        /\ \A p \in Parents \ {AllPolicies} : w.items[p] = t.items[p]
    BY WithoutItems
  <2> HIDE DEF w
  <2>5. LegalTree(w, server)
    BY <2>4 DEF LegalTree
  <2> QED
    BY <2>2, <2>3, <2>4, <2>5, FetchesAllLegal
<1>2. CASE scope # AllPoliciesItem
  BY <1>2 DEF Listed
<1> QED
  BY <1>1, <1>2

\* The policies a handler acts on are items of the tree.
LEMMA ChosenLegally ==
    ASSUME ContentInv, Legal, NEW g \in ChosenPolicies
    PROVE  g \in GPOs /\ g \in gpos
<1>1. /\ g \in GPOs
      /\ \/ scope = AllPoliciesItem /\ tree.items[AllPolicies][g] > 0
         \/ scope.type = "Policy" /\ scope.gpo = g
  BY Chosen, CurrentScope DEF ContentInv
<1>2. AllPolicies \in Parents /\ Server.gpos = gpos
  BY DEF Parents, Server
<1> QED
  BY <1>1, <1>2, LegalState DEF Legal, LegalTree

LEMMA LinkToLegal ==
    ASSUME ContentInv, Legal, Faults = {}, UNCHANGED <<gpos, scope>>, NEW ou \in OUs,
           NEW g \in GPOs, NEW h \in GPOs, {g, h} \subseteq gpos, LinkTo(ou, g, h)
    PROVE  Legal'
<1>1. PICK str \in Reads(Server, ou), success \in EditOutcomes :
        LET new == Adding(Adding(str, g), h)
            added == Named(new) \ Named(str)
        IN  /\ Replace(ou, new, success)
            /\ IF success
               THEN /\ Cache(ou, new)
                    /\ \E found \in Founds(Server) :
                            tree' \in Listed(AddItems(tree, ou, added \cap found))
                    /\ IF scope.type = "PolicyOU"
                       THEN links' \in LinksUpdates(links, scope.at, Server')
                       ELSE UNCHANGED links
               ELSE tree' \in Listed(tree) /\ UNCHANGED <<ou_links, links>>
  BY DEF LinkTo
<1> DEFINE one == Adding(str, g)
           new == Adding(one, h)
<1>2. str \in GplinkString /\ Named(str) \subseteq gpos
  BY <1>1, NothingFails, LegalState
<1>3. one \in GplinkString /\ Named(one) = Named(str) \cup {g}
  BY <1>2, EditedStrings
<1>4. Replace(ou, new, success)
  BY <1>1
<1>5. success => \E S \in SUBSET Server.gpos : tree' \in Listed(AddItems(tree, ou, S))
  <2>1. Founds(Server) = {Server.gpos}
    BY NothingFails
  <2> QED
    BY <1>1, <2>1
<1>6. success => IF scope.type = "PolicyOU"
                 THEN links' \in LinksUpdates(links, scope.at, Server')
                 ELSE UNCHANGED links
  BY <1>1
<1> HIDE DEF one
<1>7. Named(new) = Named(one) \cup {h}
  BY <1>3, EditedStrings, SMTT(30)
<1> HIDE DEF new
<1>8. /\ success = TRUE
      /\ LegalServer(Server') /\ Server'.gpos = Server.gpos
      /\ LegalTree(tree, Server') /\ LegalLinks(links, scope, Server')
  BY <1>2, <1>3, <1>4, <1>7, WrittenLegally
<1>9. LegalTree(tree', Server')
  <2>1. PICK S \in SUBSET Server.gpos : tree' \in Listed(AddItems(tree, ou, S))
    BY <1>5, <1>8
  <2> DEFINE t == AddItems(tree, ou, S)
  <2>2. LegalTree(t, Server')
    BY <1>8, AddItemsLegal DEF ContentInv, CurrentInv
  <2>3. TreeOK(t) /\ InTree(t, scope)
    BY AddItemsTree, GrowsKeeps DEF ContentInv, CurrentInv
  <2> HIDE DEF t
  <2>4. Server'.gpos = gpos
    BY DEF Server
  <2> QED
    BY <2>1, <2>2, <2>3, <2>4, ListedLegal DEF t
<1>10. LegalLinks(links', scope', Server')
  <2>1. CASE scope.type = "PolicyOU"
    <3>1. scope.at \in OUs
      BY <2>1, CurrentItems DEF ContentInv
    <3> QED
      BY <1>6, <1>8, <2>1, <3>1, LinksUpdatesLegal DEF LegalLinks
  <2>2. CASE scope.type # "PolicyOU"
    BY <2>2 DEF LegalLinks
  <2> QED
    BY <2>1, <2>2
<1> QED
  BY <1>8, <1>9, <1>10 DEF Legal

LEMMA AddLinksLegal ==
    ASSUME ContentInv, Legal, Faults = {}, UNCHANGED gpos, NEW g \in GPOs, g \in gpos,
           NEW ou1 \in OUs, NEW ou2 \in OUs, NEW b, AddLinks(g, ou1, ou2, b)
    PROVE  Legal'
<1> DEFINE start == {[view |-> Console, scope |-> scope]}
           first == AddedTo(start, ou1, Server', ou_links')
           both == IF ou1 = ou2 THEN first ELSE AddedTo(first, ou2, Server', ou_links')
<1>1. \A ou \in OUs : Named(gplink'[ou]) \subseteq gpos
  <2>1. PICK str1 \in Reads(Server, ou1), str2 \in Reads(Server, ou2),
             ok1 \in WriteOutcomes, ok2 \in WriteOutcomes :
        LET new == [ou \in {ou1, ou2} |-> Adding(IF ou = ou1 THEN str1 ELSE str2, g)]
            ok == [ou \in {ou1, ou2} |-> IF ou = ou1 THEN ok1 ELSE ok2]
        IN  gplink' = [ou \in OUs |-> IF ou \in {ou1, ou2} /\ ok[ou]
                                      THEN new[ou] ELSE gplink[ou]]
    BY DEF AddLinks
  <2> DEFINE new == [ou \in {ou1, ou2} |-> Adding(IF ou = ou1 THEN str1 ELSE str2, g)]
             ok == [ou \in {ou1, ou2} |-> IF ou = ou1 THEN ok1 ELSE ok2]
  <2>2. /\ str1 \in GplinkString /\ Named(str1) \subseteq gpos
        /\ str2 \in GplinkString /\ Named(str2) \subseteq gpos
    BY <2>1, NothingFails, LegalState
  <2>3. Named(Adding(str1, g)) \subseteq gpos /\ Named(Adding(str2, g)) \subseteq gpos
    BY <2>2, EditedStrings
  <2>4. \A ou \in {ou1, ou2} : Named(new[ou]) \subseteq gpos
    <3>1. \A ou \in {ou1, ou2} : new[ou] = Adding(str1, g) \/ new[ou] = Adding(str2, g)
      OBVIOUS
    <3> QED
      BY <2>3, <3>1
  <2>5. gplink' = [ou \in OUs |-> IF ou \in {ou1, ou2} /\ ok[ou] THEN new[ou] ELSE gplink[ou]]
    BY <2>1
  <2> HIDE DEF new, ok
  <2>6. \A ou \in OUs :
          gplink'[ou] = gplink[ou] \/ (ou \in {ou1, ou2} /\ gplink'[ou] = new[ou])
    BY <2>5
  <2> QED
    BY <2>4, <2>6, LegalState
<1>2. /\ Server.gpos = gpos /\ Server'.gpos = gpos /\ Server'.gplink = gplink'
  BY DEF Server
<1>3. LegalServer(Server')
  BY <1>1, <1>2 DEF LegalServer
<1>4. PICK c \in both : tree' = c.view.tree /\ links' = c.view.links /\ scope' = c.scope
  BY DEF AddLinks
<1>5. LegalView(Console, scope, Server')
  BY <1>2, LegalState DEF LegalView, LegalTree, LegalLinks
<1>6. \A d \in start : ConsoleOK(d) /\ LegalView(d.view, d.scope, Server')
  BY <1>5, CurrentConsole DEF ContentInv
<1> HIDE DEF start
<1>7. \A d \in first : ConsoleOK(d) /\ LegalView(d.view, d.scope, Server')
  BY <1>3, <1>6, AddedToLegal
<1> HIDE DEF first
<1>8. LegalView(c.view, c.scope, Server')
  BY <1>3, <1>4, <1>7, AddedToLegal
<1> QED
  BY <1>3, <1>4, <1>8 DEF Legal, LegalView

LEMMA RemoveLinkLegal ==
    ASSUME ContentInv, Legal, Faults = {}, RemoveLink
    PROVE  Legal'
<1>1. /\ scope.at \in OUs /\ scope.gpo \in GPOs /\ UNCHANGED gpos
      /\ scope = PolicyItem(scope.at, scope.gpo)
  BY CurrentItems DEF RemoveLink, ContentInv
<1>2. PICK str \in Reads(Server, scope.at), success \in EditOutcomes :
        /\ Replace(scope.at, Removing(str, scope.gpo), success)
        /\ IF success
           THEN /\ Cache(scope.at, Removing(str, scope.gpo))
                /\ scope' = ScopeAfterDeleting(scope)
                /\ \E v \in DeletedItem(scope, Console, Server', ou_links') : Show(v)
           ELSE UNCHANGED <<ou_links, uiVars>>
  BY DEF RemoveLink
<1>3. str \in GplinkString /\ Named(str) \subseteq gpos
  BY <1>1, <1>2, NothingFails, LegalState
<1>4. Named(Removing(str, scope.gpo)) \subseteq gpos
  BY <1>1, <1>3, EditedStrings
<1>5. success = TRUE /\ LegalServer(Server') /\ LegalView(Console, scope, Server')
  BY <1>1, <1>2, <1>4, WrittenLegally
<1>6. scope' = ScopeAfterDeleting(scope)
      /\ \E v \in DeletedItem(scope, Console, Server', ou_links') : Show(v)
  BY <1>2, <1>5
<1>7. PICK v \in DeletedItem(PolicyItem(scope.at, scope.gpo), Console, Server', ou_links') :
        Show(v)
  BY <1>1, <1>6
<1>8. TreeOK(Console.tree) /\ InTree(Console.tree, scope) /\ IsView(Console)
  BY CurrentConsole, ConsoleIsView DEF ContentInv, CurrentInv
<1>9. LegalView(v, ScopeAfterDeleting(PolicyItem(scope.at, scope.gpo)), Server')
  BY <1>5, <1>7, <1>8, DeletedItemLegal
<1>10. LegalView(v, scope', Server')
  BY <1>1, <1>6, <1>9
<1> QED
  BY <1>5, <1>7, <1>10 DEF Legal, LegalView, Show

LEMMA DeletePolicyLegal ==
    ASSUME ContentInv, Legal, Faults = {}, NEW g \in GPOs, DeletePolicy(g)
    PROVE  Legal'
<1> DEFINE item == PolicyItem(AllPolicies, g)
<1>1. /\ scope.at = AllPolicies /\ scope \in {AllPoliciesItem, item}
      /\ DeletedOnServer(g) /\ DeletePolicyItems(g, TRUE)
  <2>1. /\ scope.at = AllPolicies /\ g \in ChosenPolicies
        /\ DeletedOnServer(g) /\ DeletePolicyItems(g, TRUE)
    BY DEF DeletePolicy
  <2>2. scope = AllPoliciesItem \/ (scope.type = "Policy" /\ scope.gpo = g)
    BY <2>1, CurrentScope, Chosen DEF ContentInv
  <2> QED
    BY <2>1, <2>2, CurrentItems DEF ContentInv
<1>2. gpos' = gpos \ {g}
  <2>1. PICK success \in WriteOutcomes : gpos' = IF success THEN gpos \ {g} ELSE gpos
    BY <1>1 DEF DeletedOnServer
  <2>2. success = TRUE
    BY NothingFails
  <2> QED
    BY <2>1, <2>2
<1>3. \A ou \in OUs : Named(gplink'[ou]) \subseteq gpos'
  <2> DEFINE linked == {ou \in OUs : g \in Named(gplink[ou])}
  <2>1. \E S \in {linked} \cup MayFail("read", {})
               \cup (IF "write" \in Faults THEN SUBSET linked ELSE {}) :
          gplink' = [ou \in OUs |-> IF ou \in S THEN Removing(gplink[ou], g) ELSE gplink[ou]]
    BY <1>1 DEF DeletedOnServer
  <2>2. MayFail("read", {}) = {}
    BY NothingFails
  <2>3. gplink' = [ou \in OUs |-> IF ou \in linked THEN Removing(gplink[ou], g)
                                  ELSE gplink[ou]]
    BY <2>1, <2>2
  <2>4. \A ou \in OUs : Named(Removing(gplink[ou], g)) = Named(gplink[ou]) \ {g}
    BY <1>1, LegalState, EditedStrings
  <2>5. \A ou \in OUs : Named(gplink'[ou]) \subseteq Named(gplink[ou]) \ {g}
    BY <2>3, <2>4
  <2> QED
    BY <1>2, <2>5, LegalState
<1>4. Server'.gpos = gpos' /\ Server'.gplink = gplink' /\ Server.gpos = gpos
  BY DEF Server
<1>5. LegalServer(Server')
  BY <1>3, <1>4 DEF LegalServer
<1>6. /\ scope' = ScopeAfterDeleting(item)
      /\ \E v \in DeletedItem(item, Console, Server', ou_links) :
            Show([v EXCEPT !.tree = DeleteItemsOf(v.tree, g)])
  BY <1>1, <1>2 DEF DeletePolicyItems
<1>7. PICK v \in DeletedItem(item, Console, Server', ou_links) :
        Show([v EXCEPT !.tree = DeleteItemsOf(v.tree, g)])
  BY <1>6
<1>8. scope' = AllPoliciesItem
  BY <1>1, <1>6, ItemShapes DEF ScopeAfterDeleting, ParentItem
<1>9. IsView(v) /\ TreeOK(v.tree)
  BY <1>6, <1>7, DeletingCurrent DEF ContentInv
<1>10. tree' = DeleteItemsOf(v.tree, g)
  BY <1>7, <1>9 DEF Show, IsView, View
<1>11. \A p \in Parents, h \in GPOs :
        v.tree.items[p][h] > 0 => h \in gpos
  <2>1. PICK w \in IF scope = item
                   THEN Selecteds(AllPoliciesItem, Console, Server', ou_links) ELSE {Console} :
            v = [w EXCEPT !.tree = DeleteItem(w.tree, AllPolicies, g)]
    BY <1>7, ItemShapes DEF DeletedItem, ParentItem
  <2>2. TreeOK(tree) /\ Console.tree = tree /\ IsView(Console)
    BY CurrentConsole, ConsoleIsView DEF ContentInv, CurrentInv
  <2>3. scope = item => AllPolicies \in tree.fetched
    BY ItemShapes DEF ContentInv, CurrentInv, InTree, TreeOK
  <2>4. w = View(tree, links, results)
    BY <2>1, <2>2, <2>3, ItemShapes DEF Selecteds, Console, View
  <2>5. v.tree = DeleteItem(tree, AllPolicies, g)
    BY <2>1, <2>4 DEF View
  <2>6. LegalTree(v.tree, Server)
    BY <2>2, <2>5, DeleteItemLegal DEF Legal
  <2> QED
    BY <1>4, <2>6 DEF LegalTree
<1>12. \A p \in Parents, h \in GPOs :
        tree'.items[p][h] = IF h = g THEN 0 ELSE v.tree.items[p][h]
  <2> DEFINE rows == [p \in Parents |-> [v.tree.items[p] EXCEPT ![g] = 0]]
             u == [v.tree EXCEPT !.items = rows]
  <2>1. tree' = u
    BY <1>10 DEF DeleteItemsOf
  <2>2. \A p \in Parents, h \in GPOs : rows[p][h] = IF h = g THEN 0 ELSE v.tree.items[p][h]
    BY <1>9 DEF TreeOK
  <2> HIDE DEF rows
  <2>3. u.items = rows
    BY <1>9 DEF TreeOK
  <2> QED
    BY <2>1, <2>2, <2>3
<1>13. LegalTree(tree', Server')
  BY <1>2, <1>4, <1>11, <1>12 DEF LegalTree
<1>14. LegalLinks(links', scope', Server')
  BY <1>8, ItemShapes DEF LegalLinks
<1> QED
  BY <1>5, <1>13, <1>14 DEF Legal

\* The table writes what it holds, or less.
LEMMA TableLegal ==
    ASSUME ContentInv, Legal, Faults = {}, scope.type = "PolicyOU",
           UNCHANGED <<gpos, scope>>, NEW new, Named(new) \subseteq Named(links.gplink),
           NEW success \in EditOutcomes, Replace(links.ou, new, success),
           links'.gplink = new \/ UNCHANGED links,
           LegalTree(tree, Server) => LegalTree(tree', Server)
    PROVE  Legal'
<1>1. Named(links.gplink) \subseteq gpos
  BY LegalState DEF Legal, LegalLinks
<1>2. /\ LegalServer(Server') /\ Server'.gpos = Server.gpos /\ Server.gpos = gpos
  BY <1>1, WrittenLegally
<1>3. Named(links'.gplink) \subseteq gpos
  BY <1>1
<1>4. LegalLinks(links', scope', Server')
  BY <1>2, <1>3 DEF LegalLinks
<1>5. LegalTree(tree', Server')
  BY <1>2 DEF Legal, LegalTree
<1> QED
  BY <1>2, <1>4, <1>5 DEF Legal

LEMMA RemovesFirstLegal ==
    ASSUME NEW t, TreeOK(t), NEW server, LegalTree(t, server), NEW ou, NEW g,
           NEW u \in RemovesFirst(t, ou, g)
    PROVE  TreeOK(u) /\ LegalTree(u, server)
<1>1. u = t \/ \E p : u = DeleteItem(t, p, g)
  BY DEF RemovesFirst
<1> QED
  BY <1>1, DeleteItemTree, DeleteItemLegal

LEMMA ModifiedLegally ==
    ASSUME ContentInv, Faults = {}, NEW new, ModifyGplink(new)
    PROVE  \E success \in EditOutcomes : Replace(links.ou, new, success) /\ links'.gplink = new
<1>1. PICK success \in WriteOutcomes, rows \in RowSets(new, Server) :
        /\ Replace(links.ou, new, success)
        /\ links' = [links EXCEPT !.gplink = new, !.rows = rows]
  BY DEF ModifyGplink
<1>2. links'.gplink = new
  BY <1>1 DEF ContentInv, Typed, LinksOK, LinksRecord
<1> QED
  BY <1>1, <1>2, NothingFails

LEMMA LinksRemoveLegal ==
    ASSUME ContentInv, Legal, Faults = {}, NEW g \in GPOs, NEW h \in GPOs, LinksRemove(g, h)
    PROVE  Legal'
<1> DEFINE str == links.gplink
<1>1. /\ scope.type = "PolicyOU" /\ UNCHANGED <<gpos, scope>> /\ str \in GplinkString
  BY DEF LinksRemove, LinksShown, ContentInv, Typed, LinksOK
<1> DEFINE one == Removing(str, g)
           new == Removing(one, h)
<1>2. one \in GplinkString /\ Named(one) = Named(str) \ {g}
  BY <1>1, EditedStrings
<1>3. ModifyGplink(new)
  BY DEF LinksRemove
<1> HIDE DEF one
<1>4. Named(new) = Named(one) \ {h}
  BY <1>2, EditedStrings
<1> HIDE DEF new
<1>5. PICK success \in EditOutcomes : Replace(links.ou, new, success) /\ links'.gplink = new
  BY ModifiedLegally, <1>3
<1>6. ASSUME LegalTree(tree, Server) PROVE LegalTree(tree', Server)
  <2>1. \/ tree' \in RemovesFirst(tree, links.ou, g)
        \/ \E t \in RemovesFirst(tree, links.ou, g) : tree' \in RemovesFirst(t, links.ou, h)
    BY DEF LinksRemove
  <2>2. TreeOK(tree)
    BY DEF ContentInv, CurrentInv
  <2> QED
    BY <1>6, <2>1, <2>2, RemovesFirstLegal
<1>7. Named(new) \subseteq Named(links.gplink)
  BY <1>2, <1>4
<1> QED
  BY <1>1, <1>5, <1>6, <1>7, TableLegal

LEMMA LinksMoveLegal ==
    ASSUME ContentInv, Legal, Faults = {}, NEW g \in GPOs, LinksMove(g)
    PROVE  Legal'
<1> DEFINE str == links.gplink
<1>1. /\ scope.type = "PolicyOU" /\ UNCHANGED <<gpos, scope>> /\ str \in GplinkString
  BY DEF LinksMove, LinksShown, ContentInv, Typed, LinksOK
<1>2. PICK new \in {MovingUp(str, g), MovingDown(str, g)} : ModifyGplink(new)
  BY DEF LinksMove
<1>3. Named(MovingUp(str, g)) = Named(str) /\ Named(MovingDown(str, g)) = Named(str)
  BY <1>1, EditedStrings
<1>4. PICK success \in EditOutcomes : Replace(links.ou, new, success) /\ links'.gplink = new
  BY ModifiedLegally, <1>2
<1>5. Named(new) \subseteq Named(links.gplink) /\ tree' = tree
  BY <1>2, <1>3 DEF LinksMove
<1> QED
  BY <1>1, <1>4, <1>5, TableLegal

LEMMA LinksToggleLegal ==
    ASSUME ContentInv, Legal, Faults = {}, NEW g \in GPOs, NEW o \in Options, LinksToggle(g, o)
    PROVE  Legal'
<1> DEFINE str == links.gplink
<1>1. /\ scope.type = "PolicyOU" /\ UNCHANGED <<gpos, scope>> /\ str \in GplinkString
  BY DEF LinksToggle, LinksShown, ContentInv, Typed, LinksOK
<1> DEFINE checked == o \notin links.rows[g]
           new == Setting(str, g, o, checked)
           rows == [links.rows EXCEPT ![g] = IF checked THEN @ \cup {o} ELSE @ \ {o}]
<1>2. PICK success \in EditOutcomes :
          /\ Replace(links.ou, new, success)
          /\ IF success
             THEN /\ links' = [links EXCEPT !.rows = rows, !.gplink = new]
                  /\ Cache(scope.at, new)
             ELSE /\ links' = [links EXCEPT !.rows = rows]
                  /\ UNCHANGED ou_links
  BY DEF LinksToggle
<1>3. success = TRUE
  BY NothingFails
<1> HIDE DEF rows
<1>4. links'.gplink = new
  BY <1>2, <1>3 DEF ContentInv, Typed, LinksOK, LinksRecord
<1>5. o \in GplinkOption /\ checked \in BOOLEAN
  BY PolicyLinksAssumption
<1> HIDE DEF checked
<1>6. Named(new) = Named(str)
  BY <1>1, <1>5, EditedStrings
<1>7. tree' = tree
  BY DEF LinksToggle
<1>8. Replace(links.ou, new, success)
  BY <1>2
<1> HIDE DEF new
<1> QED
  BY <1>1, <1>4, <1>6, <1>7, <1>8, TableLegal

LEMMA LinksReorderLegal ==
    ASSUME ContentInv, Legal, Faults = {}, NEW g \in GPOs, NEW h \in GPOs, NEW to \in Nat,
           LinksReorder(g, h, to)
    PROVE  Legal'
<1> DEFINE str == links.gplink
<1>1. /\ scope.type = "PolicyOU" /\ UNCHANGED <<gpos, scope>> /\ str \in GplinkString
  BY DEF LinksReorder, LinksShown, ContentInv, Typed, LinksOK
<1> DEFINE new == IF g = h THEN DraggingOne(str, g, to) ELSE DraggingTwo(str, g, h, to)
<1>2. PICK success \in EditOutcomes :
          /\ Replace(links.ou, new, success)
          /\ IF success
             THEN links' = [links EXCEPT !.gplink = new] /\ Cache(scope.at, new)
             ELSE UNCHANGED <<links, ou_links>>
  BY DEF LinksReorder
<1>3. Named(new) = Named(str)
  BY <1>1, DraggedStrings
<1> HIDE DEF new
<1>4. links'.gplink = new \/ UNCHANGED links
  BY <1>2 DEF ContentInv, Typed, LinksOK, LinksRecord
<1>5. tree' = tree
  BY DEF LinksReorder
<1> QED
  BY <1>1, <1>2, <1>3, <1>4, <1>5, TableLegal

LEMMA LegalKept ==
    ASSUME Legal, UNCHANGED <<gplink, gpos, tree, links, scope>>
    PROVE  Legal'
BY DEF Legal, Server

LEMMA LooksLegal ==
    ASSUME ContentInv, Legal, Faults = {}, Looks
    PROVE  Legal'
<1>1. Server' = Server /\ LegalServer(Server) /\ LegalServer(Server')
  BY DEF Looks, Select, RefreshOU, RefreshAllPolicies, RefreshPolicy, Looking, serverVars,
         Server, Legal
<1>2. TreeOK(tree) /\ Console.tree = tree /\ IsView(Console) /\ LegalTree(tree, Server)
  BY CurrentConsole, ConsoleIsView DEF ContentInv, CurrentInv, Legal
<1>3. CASE \E item \in Items : Select(item)
  <2>1. PICK item \in Items : Select(item)
    BY <1>3
  <2>2. PICK v \in Selecteds(item, Console, Server, ou_links) : Show(v)
    BY <2>1 DEF Select
  <2>3. InTree(tree, item) /\ scope' = item
    BY <2>1, CurrentItems DEF ContentInv, Select
  <2>4. LegalView(v, item, Server)
    BY <1>1, <1>2, <2>2, <2>3, SelectedsLegal
  <2> QED
    BY <1>1, <2>2, <2>3, <2>4 DEF Legal, LegalView, Show
<1>4. CASE RefreshOU
  <2> DEFINE start == [view |-> Console, scope |-> scope]
  <2>1. PICK c \in Refreshes(start, scope.at, Server, ou_links) :
            Show(c.view) /\ scope' = c.scope
    BY <1>4 DEF RefreshOU
  <2>2. scope.at \in OUs /\ scope.at \in tree.shown
    BY <1>4, CurrentItems DEF RefreshOU, ContentInv
  <2>3. ConsoleOK(start) /\ start.view.tree = tree
    BY CurrentConsole DEF ContentInv
  <2> HIDE DEF start
  <2>4. LegalView(c.view, c.scope, Server)
    BY <1>1, <1>2, <2>1, <2>2, <2>3, RefreshesLegal
  <2> QED
    BY <1>1, <2>1, <2>4 DEF Legal, LegalView, Show
<1>5. CASE RefreshAllPolicies
  <2>1. tree' \in Listed(tree) /\ Server.gpos = gpos /\ UNCHANGED <<scope, links>>
    BY <1>5 DEF RefreshAllPolicies, Listed, Server
  <2>2. InTree(tree, scope)
    BY DEF ContentInv, CurrentInv
  <2>3. LegalTree(tree', Server)
    BY <1>2, <2>1, <2>2, ListedLegal
  <2> QED
    BY <1>1, <2>1, <2>3 DEF Legal
<1>6. CASE RefreshPolicy
  BY <1>6, LegalKept DEF RefreshPolicy, Looking, serverVars
<1> QED
  BY <1>3, <1>4, <1>5, <1>6 DEF Looks

LEMMA LegalStep ==
    ASSUME CleanDeletes, ContentInv, Legal, [Next]_vars
    PROVE  Legal'
<1>1. Faults = {} /\ UserOps \subseteq FreshOps
  BY DEF CleanDeletes
<1>2. CASE Looks
  BY <1>1, <1>2, LooksLegal
<1>3. CASE \E g, h \in GPOs : LinkGpo(g, h)
  <2>1. PICK g \in GPOs, h \in GPOs : LinkGpo(g, h)
    BY <1>3
  <2>2. /\ scope.at \in OUs /\ LinkTo(scope.at, g, h) /\ UNCHANGED <<gpos, scope>>
        /\ {g, h} \subseteq gpos
    BY <2>1, CurrentItems DEF LinkGpo, ContentInv
  <2> QED
    BY <1>1, <2>2, LinkToLegal
<1>4. CASE \E g, h \in GPOs : \E ou \in OUs : DropPolicy(ou, g, h)
  <2>1. PICK g \in GPOs, h \in GPOs : \E ou \in OUs : DropPolicy(ou, g, h)
    BY <1>4
  <2>2. \E ou \in OUs : LinkTo(ou, g, h)
    BY <2>1 DEF DropPolicy
  <2>3. {g, h} \subseteq gpos /\ UNCHANGED <<gpos, scope>>
    BY <2>1, ChosenLegally DEF DropPolicy
  <2> QED
    BY <1>1, <2>2, <2>3, LinkToLegal
<1>5. CASE \/ \E g \in GPOs, ou1, ou2 \in OUs : AddLink(g, ou1, ou2) \/ FindAddLink(g, ou1, ou2)
           \/ \E g \in GPOs : DropOU(g)
  <2>1. ASSUME NEW g \in GPOs, DropOU(g)
        PROVE  g \in gpos /\ scope.at \in OUs
    BY <2>1, CurrentItems DEF DropOU, ContentInv, Legal, LegalTree, Server
  <2>2. \E g \in GPOs, ou1, ou2 \in OUs :
            (\E b : AddLinks(g, ou1, ou2, b)) /\ UNCHANGED gpos /\ g \in gpos
    BY <1>5, <2>1, ChosenLegally DEF AddLink, FindAddLink, DropOU
  <2> QED
    BY <1>1, <2>2, AddLinksLegal
<1>6. CASE RemoveLink
  BY <1>1, <1>6, RemoveLinkLegal
<1>7. CASE \E g \in GPOs : DeletePolicy(g)
  BY <1>1, <1>7, DeletePolicyLegal
<1>8. CASE TableEdits
  <2>1. /\ \A ou : ~ ResultsDelete(ou)
        /\ \A ou, o, checked : ~ ResultsToggle(ou, o, checked)
    BY <1>1 DEF ResultsDelete, ResultsToggle, ResultsShown, Edit, FreshOps
  <2>2. CASE \E g, h \in GPOs :
                LinksRemove(g, h) \/ \E to \in 1..Cardinality(GPOs) : LinksReorder(g, h, to)
    <3>1. PICK g \in GPOs, h \in GPOs :
            LinksRemove(g, h) \/ \E to \in 1..Cardinality(GPOs) : LinksReorder(g, h, to)
      BY <2>2
    <3>2. \A to \in 1..Cardinality(GPOs) : to \in Nat
      OBVIOUS
    <3>3. 0 \in Nat
      OBVIOUS
    <3> QED
      BY <1>1, <3>1, <3>2, <3>3, LinksRemoveLegal, LinksReorderLegal
  <2>3. CASE \E g \in GPOs : LinksMove(g)
    BY <1>1, <2>3, LinksMoveLegal
  <2>4. CASE \E g \in GPOs, o \in Options : LinksToggle(g, o)
    BY <1>1, <2>4, LinksToggleLegal
  <2> QED
    BY <1>8, <2>1, <2>2, <2>3, <2>4 DEF TableEdits
<1>9. CASE RefreshDomain
  <2>1. /\ UNCHANGED <<gplink, gpos, links>> /\ scope' = OtherItem
        /\ tree' = EmptyTree \/ tree' = [EmptyTree EXCEPT !.shown = {Domain}]
    BY <1>9 DEF RefreshDomain, Manager!Update
  <2>2. tree'.items = [p \in Parents |-> NoItems]
    BY <2>1 DEF EmptyTree
  <2>3. Server' = Server
    BY <2>1 DEF Server
  <2>4. LegalTree(tree', Server')
    BY <2>2 DEF LegalTree, NoItems
  <2> QED
    BY <2>1, <2>3, <2>4, ItemShapes DEF Legal, LegalLinks
<1>10. CASE CacheUpdates
  <2>1. UNCHANGED <<gplink, gpos, tree, links, scope>>
    BY <1>10 DEF CacheUpdates, uiVars, Manager!SearchRuns, Manager!Slots, Manager!ResultsSlot,
                 Manager!FinishedSlot
  <2> QED
    BY <2>1, LegalKept
<1>11. CASE UNCHANGED vars
  BY <1>11, LegalKept DEF vars, serverVars, uiVars
<1>12. /\ \A g : ~ FindDeletePolicy(g)
       /\ \A o, checked : ~ ChangeOption(o, checked)
       /\ ~ OtherAdmin
  BY <1>1 DEF FindDeletePolicy, ChangeOption, OtherAdmin, Edit, FreshOps
<1> QED
  BY <1>2, <1>3, <1>4, <1>5, <1>6, <1>7, <1>8, <1>9, <1>10, <1>11, <1>12 DEF Next, TreeEdits

\* "Delete" of a policy in "All policies" deletes "this policy and all of it's
\* links", for good: no later edit brings a link of a deleted policy back.
THEOREM CleanDeletesLinks ==
    ASSUME CleanDeletes
    PROVE  Spec => []DeletedWithLinks
<1>1. Init => ContentInv /\ Legal
  <2> SUFFICES ASSUME Init PROVE Legal
    BY ContentInit
  <2>1. \A ou \in OUs : gplink[ou] \in InitStrings /\ gpos = GPOs
    BY DEF Init
  <2>2. \A ou \in OUs : Named(gplink[ou]) \subseteq gpos
    BY <2>1, StringNames, PolicyLinksAssumption
  <2>3. tree.items = [p \in Parents |-> NoItems] /\ scope = OtherItem
    BY DEF Init, EmptyTree
  <2> QED
    BY <2>2, <2>3, ItemShapes DEF Legal, LegalServer, LegalTree, LegalLinks, Server, NoItems
<1>2. ContentInv /\ Legal /\ [Next]_vars => ContentInv' /\ Legal'
  BY ContentStep, LegalStep
<1>3. Legal => DeletedWithLinks
  BY DEF Legal, LegalServer, Server, DeletedWithLinks
<1> QED
  BY <1>1, <1>2, <1>3, PTL DEF Spec
=============================================================================
