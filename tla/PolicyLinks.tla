----------------------------- MODULE PolicyLinks -----------------------------
(***************************************************************************)
(* Everything in the console that shows or edits the links between OUs and *)
(* group policies: the policy tree (policy_ou_impl.cpp, policy_impl.cpp,   *)
(* all_policies_folder_impl.cpp), the "Linked policies" table of an OU     *)
(* (linked_policies.cpp), the "OU's linked to this policy" table of a      *)
(* policy (policy.cpp), the find dialog's actions (found_policy_impl.cpp), *)
(* and the cache they share (GPLinkManager).                               *)
(*                                                                         *)
(* Five places hold a copy of the same fact: the attribute on the server,  *)
(* the cache, the tree's items, the object behind the first table and the  *)
(* strings kept in the rows of the second.  Each handler refreshes some of *)
(* them.  A handler runs to its end in the main thread, talking to the     *)
(* server synchronously; the search thread of the cache and the other      *)
(* administrators act between handlers.                                    *)
(*                                                                         *)
(* A handler that takes a choice of several is bounded: two policies, OUs  *)
(* or rows where it edits them one after the other; "Add link" and         *)
(* "Delete" are of one policy at a time.  Links that the user makes of the *)
(* domain while the policy root shows it in its list are left out.         *)
(*                                                                         *)
(* Every AdInterface a handler creates may fail to connect, every read may *)
(* come back empty and every write may fail, if Faults says so.            *)
(***************************************************************************)
EXTENDS Gplink, FiniteSets

CONSTANTS
    OUs, Domain,        \* the OUs, the domain among them
    Below,              \* Below[ou]: the OUs under ou, at any depth
    AllPolicies,        \* the "All policies" folder under the domain
    NoGPO,              \* no policy: an empty QString
    Options,            \* the options the user changes
    InitStrings,        \* gPLink attributes to start from
    StartLoaded,        \* TRUE: start after the first update of the cache
    UserOps,            \* the operations the user performs
    Faults, PageSize, DisplayLimits,
    MaxWrites, MaxUpdates

Ops == {"LinkGpo", "DropPolicy", "AddLink", "AddLinkTwo", "DropOU", "FindAddLink",
        "RemoveLink",
        "DeletePolicy", "FindDeletePolicy", "ChangeOption", "LinksToggle",
        "LinksRemove", "LinksMove", "LinksReorder", "ResultsToggle",
        "ResultsDelete", "RefreshDomain", "OtherAdmin"}

ASSUME PolicyLinksAssumption ==
    /\ Domain \in OUs
    /\ Below \in [OUs -> SUBSET OUs]
    /\ \A ou \in OUs : ou \notin Below[ou]
    /\ AllPolicies \notin OUs /\ NoGPO \notin GPOs
    /\ Options \subseteq GplinkOption
    /\ InitStrings \subseteq GplinkString
    /\ StartLoaded \in BOOLEAN
    /\ UserOps \subseteq Ops
    /\ MaxWrites \in Nat /\ MaxUpdates \in Nat

VARIABLES
    gplink,             \* the server: gPLink of every OU
    gpos,               \* the server: the policies that exist
    tree,               \* the policy tree of the console
    scope,              \* its current scope item
    links,              \* LinkedPoliciesWidget
    results,            \* PolicyResultsWidget
    ou_links, is_updated, failed_to_update, thread, events,
    writes, updates                 \* of the cache, see GPLinkManager

Manager == INSTANCE GPLinkManager 
    WITH Strings <- GplinkString, NoLinks <- << >>, touched <- {}

serverVars == <<gplink, gpos>>
uiVars == <<tree, scope, links, results>>
updateVars == <<is_updated, failed_to_update, thread, events, updates>>
vars == <<serverVars, uiVars, ou_links, updateVars, writes>>

-----------------------------------------------------------------------------
(* Links as attribute values.                                              *)

Adding(str, g) == to_string(add(Parse(str), g))
Removing(str, g) == to_string(remove(Parse(str), g))
Setting(str, g, o, value) == to_string(set_option(Parse(str), g, o, value))
MovingUp(str, g) == to_string(move_up(Parse(str), g))
MovingDown(str, g) == to_string(move_down(Parse(str), g))

\* dropMimeData: one row, or two that take their places one after the other,
\* each moved from the order it had before the drop.
DraggingOne(str, g, to) ==
    to_string(move(Parse(str), get_gpo_order(Parse(str), g), to))

DraggingTwo(str, g, h, to) ==
    LET link == Parse(str)
        next == IF to < Len(link.gpo_list) THEN to + 1 ELSE to
    IN  to_string(move(move(link, get_gpo_order(link, g), to),
                       get_gpo_order(link, h), next))

-----------------------------------------------------------------------------
(* The server as a handler meets it.                                       *)

Server == [gplink |-> gplink, gpos |-> gpos]

MayFail(fault, onFailure) == IF fault \in Faults THEN {onFailure} ELSE {}

\* search_object(ou_dn) and its gPLink.
Reads(server, ou) == {server.gplink[ou]} \cup MayFail("read", << >>)

\* The searches that look policies up: those that exist, or fewer.
Founds(server) == IF "read" \in Faults THEN SUBSET server.gpos ELSE {server.gpos}

\* attribute_replace_string(): whether it succeeds.
WriteOutcomes == {TRUE} \cup MayFail("write", FALSE)

\* Whether an edit gets done by a handler that leaves everything alone both
\* when it cannot connect and when the write fails.
EditOutcomes == WriteOutcomes \cup MayFail("connect", FALSE)

-----------------------------------------------------------------------------
(* The policy tree: which OU and folder items there are, which of them     *)
(* were fetched, and how many items each of them has for each policy.      *)

Parents == OUs \cup {AllPolicies}

NoItems == [g \in GPOs |-> 0]

EmptyTree == [shown |-> {}, fetched |-> {}, items |-> [p \in Parents |-> NoItems]]

Folder(ou) == IF ou = Domain THEN {AllPolicies} ELSE {}

Subtree(ou) == Below[ou] \cup Folder(ou)

ChildOUs(ou) == {c \in Below[ou] : \A d \in Below[ou] : c \notin Below[d]}

\* ConsoleWidget::delete_children().
DeleteChildren(t, ou) ==
    [shown   |-> t.shown \ Subtree(ou),
     fetched |-> t.fetched \ Subtree(ou),
     items   |-> [p \in Parents |-> IF p \in Subtree(ou) \cup {ou}
                                    THEN NoItems ELSE t.items[p]]]

\* Fault: items are added under a parent that was not fetched.
AddItemsAnyway(t, p, S) ==
    [t EXCEPT !.items[p] = [g \in GPOs |-> IF g \in S THEN @[g] + 1 ELSE @[g]]]

\* *_add_objects_to_console(): nothing under a parent that was not fetched.
AddItems(t, p, S) ==
    IF p \notin t.fetched THEN t
    ELSE [t EXCEPT !.items[p] = [g \in GPOs |-> IF g \in S THEN @[g] + 1 ELSE @[g]]]

\* Fault: an item is deleted that is not there.
DeleteItemAnyway(t, p, g) == [t EXCEPT !.items[p][g] = @ - 1]

DeleteItem(t, p, g) ==
    IF t.items[p][g] = 0 THEN t ELSE [t EXCEPT !.items[p][g] = @ - 1]

\* Fault: the items under OUs stay.
DeleteItemOfFolder(t, g) == [t EXCEPT !.items[AllPolicies][g] = 0]

DeleteItemsOf(t, g) ==
    [t EXCEPT !.items = [p \in Parents |-> [t.items[p] EXCEPT ![g] = 0]]]

\* set_item_fetched(), and the items of OUs and of the folder.
Marked(t, p) == [t EXCEPT !.fetched = @ \cup {p}]
Showing(t, S) == [t EXCEPT !.shown = @ \cup S]

\* PolicyOUImpl::fetch(): child OUs, "All policies" under the domain, and the
\* policies linked to the OU.
Fetched(t, ou, children, str, found) ==
    AddItems(Showing(Marked(t, ou), children \cup Folder(ou)), ou, Named(str) \cap found)

Fetches(t, ou, server) ==
    {Fetched(t, ou, children, str, found) :
        children \in {ChildOUs(ou)} \cup MayFail("read", {}),
        str \in Reads(server, ou), found \in Founds(server)}
    \cup MayFail("connect", Marked(t, ou))

\* AllPoliciesFolderImpl::fetch().
FetchesAllPolicies(t, server) ==
    {AddItems(Marked(t, AllPolicies), AllPolicies, found) : found \in Founds(server)}
    \cup MayFail("connect", Marked(t, AllPolicies))

-----------------------------------------------------------------------------
(* LinkedPoliciesWidget: ou_dn, its copy of the attribute, and the rows on *)
(* display with the check boxes of each.  from is history: the OU whose    *)
(* attribute the copy was read from.                                       *)

\* update_link_items(): a row for every linked policy that was found.
Rows(str, found) ==
    [g \in Named(str) \cap found |-> OptionBits(Parse(str), g)]

RowSets(str, server) ==
    {Rows(str, found) : found \in Founds(server)} \cup MayFail("connect", Rows(<< >>, {}))

\* update(): ou_dn changes before the connection is tried.
LinksUpdates(w, ou, server) ==
    (UNION {{[ou |-> ou, gplink |-> str, rows |-> rows, from |-> ou] :
                rows \in RowSets(str, server)} : str \in Reads(server, ou)})
    \cup MayFail("connect", [w EXCEPT !.ou = ou])

-----------------------------------------------------------------------------
(* PolicyResultsWidget: the policy and a row for every OU linked to it,    *)
(* each with the attribute as the cache had it.                            *)

linked_ou_list(cache, g) == {ou \in OUs : g \in Named(cache[ou])}

\* Fault: a policy that is on display already is not loaded again.
ResultsUpdatesOnce(w, g, cache) ==
    IF w.gpo = g THEN {w}
    ELSE {[gpo |-> g, rows |-> [ou \in linked_ou_list(cache, g) |-> cache[ou]]]}

\* update(): gpo changes before the connection is tried.
ResultsUpdates(w, g, cache) ==
    {[gpo |-> g, rows |-> [ou \in linked_ou_list(cache, g) |-> cache[ou]]]}
    \cup MayFail("connect", [w EXCEPT !.gpo = g])

-----------------------------------------------------------------------------
(* The current scope item.                                                 *)

\* No item, or one outside the policy tree.
OtherItem == [type |-> "Other", at |-> Domain, gpo |-> NoGPO]
OUItem(ou) == [type |-> "PolicyOU", at |-> ou, gpo |-> NoGPO]
AllPoliciesItem == [type |-> "AllPoliciesFolder", at |-> AllPolicies, gpo |-> NoGPO]
PolicyItem(p, g) == [type |-> "Policy", at |-> p, gpo |-> g]

ParentItem(p) == IF p = AllPolicies THEN AllPoliciesItem ELSE OUItem(p)

\* The rest of the console as one value, for handlers made of several steps.
View(t, w, r) == [tree |-> t, links |-> w, results |-> r]

\* on_current_scope_item_changed(): selected_as_scope(), then the first fetch.
Selecteds(item, v, server, cache) ==
    CASE item.type = "PolicyOU" ->
            {View(t, w, v.results) :
                w \in LinksUpdates(v.links, item.at, server),
                t \in IF item.at \in v.tree.fetched THEN {v.tree}
                      ELSE Fetches(v.tree, item.at, server)}
      [] item.type = "AllPoliciesFolder" ->
            {View(t, v.links, v.results) :
                t \in IF AllPolicies \in v.tree.fetched THEN {v.tree}
                      ELSE FetchesAllPolicies(v.tree, server)}
      [] item.type = "Policy" ->
            {View(v.tree, v.links, r) : r \in ResultsUpdates(v.results, item.gpo, cache)}
            \cup MayFail("connect", v)
      [] OTHER -> {v}

\* Deleting an item selects its parent first if the item is the current one.
DeletedItem(item, v, server, cache) ==
    {[u EXCEPT !.tree = DeleteItem(@, item.at, item.gpo)] :
        u \in IF scope = item THEN Selecteds(ParentItem(item.at), v, server, cache)
              ELSE {v}}

\* Fault: the deleted item stays current.
ScopeKept(item) == scope

ScopeAfterDeleting(item) == IF scope = item THEN ParentItem(item.at) ELSE scope

Console == View(tree, links, results)

Show(v) == tree' = v.tree /\ links' = v.links /\ results' = v.results

-----------------------------------------------------------------------------
(* Looking around: selecting items, refreshing.                            *)

Items ==
    {OUItem(ou) : ou \in tree.shown \cap OUs}
    \cup {AllPoliciesItem : p \in tree.shown \cap {AllPolicies}}
    \cup UNION {{PolicyItem(p, g) : g \in {h \in GPOs : tree.items[p][h] > 0}} :
                p \in Parents}

Looking == UNCHANGED <<serverVars, ou_links, updateVars, writes>>

Select(item) ==
    /\ item \in Items /\ item # scope
    /\ scope' = item
    /\ \E v \in Selecteds(item, Console, Server, ou_links) : Show(v)
    /\ Looking

\* Removing the children of ou: a current item among them gives way to ou, and
\* a current item further down is lost, with nothing selected in its place.
IsChild(item, ou) ==
    \/ item.type = "Policy" /\ item.at = ou
    \/ item.type = "PolicyOU" /\ item.at \in ChildOUs(ou)
    \/ item.type = "AllPoliciesFolder" /\ ou = Domain

WithoutChildren(c, ou, server, cache) ==
    LET view == [c.view EXCEPT !.tree = DeleteChildren(@, ou)]
    IN  IF IsChild(c.scope, ou)
        THEN {[view |-> v, scope |-> OUItem(ou)] :
                v \in Selecteds(OUItem(ou), view, server, cache)}
        ELSE {[view |-> view, scope |-> IF c.scope.at \in Subtree(ou)
                                        THEN OtherItem ELSE c.scope]}

\* PolicyOUImpl::refresh() of a console in state c = [view, scope].
Refreshes(c, ou, server, cache) ==
    UNION {{[view |-> View(t, w, r.view.results), scope |-> r.scope] :
                t \in Fetches(r.view.tree, ou, server),
                w \in LinksUpdates(r.view.links, ou, server)} :
           r \in WithoutChildren(c, ou, server, cache)}

RefreshOU ==
    /\ scope.type = "PolicyOU" /\ scope.at \in tree.fetched
    /\ \E c \in Refreshes([view |-> Console, scope |-> scope], scope.at, Server, ou_links) :
            Show(c.view) /\ scope' = c.scope
    /\ Looking

\* AllPoliciesFolderImpl::refresh().
RefreshAllPolicies ==
    /\ scope = AllPoliciesItem
    /\ tree' \in FetchesAllPolicies([tree EXCEPT !.items[AllPolicies] = NoItems], Server)
    /\ UNCHANGED <<scope, links, results>>
    /\ Looking

\* PolicyImpl::refresh().
RefreshPolicy ==
    /\ scope.type = "Policy"
    /\ results' \in ResultsUpdates(results, scope.gpo, ou_links)
    /\ UNCHANGED <<tree, scope, links>>
    /\ Looking

-----------------------------------------------------------------------------
(* Edits.                                                                  *)

Edit(op) == op \in UserOps /\ writes < MaxWrites /\ writes' = writes + 1

\* attribute_replace_string(ou_dn, ATTRIBUTE_GPLINK, str).  It reads the old
\* value first and reports success without writing if both are empty, which a
\* failed read makes the old value look.
Replace(ou, str, success) ==
    \/ gplink' = IF success THEN [gplink EXCEPT ![ou] = str] ELSE gplink
    \/ "read" \in Faults /\ success /\ str = << >> /\ UNCHANGED gplink

\* set_gplink(ou_dn, str).
Cache(ou, str) == ou_links' = [ou_links EXCEPT ![ou] = str]

\* The policies a handler acts on: the current item, or, while "All policies"
\* is current, those selected in the list of its children.  The other items
\* policies are under show widgets instead of such a list.
ChosenPolicies ==
    IF scope = AllPoliciesItem THEN {g \in GPOs : tree.items[AllPolicies][g] > 0}
    ELSE {scope.gpo} \cap GPOs

\* refresh_scope() of the current "All policies".
Listed(t) ==
    IF scope = AllPoliciesItem
    THEN FetchesAllPolicies([t EXCEPT !.items[AllPolicies] = NoItems], Server)
    ELSE {t}

\* Fault: the links table is not updated.
LinkToQuietly(ou, g, h) ==
    \E str \in Reads(Server, ou), success \in EditOutcomes :
        LET new == Adding(Adding(str, g), h)
            added == Named(new) \ Named(str)
        IN  /\ Replace(ou, new, success)
            /\ IF success
               THEN /\ Cache(ou, new)
                    /\ \E found \in Founds(Server) :
                            tree' \in Listed(AddItems(tree, ou, added \cap found))
                    /\ UNCHANGED links
               ELSE tree' \in Listed(tree) /\ UNCHANGED <<ou_links, links>>

\* PolicyOUImpl::link_gpo_to_ou() of one or two policies, and the refresh of
\* "All policies" after policies were dragged from it.
LinkTo(ou, g, h) ==
    \E str \in Reads(Server, ou), success \in EditOutcomes :
        LET new == Adding(Adding(str, g), h)
            added == Named(new) \ Named(str)
        IN  /\ Replace(ou, new, success)
            /\ IF success
               THEN /\ Cache(ou, new)
                    /\ \E found \in Founds(Server) :
                            tree' \in Listed(AddItems(tree, ou, added \cap found))
                    /\ IF scope.type = "PolicyOU"
                       THEN links' \in LinksUpdates(links, scope.at, Server')
                       ELSE UNCHANGED links
               ELSE tree' \in Listed(tree) /\ UNCHANGED <<ou_links, links>>

\* link_gpo(): "Link existing GPO" of the OU that is selected.
LinkGpo(g, h) ==
    /\ Edit("LinkGpo")
    /\ UNCHANGED <<gpos, scope, results, updateVars>>
    /\ scope.type = "PolicyOU" /\ {g, h} \subseteq gpos
    /\ LinkTo(scope.at, g, h)

\* PolicyOUImpl::drop() of one policy or two: the current item is refreshed,
\* even if no link was added.  A policy dragged in the tree is the current
\* item, and refreshing it updates its table.
DropPolicy(ou, g, h) ==
    /\ Edit("DropPolicy")
    /\ UNCHANGED <<gpos, scope, updateVars>>
    /\ {g, h} \subseteq ChosenPolicies /\ ou \in tree.shown \cap OUs
    /\ LinkTo(ou, g, h)
    /\ results' \in IF scope.type = "Policy"
                    THEN ResultsUpdates(results, scope.gpo, ou_links') ELSE {results}

\* apply_changes of policy_add_links() for one OU.  The items it adds first are
\* among the children that refresh_scope() deletes.
AddedTo(cs, ou, server, cache) ==
    UNION {IF ou \in c.view.tree.shown \cap c.view.tree.fetched
           THEN Refreshes(c, ou, server, cache) ELSE {c} : c \in cs}

\* policy_add_links() of one policy to one OU, or to two in this order.
\* results_widget tells whether there is a PolicyResultsWidget to update: it
\* is if it holds the policy that is selected.
AddLinks(g, ou1, ou2, results_widget) ==
    /\ \E str1 \in Reads(Server, ou1), str2 \in Reads(Server, ou2),
          ok1 \in WriteOutcomes, ok2 \in WriteOutcomes :
        LET new == [ou \in {ou1, ou2} |-> Adding(IF ou = ou1 THEN str1 ELSE str2, g)]
            ok == [ou \in {ou1, ou2} |-> IF ou = ou1 THEN ok1 ELSE ok2]
        IN  /\ gplink' = [ou \in OUs |-> IF ou \in {ou1, ou2} /\ ok[ou]
                                         THEN new[ou] ELSE gplink[ou]]
            /\ ou_links' = [ou \in OUs |-> IF ou \in {ou1, ou2}
                                           THEN new[ou] ELSE ou_links[ou]]
    /\ LET start == {[view |-> Console, scope |-> scope]}
           first == AddedTo(start, ou1, Server', ou_links')
           both == IF ou1 = ou2 THEN first ELSE AddedTo(first, ou2, Server', ou_links')
       IN  \E c \in both :
            /\ tree' = c.view.tree /\ links' = c.view.links /\ scope' = c.scope
            /\ results' \in IF /\ results_widget /\ g = c.view.results.gpo
                               /\ c.scope \in {AllPoliciesItem, PolicyItem(c.scope.at, g)}
                            THEN ResultsUpdates(c.view.results, g, ou_links')
                            ELSE {c.view.results}

\* "Add link" of a policy.
AddLink(g, ou1, ou2) ==
    /\ Edit(IF ou1 = ou2 THEN "AddLink" ELSE "AddLinkTwo")
    /\ UNCHANGED <<gpos, updateVars>>
    /\ g \in ChosenPolicies
    /\ AddLinks(g, ou1, ou2, TRUE)

\* PolicyImpl::drop(): the OU dragged, which is the current item, is dropped
\* on a policy in the tree.
DropOU(g) ==
    /\ Edit("DropOU")
    /\ UNCHANGED <<gpos, updateVars>>
    /\ scope.type = "PolicyOU"
    /\ \E p \in Parents : tree.items[p][g] > 0
    /\ AddLinks(g, scope.at, scope.at, TRUE)

\* "Add link" in the dialog that the domain's "Find GPO" opens; the console
\* behind it is its buddy.
FindAddLink(g, ou1, ou2) ==
    /\ Edit("FindAddLink")
    /\ UNCHANGED <<gpos, updateVars>>
    /\ scope = OUItem(Domain) /\ g \in gpos
    /\ AddLinks(g, ou1, ou2, FALSE)

\* console_policy_remove_link(): "Delete" of a policy under an OU.
RemoveLink ==
    /\ Edit("RemoveLink")
    /\ UNCHANGED <<gpos, updateVars>>
    /\ scope.type = "Policy" /\ scope.at \in OUs
    /\ \E str \in Reads(Server, scope.at), success \in EditOutcomes :
        LET new == Removing(str, scope.gpo)
        IN  /\ Replace(scope.at, new, success)
            /\ IF success
               THEN /\ Cache(scope.at, new)
                    /\ scope' = ScopeAfterDeleting(scope)
                    /\ \E v \in DeletedItem(scope, Console, Server', ou_links') : Show(v)
               ELSE UNCHANGED <<ou_links, uiVars>>

\* Fault: the links are left.
DeletedWithoutLinks(g) ==
    /\ \E success \in WriteOutcomes : gpos' = IF success THEN gpos \ {g} ELSE gpos
    /\ UNCHANGED gplink

\* AdInterface::gpo_delete(): the policy object, then its link in every OU the
\* server finds, whether or not the object could be deleted.
DeletedOnServer(g) ==
    /\ \E success \in WriteOutcomes : gpos' = IF success THEN gpos \ {g} ELSE gpos
    /\ LET linked == {ou \in OUs : g \in Named(gplink[ou])}
       IN  \E S \in {linked} \cup MayFail("read", {})
                   \cup (IF "write" \in Faults THEN SUBSET linked ELSE {}) :
            gplink' = [ou \in OUs |-> IF ou \in S THEN Removing(gplink[ou], g)
                                     ELSE gplink[ou]]

\* console_policy_delete(): the items of a deleted policy go wherever they are
\* in the tree; the cache and the links table are not told.  A policy that is
\* still there is still selected, and the widget that holds it is updated.
DeletePolicyItems(g, results_widget) ==
    /\ IF g \in gpos'
       THEN /\ results' \in IF results_widget /\ g = results.gpo
                            THEN ResultsUpdates(results, g, ou_links) ELSE {results}
            /\ UNCHANGED <<tree, scope, links>>
       ELSE LET item == PolicyItem(scope.at, g)
            IN  /\ scope' = ScopeAfterDeleting(item)
                /\ \E v \in DeletedItem(item, Console, Server', ou_links) :
                    Show([v EXCEPT !.tree = DeleteItemsOf(@, g)])
    /\ UNCHANGED <<ou_links, updateVars>>

\* "Delete" of a policy in "All policies".
DeletePolicy(g) ==
    /\ Edit("DeletePolicy")
    /\ scope.at = AllPolicies /\ g \in ChosenPolicies
    /\ DeletedOnServer(g)
    /\ DeletePolicyItems(g, TRUE)

\* "Delete" in the find dialog.
FindDeletePolicy(g) ==
    /\ Edit("FindDeletePolicy")
    /\ scope = OUItem(Domain) /\ g \in gpos
    /\ DeletedOnServer(g)
    /\ DeletePolicyItems(g, FALSE)

\* on_change_gplink_option_action(): "Enforced" and "Disabled" of a policy
\* under an OU; the attribute to write is made from the cache.
ChangeOption(o, checked) ==
    /\ Edit("ChangeOption")
    /\ UNCHANGED <<gpos, tree, scope, links, updateVars>>
    /\ scope.type = "Policy" /\ scope.at \in OUs
    /\ LET new == Setting(ou_links[scope.at], scope.gpo, o, checked)
       IN  \E success \in EditOutcomes :
            /\ Replace(scope.at, new, success)
            /\ IF success
               THEN /\ Cache(scope.at, new)
                    /\ results' \in ResultsUpdates(results, scope.gpo, ou_links')
               ELSE UNCHANGED <<ou_links, results>>

-----------------------------------------------------------------------------
(* The table of linked policies, on display while the current item is an   *)
(* OU.  It writes to its own ou_dn; the cache is told of the current item. *)

LinksShown(op) == Edit(op) /\ scope.type = "PolicyOU"

\* on_item_changed(): the check box has changed before anything else has.
LinksToggle(g, o) ==
    /\ LinksShown("LinksToggle")
    /\ UNCHANGED <<gpos, tree, scope, results, updateVars>>
    /\ g \in DOMAIN links.rows
    /\ LET checked == o \notin links.rows[g]
           new == Setting(links.gplink, g, o, checked)
           rows == [links.rows EXCEPT ![g] = IF checked THEN @ \cup {o} ELSE @ \ {o}]
       IN  \E success \in EditOutcomes :
            /\ Replace(links.ou, new, success)
            /\ IF success
               THEN /\ links' = [links EXCEPT !.rows = rows, !.gplink = new]
                    /\ Cache(scope.at, new)
               ELSE /\ links' = [links EXCEPT !.rows = rows]
                    /\ UNCHANGED ou_links

\* Fault: the cache is not told.
ModifyGplinkUncached(new) ==
    \/ /\ \E success \in WriteOutcomes : Replace(links.ou, new, success)
       /\ \E rows \in RowSets(new, Server) :
            links' = [links EXCEPT !.gplink = new, !.rows = rows]
       /\ UNCHANGED ou_links
    \/ "connect" \in Faults /\ UNCHANGED <<gplink, links, ou_links>>

\* Fault: the rows are not loaded again.
ModifyGplinkQuietly(new) ==
    \/ /\ \E success \in WriteOutcomes : Replace(links.ou, new, success)
       /\ links' = [links EXCEPT !.gplink = new]
       /\ Cache(scope.at, new)
    \/ "connect" \in Faults /\ UNCHANGED <<gplink, links, ou_links>>

\* modify_gplink(): the object changes and is displayed and cached whether or
\* not the server takes it.
ModifyGplink(new) ==
    \/ /\ \E success \in WriteOutcomes : Replace(links.ou, new, success)
       /\ \E rows \in RowSets(new, Server) :
            links' = [links EXCEPT !.gplink = new, !.rows = rows]
       /\ Cache(scope.at, new)
    \/ "connect" \in Faults /\ UNCHANGED <<gplink, links, ou_links>>

\* search_item(): the first item of g under ou, where child OUs come before
\* "All policies" and that before the OU's own policies.
FirstItem(t, ou, g) ==
    LET below == {p \in Below[ou] : t.items[p][g] > 0}
    IN  IF below # {} THEN below
        ELSE IF ou = Domain /\ t.items[AllPolicies][g] > 0 THEN {AllPolicies}
        ELSE {ou}

RemovesFirst(t, ou, g) ==
    IF ou \in t.shown THEN {DeleteItem(t, p, g) : p \in FirstItem(t, ou, g)} ELSE {t}

\* remove_link() of one row or two.
LinksRemove(g, h) ==
    /\ LinksShown("LinksRemove")
    /\ UNCHANGED <<gpos, scope, results, updateVars>>
    /\ {g, h} \subseteq DOMAIN links.rows
    /\ ModifyGplink(Removing(Removing(links.gplink, g), h))
    /\ tree' \in IF g = h THEN RemovesFirst(tree, links.ou, g)
                 ELSE UNION {RemovesFirst(t, links.ou, h) :
                                t \in RemovesFirst(tree, links.ou, g)}

\* move_up() and move_down() of one row.
LinksMove(g) ==
    /\ LinksShown("LinksMove")
    /\ UNCHANGED <<gpos, tree, scope, results, updateVars>>
    /\ g \in DOMAIN links.rows
    /\ ModifyGplink(MovingUp(links.gplink, g)) \/ ModifyGplink(MovingDown(links.gplink, g))

\* Rows dragged to another place: dropMimeData(), link_orders_changed.
LinksReorder(g, h, to) ==
    /\ LinksShown("LinksReorder")
    /\ UNCHANGED <<gpos, tree, scope, results, updateVars>>
    /\ {g, h} \subseteq DOMAIN links.rows
    /\ LET new == IF g = h THEN DraggingOne(links.gplink, g, to)
                  ELSE DraggingTwo(links.gplink, g, h, to)
       IN  \E success \in EditOutcomes :
            /\ Replace(links.ou, new, success)
            /\ IF success
               THEN links' = [links EXCEPT !.gplink = new] /\ Cache(scope.at, new)
               ELSE UNCHANGED <<links, ou_links>>

-----------------------------------------------------------------------------
(* The table of OUs linked to the current policy.                          *)

ResultsShown(op) == Edit(op) /\ scope.type = "Policy"

\* Fault: the cache is not told.
TellNoCache(ou, str) == UNCHANGED ou_links

\* on_ou_gplink_changed() tells the cache, if the OU is in the tree.
TellCache(ou, str) ==
    IF ou \in tree.shown THEN Cache(ou, str) ELSE UNCHANGED ou_links

\* PolicyResultsWidget::on_item_changed(): the row's own copy is edited.
ResultsToggle(ou, o, checked) ==
    /\ ResultsShown("ResultsToggle")
    /\ UNCHANGED <<gpos, tree, scope, links, updateVars>>
    /\ ou \in DOMAIN results.rows
    /\ LET new == Setting(results.rows[ou], results.gpo, o, checked)
       IN  /\ new # results.rows[ou]
           /\ \E success \in EditOutcomes :
                /\ Replace(ou, new, success)
                /\ IF success
                   THEN results' = [results EXCEPT !.rows[ou] = new] /\ TellCache(ou, new)
                   ELSE UNCHANGED <<results, ou_links>>

\* delete_link() of one row; the policy's item under that OU goes with it.
ResultsDelete(ou) ==
    /\ ResultsShown("ResultsDelete")
    /\ UNCHANGED <<gpos, updateVars>>
    /\ ou \in DOMAIN results.rows
    /\ LET new == Removing(results.rows[ou], results.gpo)
           item == PolicyItem(ou, results.gpo)
       IN  /\ new # results.rows[ou]
           /\ \E success \in EditOutcomes :
                /\ Replace(ou, new, success)
                /\ IF success
                   THEN /\ TellCache(ou, new)
                        /\ scope' = ScopeAfterDeleting(item)
                        /\ \E v \in DeletedItem(item, Console, Server', ou_links') :
                            Show([v EXCEPT !.results.rows =
                                [r \in DOMAIN @ \ {ou} |-> @[r]]])
                   ELSE UNCHANGED <<ou_links, uiVars>>

-----------------------------------------------------------------------------
\* DomainInfoImpl::refresh(): the console starts again and the cache is told
\* to update.
RefreshDomain ==
    /\ "RefreshDomain" \in UserOps /\ updates < MaxUpdates
    /\ scope' = OtherItem
    /\ \/ /\ tree' = [EmptyTree EXCEPT !.shown = {Domain}]
          /\ IF is_updated THEN Manager!Update
             ELSE UNCHANGED <<gplink, ou_links, updateVars, writes>>
       \/ /\ "connect" \in Faults
          /\ tree' = EmptyTree
          /\ UNCHANGED <<gplink, ou_links, updateVars, writes>>
    /\ UNCHANGED <<gpos, links, results>>

\* The cache's thread and its slots.
CacheUpdates ==
    /\ Manager!SearchRuns \/ Manager!Slots
    /\ UNCHANGED <<gpos, uiVars>>

\* Other administrators edit links and delete policies, links and all or not.
OtherAdmin ==
    /\ Edit("OtherAdmin")
    /\ \/ \E ou \in OUs, g \in gpos :
            /\ \/ gplink' = [gplink EXCEPT ![ou] = Adding(@, g)]
               \/ gplink' = [gplink EXCEPT ![ou] = Removing(@, g)]
               \/ \E o \in Options : gplink' = [gplink EXCEPT ![ou] = Setting(@, g, o, TRUE)]
            /\ UNCHANGED gpos
       \/ \E g \in gpos : gpos' = gpos \ {g} /\ UNCHANGED gplink
    /\ UNCHANGED <<uiVars, ou_links, updateVars>>

-----------------------------------------------------------------------------
Loaded ==
    IF StartLoaded
    THEN /\ ou_links = gplink
         /\ is_updated = TRUE /\ thread = Manager!Search!NoThread
    ELSE /\ ou_links = [ou \in OUs |-> << >>]
         /\ is_updated = FALSE /\ thread = Manager!Search!NewThread

\* The main window has loaded the console and started the first update.
Init ==
    /\ gplink \in [OUs -> InitStrings]
    /\ gpos = GPOs
    /\ tree = [EmptyTree EXCEPT !.shown = {Domain}]
    /\ scope = OtherItem
    /\ links = [ou |-> Domain, gplink |-> << >>, rows |-> Rows(<< >>, {}), from |-> Domain]
    /\ results = [gpo |-> NoGPO, rows |-> [ou \in {} |-> << >>]]
    /\ Loaded
    /\ failed_to_update = FALSE /\ events = << >>
    /\ writes = 0 /\ updates = 0

TableEdits ==
    \/ \E g, h \in GPOs :
        \/ LinksRemove(g, h)
        \/ \E to \in 1..Cardinality(GPOs) : LinksReorder(g, h, to)
    \/ \E g \in GPOs : LinksMove(g) \/ \E o \in Options : LinksToggle(g, o)
    \/ \E ou \in OUs :
        \/ ResultsDelete(ou)
        \/ \E o \in Options, checked \in BOOLEAN : ResultsToggle(ou, o, checked)

TreeEdits ==
    \/ \E g, h \in GPOs : LinkGpo(g, h) \/ \E ou \in OUs : DropPolicy(ou, g, h)
    \/ \E g \in GPOs, ou1, ou2 \in OUs : AddLink(g, ou1, ou2) \/ FindAddLink(g, ou1, ou2)
    \/ RemoveLink
    \/ \E g \in GPOs : DropOU(g) \/ DeletePolicy(g) \/ FindDeletePolicy(g)
    \/ \E o \in Options, checked \in BOOLEAN : ChangeOption(o, checked)

Looks ==
    \/ \E item \in Items : Select(item)
    \/ RefreshOU \/ RefreshAllPolicies \/ RefreshPolicy

Next == Looks \/ TreeEdits \/ TableEdits \/ RefreshDomain \/ CacheUpdates \/ OtherAdmin

Spec == Init /\ [][Next]_vars

-----------------------------------------------------------------------------
(* What the copies owe each other.                                         *)

\* Once no update runs, the cache is the server's links: linked_ou_list(), the
\* check marks of "Enforced" and "Disabled" and the attribute that
\* on_change_gplink_option_action() writes back are all taken from it.
CacheCoherent == is_updated => ou_links = gplink

\* The table of linked policies is about the OU that is selected, and the
\* object its edits start from is that OU's attribute.  An edit made from a
\* stale object takes back what happened in between.
LinksTableFresh ==
    scope.type = "PolicyOU" => links.ou = scope.at /\ links.gplink = gplink[scope.at]

\* The table of a policy's OUs lists each OU that links it, with a current
\* copy of the attribute in each row.
ResultsTableFresh ==
    scope.type = "Policy" =>
        /\ results.gpo = scope.gpo
        /\ results.rows = [ou \in linked_ou_list(gplink, scope.gpo) |-> gplink[ou]]

\* A check box or check mark of one link never adds or takes away a link of
\* any OU, though none of the three handlers asks the server what to write:
\* ChangeOption starts from the cache, LinksToggle from the table's object,
\* ResultsToggle from the string kept in a row.  A copy that some earlier
\* handler left behind would take its edit back here.
OptionsKeepLinks ==
    [][(\E g \in GPOs, o \in Options, checked \in BOOLEAN, ou \in OUs :
            ChangeOption(o, checked) \/ LinksToggle(g, o) \/ ResultsToggle(ou, o, checked))
       => \A ou \in OUs : Named(gplink'[ou]) = Named(gplink[ou])]_vars

\* A fetched OU has one item for each policy linked to it, and a fetched
\* "All policies" one for each policy.
TreeFresh ==
    \A p \in tree.fetched : \A g \in GPOs :
        tree.items[p][g] =
            IF g \in gpos /\ (p # AllPolicies => g \in Named(gplink[p])) THEN 1 ELSE 0

\* The current item is in the tree, whatever is deleted, refreshed or could not
\* be fetched: the handlers act on "the current scope item" without asking.
ScopeIsShown == scope # OtherItem => scope \in Items

\* A row of the links table is a link of the object behind it, so that a check
\* box never changes anything but the link it is shown on.
RowsAreLinks == DOMAIN links.rows \subseteq Named(links.gplink)

\* The object behind the links table was read from the OU the table writes to.
LinksFromOwnOU == links.from = links.ou

\* console_policy_delete() asks whether to delete "this policy and all of it's
\* links".
DeletedWithLinks ==
    \A ou \in OUs : Named(gplink[ou]) \subseteq gpos

TypeOK ==
    /\ gplink \in [OUs -> GplinkString]
    /\ gpos \subseteq GPOs
    /\ tree.shown \subseteq Parents /\ tree.fetched \subseteq Parents
    /\ tree.items \in [Parents -> [GPOs -> Nat]]
    /\ scope \in {OtherItem, AllPoliciesItem} \cup {OUItem(ou) : ou \in OUs}
                  \cup {PolicyItem(p, g) : p \in Parents, g \in GPOs}
    /\ links.ou \in OUs /\ links.from \in OUs /\ links.gplink \in GplinkString
    /\ links.rows \in UNION {[S -> SUBSET GplinkOption] : S \in SUBSET GPOs}
    /\ results.gpo \in GPOs \cup {NoGPO}
    /\ DOMAIN results.rows \subseteq OUs
    /\ \A ou \in DOMAIN results.rows : results.rows[ou] \in GplinkString
    /\ ou_links \in [OUs -> GplinkString]
=============================================================================
