# ADMC in TLA+

ADMC is a Qt program that administers an Active Directory domain: a console
with a tree of objects, group policies, saved queries and domain information,
dialogs that edit them, and a library (`adldap`) that talks to the directory
over LDAP and to its file share over SMB.  This directory models the parts of it
in which several copies of one fact, or several threads, have to be kept in
step, checks them with TLC on small instances and proves the central results
with TLAPS for every instance.

Paths below are relative to `src/src/`.

## 1. The system

ADMC has one main thread.  It runs every handler to its end, talking to the
server synchronously, and lets other things happen only between handlers: the
slots of `SearchThread`s (the only other threads), dialogs that were left open,
and whatever other administrators do to the directory meanwhile.  Nothing is
shared between threads but a stop flag; threads post signals, which the event
loop delivers later.  No state of the domain is persisted by the program.

| Component | State | Operations | Talks to | What is hard | Correct when |
|---|---|---|---|---|---|
| `Gplink` (`adldap/gplink.cpp`) | `gpo_list` and `options`, two views of one attribute | parse, print, add, remove, move, set an option | everything about links | two data structures in step, orders at the ends, an attribute that names a policy twice | the two agree; printing and parsing lose nothing; each method makes the edit of the attribute that its name says |
| `SearchThread` (`admc/core/search_thread.cpp`) | phase of `run()`, cookie, stop flag, counters | run, stop, `results_ready`, `finished` | `AdInterface::search_paged`, creators' slots | failing pages, the display limit, signals delivered after the fact | reads everything unless it says why not |
| `GPLinkManager` (`admc/core/managers/gplink_manager.cpp`) | `ou_links` (the cache), `is_updated` | `update`, `set_gplink`, queries | `SearchThread`, policy tree, both tables | edits between the reading of a page and its arrival | an update refreshes what nobody edited, and ends |
| Policy tree (`admc/ui/console/policy*_impl.cpp`, `all_policies_folder_impl.cpp`) | items, which of them were fetched, the current item | link, unlink, delete, refresh, select | server, cache, both tables | each handler refreshes some of five copies | all copies are the server's links |
| `LinkedPoliciesWidget` | `ou_dn`, a `Gplink`, rows | toggle, remove, move, drag | server, cache, tree | `ou_dn` and the object change separately; failures | the object is the selected OU's attribute |
| `PolicyResultsWidget` | policy, a row per OU with a copy of the attribute | toggle, delete | cache, server, tree | rows start from what the cache had | rows are the OUs that link the policy |
| `ConsoleWidget` (`admc/ui/widget/console/console_widget.cpp`) | scope tree, current item, two history lists, enabled buttons | select, up, back, forward, add and delete items | every item type's `ConsoleImpl` | items vanish from the middle of the history | no button leads nowhere; the history is a trail |
| Object tree searches (`admc/ui/console/object/console_object_operations.cpp`) | per item: rows, fetched, fetching, id of the newest search | fetch, refresh, create, delete, move, rename | `SearchThread`, `ConsoleWidget` | searches that overlap, items that go while they are searched | the newest search decides, and its end clears the mark |
| `AdInterface` (`adldap/ad_interface.cpp`) | connection, messages | search, replace values, create and delete objects and policies | LDAP, SMB | operations of several calls, one of which fails, or that others come between | nothing half made stays; what is said to be deleted is gone; a second attempt finishes the first |
| Creation dialogs (`create_object_helper.cpp`, `dialog/create/`) | edits | create, apply the edits, take back | `AdInterface`, edits | the object exists before its attributes do | all or nothing |
| Find widgets (`admc/ui/widget/find.cpp`, `dialog/find/`) | one search, results | find, stop, clear, actions on the main console | `SearchThread`, the buddy console | actions that change the other console | both consoles follow |
| Queries (`query_item_impl.cpp`, `query_folder_impl.cpp`) | the tree of queries, saved on every change | move, copy, import, edit | object tree searches | moving a folder into itself, equal names | what is saved is what is shown |
| Tree state (`tree_state_manager.cpp`) | expanded and selected items | save, restore | fetches that are under way | restoring while items still arrive | the saved item ends up selected |
| Properties (`dialog/properties.cpp`, `attribute_edit/`, `tab/`) | what each edit shows and has loaded, the list of edits to apply, buttons, the tab, a warning | edit, apply, reset, switch tabs, OK, cancel | server, security tab | several edits, one of which fails; two tabs for one attribute; others change the object | what is applied is what is shown, and nothing else is written |
| Access rights (`ad_security.cpp`, `permission_control/`, `tab/security.cpp`) | the entries of a descriptor, the selected trustee, page and scope | set and unset rights, remove trustees, apply | properties, the general and account tabs | rights that contain each other and share bits; showing a page edits | a click does what it shows and nothing else |
| Membership (`tab/membership.cpp`) | original and current sets, primary group | add, remove, make primary, apply | server, which moves the primary group itself | the order of the writes | the difference is what is written |
| Inherited policies (`inherited_policies.cpp`) | rows | show | cache | enforced and blocked links | the order of application |
| Kerberos (`krb5client.cpp`) | credential caches | login, logout, switch | libkrb5 | several principals | the current cache is the chosen principal's |
| FSMO (`fsmo*.cpp`) | role owners | take over | server | the controller one is connected to | the owner shown is the owner |
| DN updaters (`*_dn_attrs_updater.cpp`) | none | rewrite attributes after a rename | server | several objects, one of which fails | every reference follows |

`PROJECT.json` lists these and the remaining components with their files, and
under "hazards" what can go wrong at which line.

## 2. Modules

```
Gplink ----------- GplinkEdit ---- MCGplinkEdit, GplinkEdit_proofs
  |                     |
  |                GplinkAttr  (abstract)
  |
PolicyLinks ------- MCPolicyLinks, PolicyLinks_proofs
  |
  +-- Manager: GPLinkManager ----- GPLinkManager_proofs
                    |
                    +-- Search: SearchThread
                                     |
ConsoleSearch --- Search1, Search2 --+
  |
ConsoleSearch_proofs

ConsoleNavigation - MCConsoleNavigation, ConsoleNavigation_proofs
  +-- Trail: NavTrail  (abstract)

AttributeEdits ---- PropertiesDialog ---- MCPropertiesDialog, PropertiesDialog_proofs

SecurityDescriptors ---- SecurityTab ---- MCSecurityTab, SecurityTab_proofs

ObjectLifecycle ---- ObjectLifecycle_proofs
```

**Gplink** is `Gplink` as functions on a record `[gpo_list, options]`; an
attribute is a sequence of `[gpo, option]`.  Names, the prefix `LDAP://` and
letter case are abstracted; the order of parts (the attribute lists the last
first, `gpo_list` starts with what applies first) is not.  It holds no
RECURSIVE operator: parsing and printing are closed forms, which
`MCGplinkEdit` compares with the library's list operations.

**GplinkEdit** is one such object under any sequence of methods.
**GplinkAttr** says what each method promises as an edit of the attribute
alone, knowing nothing of the two structures: one operation for each method, with
its policy, orders or option as parameters.  `EditsAttribute` ties each method to
its own operation.

**SearchThread** is `run()`, one action per stretch between two points where it
meets the outside: `Connect`, `SearchPage` (up to the emitted page or the display
limit), `CheckPage` (the loop's two exits), `Finish`.  `events` is the event
queue.  A page is any set of up to `PageSize` remaining objects; a failing read
gives an empty page with the cookie old or new.  Log messages are left out.

**GPLinkManager** composes it with the cache: `Update`, the two slots,
`EditLink` (ADMC writes and calls `set_gplink`), `OtherAdmin`.

**PolicyLinks** composes the cache with everything that shows or edits links.
One action is one handler, every call it makes included: deleting an item
selects its parent, which loads the parent's widget and may fetch its children
(`DeletedItem`, `Selecteds`).  `Fault`, `MayFail` and the three members of
`Faults` say where a connection, a read or a write may fail.  Handlers that ask
for several choices are bounded to two (two OUs, two policies, two rows); adding
links and deleting are done for one policy at a time, though the code accepts
several.  The policy acted on is the current item, or one selected in the list
that "All policies" shows (`ChosenPolicies`); under an OU the console shows the
widget with the links table instead of a list (`policy_ou_impl.cpp:57`), so a
policy there is chosen by being current.  The policy root does show a list, with the
domain in it; linking or dragging the domain from there is left out.
The tree counts items per parent and policy, so that duplicates can be seen.

**ConsoleNavigation** is the tree, the current item, the two lists of the
history and the enabled buttons; `Purge` is
`on_scope_items_about_to_be_removed()`.  What Qt does with the current item when
rows go is external.  **NavTrail** is what Back and Forward promise: one list of
visited items and a cursor.

**ConsoleSearch** is one item of the object tree or one query, two threads that
may be alive at once and everything that adds or removes its rows.  The item may
go and come back, and what was started for the former item then has an invalid
persistent index (`live`).  Each thread has its own queue here.  That is the
event loop's single queue seen up to the time between reading a page and posting
it, which the threads do not control.

**AttributeEdits** is what the edits read from an object and write to it, one
edit of each way there is: a trimmed string, a string with other values, a bit of
`userAccountControl` read again when it is applied, entries of the descriptor, a
scope that takes two writes, a difference of sets with a primary group that the
server moves.  Every write may fail, so that an apply is a set of outcomes.

**PropertiesDialog** is the dialog over them: the apply list in the order of the
edits, the buttons, the two warnings, and whatever others change while it is
open.  One action is one handler.

**SecurityDescriptors** is the arithmetic of rights: which entries grant or deny
a right, which rights contain which, how one is set and unset.  A descriptor is a
function from trustee, scope, column and object type to a set of bits.
**SecurityTab** is the tab over it with its selection, the boxes, the common page,
which adds superior rights as it is shown, and the two edits of other tabs that
write the same entries.  The rows of a page have a scope and the widget has a
class (`appliable_class`); both are parameters of `UpdateCommon`, as they differ
while an object is loaded again (`Load`): the rows are new and of this object,
the class is that of the scope selected before.  When the first object is loaded
there is no class yet and nothing is added (`Init`).

**ObjectLifecycle** is `gpo_add()`, `gpo_delete()`, `object_delete()` and
`CreateObjectHelper::accept()` with one action for each call to the server.  A
policy is a set of parts (objects, attributes, files), each in another; a user is
an object with attributes.  Any call may fail, others protect, link, fill or
delete the object between two calls, and ADMC may be killed, or kill itself
(`SearchFails`).

### Where they differ from the code on purpose

- Actions of the interface are enabled as the code enables them; dialogs are
  their result.
- `was_fetched` of an OU is set by the first selection, as in `fetch_scope()`.
- `AdInterface::search()` returns nothing when a page fails; a search of several
  policies returns some of them.
- `attribute_replace_values()` succeeds without writing when the old value
  looks empty and the new one is.
- `ConsoleSearch` leaves out the extra search of the developer mode, the early
  return of `console_object_rename()` when the current item has no parent, and
  the memory of `SearchThread` objects.
- `PropertiesDialog`: the tabs other than "Attributes" and "Security" are one
  ("Other").  Others act only while something is pending in the dialog: what they
  do before commutes with opening it.  Reads of the whole object and of its
  descriptor succeed; `SetFlag` shows what a failed read of
  `userAccountControl` does when `Faults` has "read".  Of the order of entries
  only whether it is canonical is kept.
- `SecurityDescriptors`: no two entries with the same trustee, flags and types;
  the flag "no propagation" is left out; rights about one type have one bit; the
  delegation page is not modelled.
- `ObjectLifecycle`: the attributes of a policy are two, its path and the rest;
  the writes of `showInAdvancedViewOnly` after each container and
  `gpo_sync_perms()`, whose results the code ignores, are left out.  An empty
  path (of a policy that could not be read) is the root of the server, which
  `smbc_opendir()` lists but whose entries cannot be examined.

## 3. Runs

All bounds are CONSTANTS in the `.cfg` files.  `MaxWrites`, `MaxUpdates`,
`MaxEdits`, `MaxSearches`, `MaxParts` and `MaxHistory` only end behaviours and
stand for nothing in the code.  Where a `.cfg` says `CHECK_DEADLOCK FALSE`,
behaviours end because such a bound was reached.

| Run | Bounds | Shows |
|---|---|---|
| `gplink_edit` | 3 policies, attributes of up to 2 parts, duplicates included, any number of edits | `ListMatchesOptions`, `RoundTrip`, and `EditsAttribute`: every method is the edit of its name in `GplinkAttr`, of the policy, orders or option it is called with |
| `gplink_update` | 2 OUs, 3 attributes, page of 1, limits of 1 and 2, 2 writes, 2 updates, failures of connection and pages | an update refreshes, reads everything or says why not, leaves nothing behind, and ends |
| `links_one_admin` | the domain and an OU, 2 policies, 3 edits by any of eleven operations, no faults | all five copies are current; none of the three ways to set an option changes a link, whichever copy it writes back (`OptionsKeepLinks`) |
| `links_no_cache` | the same tree, 1 policy, 2 edits while the cache is loaded or loaded again | operations that do not start from the cache: the tree follows the server, and a deleted policy has no links |
| `links_faults` | the same tree, 1 policy, one edit of every kind, every fault, another administrator | the console stays consistent in itself |
| `navigation` | a tree of 4 places, two levels deep, a history of 4 | buttons, history and trail |
| `console_search` | 2 objects, page of 1, 3 searches, one edit, any number of removals | overlapping searches |
| `properties` | a user of whom 10 edits are touched and a group of which 4 are (`MCTouched`), 3 groups, 2 changes by the user or others, opened once, failing writes and connections (321,101 states) | the list of what to apply, conflicting options, the two warnings, what OK and Apply leave on the server |
| `acl` | 2 trustees, 2 scopes about classes with different rights (4 typed rights on 2 bits, and one of them), 5 common rights to click, 2 edits (415,266 states) | rights that contain each other |
| `lifecycle` | a policy with 2 links and a user, servers with and without the tree control, 3 operations, 2 failures, a change by others, a crash (276,990 states) | creations are all or nothing, deletions are told truly and can be finished, protection is heeded |

The bounds suffice for what can interfere: two OUs, one above the other, are the
least with a table that writes to one and shows another; two policies the least
that have an order; three edits are an edit, one from a copy it made stale, and
one after; a page of one object makes two pages of two; three searches are one
overtaken, one overtaking it and one for the item that came back.  Two changes in
the dialog are two edits that write the same data, or an edit and somebody
else's; two typed rights on a bit are the least of which one can be set and not
the other; two clicks are one that splits a right and one that puts it together
again.  Two failures are one in an operation and one in what takes it back, or
one that leads into the fallback of `object_delete()` and one within; three
operations are a creation, a deletion that fails and another attempt.
`console_search` was also run with failing pages (2.0 million states, the same
result) and is kept at failing connections for its size.

What each property rules out is written above it in the module.  Some need a
word here:

- `UpdateRefreshes` exempts OUs whose links were taken away by others
  (`gplink_manager.cpp:59` skips empty attributes, so the cache keeps the old
  links) and speaks of the OUs the search met.  The display limit
  (`search_thread.cpp:79`), a setting about lists on screen, also cuts this
  search short; the page that exceeds it is not emitted.  `UpdateReadsAll` names
  it as one of three reasons for an incomplete cache.
- `OptionsKeepLinks` is checked in `links_one_admin`, where the cache starts
  loaded, no policy is deleted and every edit is ADMC's.  Before the first update
  `on_change_gplink_option_action()` makes the attribute from an empty string and
  the OU loses its links; after an edit by others it takes that edit back.
- `DeletedWithLinks` is checked in `links_no_cache`, which leaves `ChangeOption`
  out.  With `ChangeOption` after a deletion the cache's links to the deleted
  policy are written back, since `console_policy_delete()` does not tell the cache
  (`policy_impl.cpp:686`, `:312`).
- `AppliedIsShown` exempts an edit whose data a later one on the list writes
  over, and the former primary group.
- `OthersKept` and `AppliedIsShown` hold where reads succeed.  If an account
  option cannot read `userAccountControl` it takes it for 0
  (`ad_interface.cpp:1377`, `get_uac()`) and writes its own bit only.
- `UnrelatedKept` and `NoNewConflict` exempt "read permissions", the bit that
  "Read" and "Write" share and that unsetting one of them therefore keeps.
- `NoNewConflict` exempts the entries of the object itself when the tab is loaded
  again, after Apply, while the scope of a class with other rights is selected
  (`SetForOtherClass`).  The rights of the object are then completed to a superior
  right by the list of that class (`security.cpp:154`,
  `common_permissions.cpp:161`), and a right of the object that is not on it may
  be set the other way round: TLC finds the conflict without the exemption.
- `CleanDeleteFinishes` exempts a policy whose object has gone.  Its path is read
  from the object, and the console does not show it: no later attempt finds its
  files, nor its links if those could not be removed (`ad_interface.cpp:1790`,
  `:1815`).
- `ProtectedStays` exempts a protection that others set after the search: the
  descriptor is not read again, and what the plain deletions remove is the
  server's to refuse.  One set between the first deletion and the search is
  heeded, and covered.
- `ProtectedStays` speaks of servers that refuse to delete a protected object
  with the tree control.  A server without the control is asked first and
  checked afterwards: an object with nothing below it is gone by then.
- `AddIsAllOrNothing` speaks of creations in which no call of the clean-up failed
  and nobody else changed the object.

### Disagreements with the code's own comments

These runs are expected to fail, and TLC's trace is the scenario.

| Run | What happens |
|---|---|
| `both_steps` | If the object of a policy has gone, or the search for it fails, when `object_delete()` looks whether it is protected, ADMC ends with a null pointer (`ad_interface.cpp:1039`, `ad_security.cpp:984`); the files and links of the policy stay, and no longer have an object by which to delete them.  The note at `ad_interface.cpp:1791` says that both steps are tried. |
| `superior_denied` | Showing the common rights of a trustee who is allowed all of the rights about types but the last sets the right above them to "denied" (`common_permissions.cpp:164`); the comment at `common_permissions.cpp:76` says that a superior right is set if all below it are. |

### Other behaviour met on the way

These were found with the same modules, by adding an operation or a fault to a
run, and no property of a passing run depends on them.

- Deleting the plain way (without the tree control) succeeds only for an object
  with nothing below it, and the loop that follows deletes it again: the answer
  "no such object" makes `object_delete()` report a failure, and the console goes
  on showing the object (`ad_interface.cpp:1052`, `:1068`).
- A policy that could not be read is taken for one that is not critical and has no
  path (`ad_interface.cpp:1797`): its links go, its object if the server lets it,
  and its files stay.  The links of a protected policy go although the object stays.
- Links that could not be removed, or that are added after the search for them,
  stay behind a deleted policy (`ad_interface.cpp:1834`).
- A user who is taken out of the group that was primary, when another is made
  primary, is in it after Apply, without an error (`membership.cpp:258`).
- "Apply" in the warning of the attributes tab resets whatever the outcome: what
  could not be written is lost (`properties.cpp:362`).  "Discard" without a
  connection switches tabs and keeps the changes.
- A failed read of `userAccountControl` counts as 0, and the write clears every
  other option (`ad_interface.cpp:1379`).
- Removing a link of the domain in the links table deletes the policy's item from
  "All policies" or a child OU, as the first item found in the subtree goes
  (`linked_policies.cpp:271`).
- Selecting an OU without a connection changes `ou_dn` but not the object: the
  next edit writes one OU's links to another (`linked_policies.cpp:169`).
- Applying in the security tab while the scope of a child class is selected may
  set a superior right of the object itself, by the rights of that class
  (`security.cpp:154`).
- A link deleted from an OU outside the policy tree stays in the cache and on
  display (`policy_impl.cpp:272`).
- An object created while its parent is being fetched is shown twice
  (`console_object_operations.cpp:302`).
- With `FindAddLink` and `LinksToggle` together the cache differs from the
  server: the table caches for the current item and writes to `ou_dn`.
- Adding a policy to two sibling OUs at once (`AddLinkTwo`) leaves the links
  table on the last of them.
- Links to deleted policies have no row in the links table, as the search for
  the linked policies returns those that exist; the comment at
  `linked_policies.cpp:395` says they are shown.
- After a purge of the history two neighbours can be the same item, and Back
  stays where it is.
- Removing items more than one level above the current one leaves no current
  item, and Back and Forward do nothing though they are enabled.

## 4. Fairness

Only what runs by itself is fair: the worker threads (`SearchRuns`, `Run1`,
`Run2`), which the operating system schedules, and the slots (`Slots`,
`Deliver`), which the event loop delivers in the order they were posted.  Weak
fairness is enough since nothing disables them but themselves.  Nothing the user
or another administrator does is fair.  `UpdateEnds` and `FetchEnds` need both:
without the end of a search the cache could never be updated again
(`is_updated`), and an item would refuse drops for ever (`ObjectRole_Fetching`).

## 5. Proofs

| Theorem | Assumes | Argument |
|---|---|---|
| `LinkWellFormed`, `LinkRoundTrip`, `LinkListMatchesOptions`, `LinkEditsAttribute` (`GplinkEdit_proofs`) | attributes without duplicates to start from (`UniqueSpec`) | `WellFormed`: `gpo_list` has no policy twice and `options` is defined on exactly its members.  Each method preserves it; parsing a printed well-formed object gives it back.  `LinkEditsAttribute` is the refinement of `GplinkAttr`, operation by operation: what a method prints is worked out once (`PrintedAdd`, `PrintedRemove`, `PrintedOption`, `PrintedMove`), and one lemma per operation shows that it is that operation of that policy (`LinkStep`, `UnlinkStep`, `RaiseStep`, `LowerStep`, `ReorderStep`, `OptionStep`).  The list runs against the attribute, so that a move in the one is a move in the other seen from the far end (`MirroredSource`).  The same module states what an edit does to an attribute (`PrintedString`, `ParsedNames`, `EditedNames`); `PolicyLinks_proofs` cites these through an INSTANCE. |
| `ManagerTypeOK`, `ManagerIdleIsQuiet`, `ManagerUpdateRefreshes`, `ManagerUpdateReadsAll` (`GPLinkManager_proofs`) | `ManagerAssumption` | `ManagerInv`: only `finished` can be last in the queue, and only when the thread has ended (`QueueInv`); a page in the queue holds current links of every OU it speaks of and nobody edited (`PagesFresh`); an object the thread has sent is cached or in the queue (`SentArrives`).  `UpdateRefreshes` is not inductive without them: the queue has to be related to the thread. |
| `CurrentItemIsShown` (`PolicyLinks_proofs`) | `PolicyLinksAssumption` | `TreeOK`: items are under fetched parents only, only what is shown is fetched, and the counts are natural numbers.  Each step of a handler either only adds to the tree (`Grows`) or gives the current item up in favour of its parent first. |
| `PolicyLinksTypeOK`, `RowsAreTheLinks` (`PolicyLinks_proofs`) | `PolicyLinksAssumption` | `ContentInv`: `Typed`, what the server, the cache, the tables and the queue hold, with the rows of the links table among the links of its object, together with `CurrentInv`, the invariant of the row above: handlers edit the OU and policy of the current item.  That no attribute is ever written, cached or shown with a policy twice is part of the type, and follows from what `GplinkEdit_proofs` says of each edit, with any faults and other administrators. |
| `OneAdminCacheCoherent`, `OneAdminLinksTableFresh` (`PolicyLinks_proofs`) | `OneAdmin`: no faults, the cache loaded, the operations that cache what they write | `LinksInv`: the cache idle and equal to the server's links, and the table's object that of the selected OU.  The two go together: the table caches under the current item what it writes under its own `ou_dn`, so cache coherence needs them to be the same OU. |
| `OneAdminResultsTableFresh`, `OneAdminOptionsKeepLinks` (`PolicyLinks_proofs`) | `OneAdmin` | `Sound`, which is `LinksInv` and `ContentInv`: an edit changes one attribute and starts from what the server has (`Writes`), so the option of one link leaves the names alone; the results table is loaded from a cache that is the server's links (`FreshResults`). |
| `OneAdminTreeFresh` (`PolicyLinks_proofs`) | `OneAdmin` without `LinksRemove`, which deletes the first item of the policy that it finds (section 3) | `FreshTree`: what is fetched has one item for each link.  Dropping a policy that is linked already must add no second item, and refreshing an OU empties the rows below it, which is right only as nothing is below itself (the third part of `PolicyLinksAssumption`). |
| `CleanDeletesLinks` (`PolicyLinks_proofs`) | `CleanDeletes`: no faults, the operations `FreshOps` | `Legal`: neither the tree nor the links table of the current OU has a policy that was deleted, so that nothing can be linked from there.  The operations left out start from what is not told of a deletion: the cache (`ChangeOption`), the results table, and the links table behind the find dialog (`FindDeletePolicy`). |
| `NavigationTypeOK`, `NavigationHistoryShown`, `NavigationButtons`, `NavigationFollowsTrail` (`ConsoleNavigation_proofs`) | `NavigationAssumption` | `NavigationInv` adds that the items in the tree are closed under parents, so that giving way to a parent is possible, and that enabled buttons are those of the lists.  What a purge keeps of a list is shown by the least index that would be kept wrongly (`KeptRest`).  `NavigationFollowsTrail` is the refinement of `NavTrail`: the lists with the current item between them are taken apart again by the cursor (`Parted`), a step back or forward leaves the whole alone (`OneStepBack`, `OneStepForward`), and a purge is a forgetting, of the trail as it is or with the parent visited first (`RemoveRowsForgets`). |
| `SearchTypeOK`, `SearchMarksFetching` (`ConsoleSearch_proofs`) | `ConsoleSearchAssumption` | `MarkInv`: live searches have distinct ids below `id_max`, belong to an item that is in the tree, and have a thread; together with the property it is inductive.  `Run1Sends` and `Run2Sends` say what a step of `run()` does to its thread and its queue. |
| `PropertiesPendingListed`, `PropertiesConflictsLoaded`, `PropertiesAttributesAlone` (`PropertiesDialog_proofs`) | the assumptions on constants | `Sound`: the list is one of edits of the dialog, and every edit that shows something else than any of the readings it may have loaded is on it (`Pending`); options in conflict were loaded so (`Conflicts`); unless something could not be discarded the list is `<<"attributes">>` or has nothing of it (`Alone`); and a question is asked only where it belongs (`Questions`).  The outcomes of an apply stay unexpanded: none of the three depends on what the server does. |
| `PropertiesTypeOK`; `PropertiesOthersKept`, `PropertiesAppliedIsShown` (`PropertiesDialog_proofs`) | the assumptions on constants; for the last two that no read fails (`"read" \notin Faults`) | `Typing`: `Sound`, an object that is one, and what every edit shows, the descriptor to go back to and the list of the right kind (`TypedDialog`).  `ApplyChanges` says of the apply of each edit that it writes to its own parts of the object only, and that the object is what the edit shows if it succeeded.  `ReflectsKept` says that this stays so while others write to other parts, so that along the list (`ApplyAllOutcome`) every edit is on the server or has been written over by one after it.  A membership edit needs more than its type: the primary group it shows is the one it loaded or a single one of the user's (`GoodMembership`).  A failed read of `userAccountControl` or `groupType` is taken for one without any bits, and what is written then clears those of others: that is why reads may not fail here. |
| `SecurityTabType`, `ClickToldHolds` (`SecurityTab_proofs`) | the assumptions on constants | `UnsetIncomplete`: after `Unset` a common right lacks a bit although "Read" and "Write" share one; `SplitTyped`: after `Split` no untyped entry says anything about a typed right; `UpdateGrows`: showing the common page only adds typed bits, untyped, that were neither allowed nor denied, whatever class the rights are counted of.  An action property, so the invariant is only that the entries keep their type. |
| `LifecycleInvariant`, `DeletedIsGone`, `ProtectedObjectsStay` (`ObjectLifecycle_proofs`) | `ObjectLifecycleAssumption` | `IInv`: every object is in one that is there (`Nested`), so that with the object itself everything below has gone; until its deletion was tried the object is on the list of what is to be deleted (`ObjectIsLast`); nothing is created after a deletion was told (`Told`).  `ToldDeletedIsGone` alone says nothing of the steps before it.  For `ProtectedStays`, `PInv` adds that after the search only others can have protected the object (`Guarded`), that the deletion of files has only files to delete (`FilesOnly`), and that nothing but an unread delete goes past the reading of a critical policy (`CriticalUntouched`). |
| `CreationIsAllOrNothing`, `DeletionFinishes` (`ObjectLifecycle_proofs`) | `ObjectLifecycleAssumption` | `Progress`: every part is in one that is there (`Whole`), a creation in which nobody interfered has made what it tried (`Creating`) and takes back only what was not there before (`CleaningUp`), and `Removing` says for each call how far an undisturbed deletion has come.  The part removed next has nothing left in it (`DeepestIsLeaf`), so that the server cannot refuse; nothing is left once the object and the files have gone (`WholeEmpty`). |

Every theorem holds for any number of OUs, policies, objects and edits; the
bounds of the runs are arbitrary numbers in them.  The operations that
`OneAdmin` and `CleanDeletes` leave out are those for which the property fails in
some tree (section 3): two edits of the results table pass in
`links_one_admin` only because every OU of its tree is shown.  `DropOU` (an OU
dropped on a policy) is left out of `OneAdmin` as well, and checked by TLC.

Only model-checked: liveness (`UpdateEnds`, `FetchEnds`) and anything else that
needs ENABLED, which is beyond the prover; all three properties of `GplinkEdit`
for attributes that name a policy twice; `NoNewConflict`, `UnrelatedKept` and
`OtherTabsTold` of the security tab; `SearchShowsAll`.

## 6. Not modelled, and why

Display, icons, translations, filters, settings and conversions hold no state
that could be wrong after several steps.  Vendored Samba code is called through
two functions.  The rest is not modelled yet; the order in which it will be:

1. **ConsoleObjects**: moving, renaming and deleting in the object, query, find
   and policy trees at once, with the current item (old items are deleted before
   new ones are added, against the comment at
   `console_object_operations.cpp:102`); the find widgets.  Composes
   `ConsoleSearch`.
2. **InheritedPolicies**: the order of application against a reference
   definition.
3. **TreeState**: restoring over fetches, composing `ConsoleSearch`.
4. **QueryTree**: moving, copying and saving queries.
5. **PropertiesMulti**: the dialog of several objects, whose edits apply only what
   is checked.
6. **KrbAuth**, **Fsmo**, **DnAttrs**, **AdTime**.

Theorems to come: `SearchShowsAll`; `UnrelatedKept`, `NoNewConflict`.
