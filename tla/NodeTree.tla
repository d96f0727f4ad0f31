------------------------------- MODULE NodeTree -------------------------------
(***************************************************************************)
(* Folders and files of the workspace: creating, renaming and moving them, *)
(* who owns them, which of them a reader is shown, and the listing of a    *)
(* folder page by page while all this goes on.                             *)
(*                                                                         *)
(* Moves and changes of permissions are serializable transactions and are  *)
(* one step each, as is the trash (TrashLifecycle has its inside); creating *)
(* and renaming check first and write later.  A page of a listing is three *)
(* reads.  A name and a moment are numbers; the ids are ordered.           *)
(***************************************************************************)
EXTENDS Naturals, FiniteSets

CONSTANTS Ids,          \* node ids, in the order of their UUIDs
          FolderIds,    \* those that are folders
          Root,         \* a null parentId
          TrashOps,     \* trash operations
          NoTrash,      \* a null trashOperationId
          MaxName,      \* bound: names are 1..MaxName
          MaxMoment,    \* bound: moments are 0..MaxMoment
          Principals,   \* users and groups that may be owners
          TreeRequests, \* creations and renamings under way
          PageLimit,    \* limit of a listing (1..100 in the code)
          Trees         \* where a behaviour starts, what it may do and how often

ASSUME TreeConstants ==
  /\ MaxName \in Nat /\ Ids \subseteq 1..MaxName /\ Ids # {} /\ MaxMoment \in Nat
  /\ FolderIds \subseteq Ids /\ Root \notin Ids /\ NoTrash \notin TrashOps
  /\ PageLimit \in Nat \ {0} /\ Principals # {}

VARIABLES
  world,    \* the tree a behaviour starts with, and the changes left to it
  node,     \* table Node, with the OWNER entries of PermissionEntry
  trashed,  \* the root and original parent of each open trash operation
  change,   \* the creation or renaming each request has checked
  moment,   \* the clock
  listing   \* a reader listing a folder

treeVars == <<world, node, trashed, change, moment, listing>>

TreeNames == 1..MaxName
Moments == 0..MaxMoment
Place == FolderIds \cup {Root}
SortKeys == {"name", "lastModified"}
Tree == [parent : [Ids -> Place], there : SUBSET Ids, modified : [Ids -> Moments],
         moment : Moments, left : Nat,
         events : SUBSET {"create", "rename", "move", "content", "remove", "trash", "permissions",
                          "list"}]
\* The nodes of a tree lie in its folders, and no set of them within itself.
ASSUME TreesAreTrees ==
  \A t \in Trees :
    /\ t \in Tree /\ \A n \in t.there : t.parent[n] \in t.there \cup {Root}
    /\ \A S \in SUBSET t.there : S # {} => \E n \in S : t.parent[n] \notin S

NodeRow == [there : BOOLEAN, parent : Place, name : TreeNames, inherit : BOOLEAN,
            mark : TrashOps \cup {NoTrash}, modified : Moments, owners : SUBSET Principals]
TrashRow == [open : BOOLEAN, root : Ids, origin : Place]
TreeChange == [pc : {"idle", "create", "rename"}, node : Ids, at : Place, name : TreeNames]
NoChange == [pc |-> "idle", node |-> CHOOSE n \in Ids : TRUE, at |-> Root, name |-> 1]

\* A row of a page, at the value it was sorted by.
ListedRow == [node : Ids, value : TreeNames \cup Moments]
\* ids, what a page read first; cursor, the row it ended with, if there is one;
\* shown, how often each node was.  History: stayed, the nodes that have been in the folder, unchanged, since the
\* listing began; slipped, a node was changed or removed while its page was read.
Listing == [pc : {"idle", "browse", "ids", "nodes", "done"}, folder : Place,
            sort : SortKeys, ascending : BOOLEAN, cursor : SUBSET ListedRow,
            ids : SUBSET ListedRow, shown : [Ids -> Nat], stayed : SUBSET Ids, slipped : BOOLEAN]
NothingShown == [n \in Ids |-> 0]

TreeTypeOK ==
  /\ world \in Tree
  /\ node \in [Ids -> NodeRow]
  /\ trashed \in [TrashOps -> TrashRow]
  /\ change \in [TreeRequests -> TreeChange]
  /\ moment \in Moments
  /\ listing \in Listing

-----------------------------------------------------------------------------
(* The tree and what is seen of it.                                        *)

Present == {n \in Ids : node[n].there}
ChildrenOf(d) == {n \in Present : node[n].parent = d}

\* n and what is above it, the least set that holds with a node what the node
\* lies in; only the nodes of `up` let the walk go on.
Parents == [n \in Ids |-> node[n].parent]
Upwards(parent, S, up) == \A m \in S \cap up : parent[m] \in S \cup {Root}
Walk(parent, n, up) ==
  {m \in Ids : \A S \in SUBSET Ids : n \in S \cup {Root} /\ Upwards(parent, S, up) => m \in S}
Chain(n) == Walk(Parents, n, Ids)
Below(n) == {m \in Present : n \in Chain(m)}

\* resolveCapabilities: the walk ends at a node that does not inherit.  What an
\* active account may do depends on nothing else but its role.
Inheriting == {n \in Ids : node[n].inherit}
Seen(n) == n \in Present /\ \A m \in Walk(Parents, n, Inheriting) : node[m].mark = NoTrash
OpenPlace(d) == d = Root \/ (d \in FolderIds /\ Seen(d))

\* The partial unique indexes on the names of live nodes.
NameTaken(d, name, but) ==
  \E m \in ChildrenOf(d) \ but : node[m].name = name /\ node[m].mark = NoTrash

\* lastModified is the moment of the last write, for a file that of its content.
SortValue(n) == IF listing.sort = "name" THEN node[n].name ELSE node[n].modified

\* What a step does to a listing under way.
Disturb(changed) ==
  listing' = [listing EXCEPT
    !.stayed = @ \ changed,
    !.slipped = @ \/ (listing.pc = "nodes" /\ \E k \in listing.ids : k.node \in changed)]

Allowed(event) == event \in world.events /\ world.left > 0
Spend == world' = [world EXCEPT !.left = @ - 1]
Tick == moment' \in {moment, moment + 1} \cap Moments

-----------------------------------------------------------------------------
(* Changes.                                                                *)

\* createFolder: the destination is looked at, the row inserted afterwards.
CreateCheck(r, n, d, name) ==
  /\ Allowed("create") /\ change[r].pc = "idle"
  /\ n \in FolderIds \ Present /\ \A q \in TreeRequests : change[q].node # n \/ change[q].pc = "idle"
  /\ OpenPlace(d)
  /\ change' = [change EXCEPT ![r] = [pc |-> "create", node |-> n, at |-> d, name |-> name]]
  /\ Spend /\ UNCHANGED <<node, trashed, moment, listing>>

EndChange(r) == change' = [change EXCEPT ![r] = NoChange]

\* The index may refuse the name; that the folder went to the trash since it does not see.
CreateInsert(r) ==
  LET c == change[r]
  IN /\ c.pc = "create"
     /\ EndChange(r)
     /\ IF NameTaken(c.at, c.name, {})
        THEN UNCHANGED <<node, moment, listing>>
        ELSE /\ Tick
             /\ \E p \in Principals :
                  node' = [node EXCEPT ![c.node] =
                    [there |-> TRUE, parent |-> c.at, name |-> c.name, inherit |-> TRUE,
                     mark |-> NoTrash, modified |-> moment', owners |-> {p}]]
             /\ UNCHANGED listing
     /\ UNCHANGED <<world, trashed>>

RenameCheck(r, n, name) ==
  /\ Allowed("rename") /\ change[r].pc = "idle"
  /\ node[n].mark = NoTrash /\ node[n].name # name /\ Seen(n)
  /\ change' = [change EXCEPT ![r] = [NoChange EXCEPT !.pc = "rename", !.node = n, !.name = name]]
  /\ Spend /\ UNCHANGED <<node, trashed, moment, listing>>

\* The row may have gone to the trash or elsewhere since.
RenameWrite(r) ==
  LET n == change[r].node
  IN /\ change[r].pc = "rename"
     /\ EndChange(r)
     /\ IF ~node[n].there
             \/ (node[n].mark = NoTrash /\ NameTaken(node[n].parent, change[r].name, {n}))
        THEN UNCHANGED <<node, moment, listing>>
        ELSE /\ Tick
             /\ node' = [node EXCEPT ![n].name = change[r].name,
                           ![n].modified = IF n \in FolderIds THEN moment' ELSE @]
             /\ Disturb({n})
     /\ UNCHANGED <<world, trashed>>

\* moveNode
MoveNode(n, d) ==
  /\ Allowed("move") /\ node[n].parent # d /\ Seen(n) /\ OpenPlace(d)
  /\ n \notin Chain(d) /\ ~NameTaken(d, node[n].name, {n})
  /\ Tick
  /\ node' = [node EXCEPT ![n].parent = d, ![n].modified = IF n \in FolderIds THEN moment' ELSE @]
  /\ Disturb({n}) /\ Spend /\ UNCHANGED <<trashed, change>>

\* A file's content is saved, or synchronised from Drive with Drive's own time.
ContentChanges(n) ==
  /\ Allowed("content") /\ n \in Present \ FolderIds
  /\ Tick
  /\ \E m \in 0..moment' : node' = [node EXCEPT ![n].modified = m]
  /\ Disturb({n}) /\ Spend /\ UNCHANGED <<trashed, change>>

\* removeFromDocsHub
RemoveFile(n) ==
  /\ Allowed("remove") /\ n \in Present \ FolderIds /\ node[n].mark = NoTrash
  /\ node' = [node EXCEPT ![n].there = FALSE]
  /\ Disturb({n}) /\ Spend /\ UNCHANGED <<trashed, change, moment>>

\* Trash and restore are writes of the rows as well, with their moment.
Mark(marked, mark) ==
  node' = [m \in Ids |->
    IF m \notin marked THEN node[m]
    ELSE [node[m] EXCEPT !.mark = mark, !.modified = IF m \in FolderIds THEN moment' ELSE @]]

\* Mutant: what lies inside a trashed folder keeps no mark of its own.
TrashRootOnly(n, o) ==
  /\ Allowed("trash") /\ node[n].mark = NoTrash /\ Seen(n) /\ ~trashed[o].open
  /\ Tick /\ Mark({n}, o)
  /\ trashed' = [trashed EXCEPT ![o] = [open |-> TRUE, root |-> n, origin |-> node[n].parent]]
  /\ Disturb({n}) /\ Spend /\ UNCHANGED change

TrashNode(n, o) ==
  LET marked == {m \in Below(n) : node[m].mark = NoTrash}
  IN /\ Allowed("trash") /\ node[n].mark = NoTrash /\ Seen(n) /\ ~trashed[o].open
     /\ Tick /\ Mark(marked, o)
     /\ trashed' = [trashed EXCEPT ![o] = [open |-> TRUE, root |-> n, origin |-> node[n].parent]]
     /\ Disturb(marked) /\ Spend /\ UNCHANGED change

RestoreNode(o) ==
  LET back == {m \in Present : node[m].mark = o}
  IN /\ Allowed("trash") /\ trashed[o].open
     /\ node[trashed[o].root].mark = o /\ node[trashed[o].root].parent = trashed[o].origin
     /\ \A m \in Chain(trashed[o].origin) : node[m].mark = NoTrash
     /\ \A m \in back : ~NameTaken(node[m].parent, node[m].name, back)
     /\ Tick /\ Mark(back, NoTrash)
     /\ trashed' = [trashed EXCEPT ![o].open = FALSE]
     /\ Disturb(back) /\ Spend /\ UNCHANGED change

-----------------------------------------------------------------------------
(* Permissions: every change is checked as a whole before it commits.      *)

Grant(n, row) ==
  /\ Allowed("permissions") /\ node[n].mark = NoTrash /\ Seen(n)
  /\ row # node[n] /\ row.owners # {}
  /\ node' = [node EXCEPT ![n] = row]
  /\ Seen(n)'
  /\ Spend /\ UNCHANGED <<trashed, change, moment, listing>>

\* setUser, setGroup; a role below OWNER takes ownership away, as removal does.
SetOwner(n, p) == Grant(n, [node[n] EXCEPT !.owners = @ \cup {p}])
RemoveOwner(n, p) == Grant(n, [node[n] EXCEPT !.owners = @ \ {p}])
\* updateSettings
SetInheritance(n) == Grant(n, [node[n] EXCEPT !.inherit = ~@])

-----------------------------------------------------------------------------
(* Listing a folder.                                                       *)

StartListing(d, sort, ascending) ==
  /\ listing.pc = "idle" /\ "list" \in world.events
  /\ listing' = [listing EXCEPT !.pc = "browse", !.folder = d, !.sort = sort,
                   !.ascending = ascending,
                   !.stayed = {n \in ChildrenOf(d) : node[n].mark = NoTrash}]
  /\ UNCHANGED <<world, node, trashed, change, moment>>

\* requireBrowse; a folder out of sight is not listed.
Browse ==
  /\ listing.pc = "browse"
  /\ listing' = IF OpenPlace(listing.folder) THEN [listing EXCEPT !.pc = "ids"]
                ELSE [listing EXCEPT !.pc = "idle", !.shown = NothingShown, !.cursor = {},
                                     !.stayed = {}, !.slipped = FALSE]
  /\ UNCHANGED <<world, node, trashed, change, moment>>

RowOf(n) == [node |-> n, value |-> SortValue(n)]
Ordered(v, w) == IF listing.ascending THEN v < w ELSE v > w
Precedes(k, l) == Ordered(k.value, l.value) \/ (k.value = l.value /\ k.node < l.node)

\* Mutant: the node a page ends with begins the next one as well.
AfterCursorInclusive(n) ==
  \A k \in listing.cursor : k.node = n \/ Precedes(k, RowOf(n))

AfterCursor(n) == \A k \in listing.cursor : Precedes(k, RowOf(n))

\* The first `limit` rows of them, or all.
FirstOf(rows, limit, taken) ==
  /\ taken \subseteq rows /\ \A k \in taken, l \in rows \ taken : Precedes(k, l)
  /\ IF Cardinality(rows) > limit THEN Cardinality(taken) = limit ELSE taken = rows

\* findOrderedNodeIds: one more than the page takes.
ReadIds ==
  LET found == {n \in ChildrenOf(listing.folder) : node[n].mark = NoTrash /\ AfterCursor(n)}
  IN /\ listing.pc = "ids"
     /\ \E taken \in SUBSET {RowOf(n) : n \in found} :
          /\ FirstOf({RowOf(n) : n \in found}, PageLimit + 1, taken)
          /\ listing' = [listing EXCEPT !.pc = "nodes", !.ids = taken]
     /\ UNCHANGED <<world, node, trashed, change, moment>>

\* The rows of these ids that are still there; the cursor is what the last one
\* of the page is now.
ReadNodes ==
  LET rows == {k \in listing.ids : k.node \in Present}
      more == Cardinality(rows) > PageLimit
  IN /\ listing.pc = "nodes"
     /\ \E page \in SUBSET rows, end \in SUBSET rows :
          /\ FirstOf(rows, PageLimit, page)
          /\ IF more THEN \E last \in page : end = {last} /\ \A k \in page \ end : Precedes(k, last)
             ELSE end = {}
          /\ listing' = [listing EXCEPT !.pc = IF more THEN "browse" ELSE "done", !.ids = {},
               !.shown = [n \in Ids |-> IF \E k \in page : k.node = n THEN @[n] + 1 ELSE @[n]],
               !.cursor = {RowOf(k.node) : k \in end}]
     /\ UNCHANGED <<world, node, trashed, change, moment>>

-----------------------------------------------------------------------------
TreeInit ==
  /\ world \in Trees
  /\ node = [n \in Ids |-> [there |-> n \in world.there, parent |-> world.parent[n], name |-> n,
                            inherit |-> TRUE, mark |-> NoTrash, modified |-> world.modified[n],
                            owners |-> {CHOOSE p \in Principals : TRUE}]]
  /\ trashed = [o \in TrashOps |-> [open |-> FALSE, root |-> CHOOSE n \in Ids : TRUE, origin |-> Root]]
  /\ change = [r \in TreeRequests |-> NoChange]
  /\ moment = world.moment
  /\ listing = [pc |-> "idle", folder |-> Root, sort |-> "name", ascending |-> TRUE, cursor |-> {},
                ids |-> {}, shown |-> NothingShown, stayed |-> {}, slipped |-> FALSE]

TreeNext ==
  \/ \E r \in TreeRequests : CreateInsert(r) \/ RenameWrite(r)
  \/ \E r \in TreeRequests, n \in Ids, name \in TreeNames :
       RenameCheck(r, n, name) \/ \E d \in Place : CreateCheck(r, n, d, name)
  \/ \E n \in Ids : ContentChanges(n) \/ RemoveFile(n) \/ SetInheritance(n)
       \/ \E d \in Place : MoveNode(n, d)
       \/ \E o \in TrashOps : TrashNode(n, o)
       \/ \E p \in Principals : SetOwner(n, p) \/ RemoveOwner(n, p)
  \/ \E o \in TrashOps : RestoreNode(o)
  \/ \E d \in Place, sort \in SortKeys, ascending \in BOOLEAN : StartListing(d, sort, ascending)
  \/ Browse \/ ReadIds \/ ReadNodes

TreeSpec == TreeInit /\ [][TreeNext]_treeVars

-----------------------------------------------------------------------------
(* Properties.                                                             *)

\* Whatever was created, moved, trashed and cut off from its folder's
\* permissions meanwhile: folders form a tree, and a reader is shown nothing
\* that lies below a folder in the trash, although the walk that decides this
\* ends at the first node that does not inherit.
ShownIsInLiveTree ==
  \A n \in Present :
    LET above == Chain(node[n].parent)
    IN /\ n \notin above
       /\ Seen(n) => \A m \in above \cup {n} : m \in Present /\ node[m].mark = NoTrash

\* A listing that has come to its end showed every node that stayed as it was
\* in the folder, and showed it once, whatever happened to the others between
\* its pages; a node that changes while its own page is read may break this.
PagesAreComplete ==
  listing.pc = "done" /\ ~listing.slipped =>
    \A n \in listing.stayed : listing.shown[n] = 1

=============================================================================
