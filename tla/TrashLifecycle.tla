--------------------------- MODULE TrashLifecycle ---------------------------
(***************************************************************************)
(* The node tree and its trash.                                             *)
(*                                                                          *)
(* Trashing a node marks its live subtree with a trash operation; restoring *)
(* the operation takes the marks away; purging it deletes stored objects,   *)
(* then rows.  A purge is a claim, a discovery, the deletions and a         *)
(* finalization, each on its own, run by users and by the retention worker. *)
(*                                                                          *)
(* Trash, restore, move, adding a Drive file, claim and finalization are     *)
(* serializable transactions and are atomic here.  Uploads, folder creation *)
(* and removal of Drive files are not: what they check and what they write  *)
(* are two steps, between which a serializable transaction may commit.      *)
(*                                                                          *)
(* Names are left out: a clash refuses a step, which is then not taken.     *)
(***************************************************************************)
EXTENDS Integers, FiniteSets, Sequences

CONSTANTS
    Folders, Files,     \* the node ids, by type
    Top,                \* the root folder, which has no row (a null parent)
    LastOp,             \* operation ids are 1 .. LastOp, in the order of their UUIDs
    NoOp,               \* a null trashOperationId
    Users,              \* purges requested by users
    Workers,            \* the retention worker's pool of purges
    Writers,            \* requests whose check and write are two steps
    BatchSize,          \* TRASH_RETENTION_BATCH_SIZE
    LastVersion         \* bound: versions of a local file

Nodes == Folders \cup Files
Ops == 1 .. LastOp
Versions == 1 .. LastVersion
Purgers == Users \cup Workers

ASSUME ConstantsAssumption ==
    /\ Folders \cap Files = {}
    /\ Top \notin Nodes
    /\ LastOp \in Nat \ {0}
    /\ NoOp \notin Ops
    /\ Users \cap Workers = {}
    /\ BatchSize \in Nat \ {0}
    /\ LastVersion \in Nat \ {0}

VARIABLES
    row,            \* whether a Node row exists: not yet, there, or no more
    parent,         \* Node.parentId
    mark,           \* Node.trashOperationId
    versions,       \* FileVersion rows; none for a file kept in Drive
    stored,         \* objects in the local storage
    broken,         \* files whose objects it never deletes; does not change
    migrated,       \* files a DriveFileMigration row refers to
    ops,            \* table TrashOperation
    purge,          \* the purges under way
    writer,         \* the writes under way
    batch, cursor   \* the retention worker's candidates and its cursor

tree == <<row, parent, mark>>
content == <<versions, stored, broken, migrated>>
retention == <<batch, cursor>>
vars == <<row, parent, mark, versions, stored, broken, migrated, ops, purge, writer, batch, cursor>>

---------------------------------------------------------------------------

Keys == Files \X Versions
Operation == [status : {"NONE", "ACTIVE", "RESTORED", "PURGING", "PURGED"},
              root : Nodes \cup {Top}, origin : Nodes \cup {Top},
              expired : BOOLEAN]
Unused == [status |-> "NONE", root |-> Top, origin |-> Top, expired |-> FALSE]

Purge == [pc : {"idle", "claim", "discover", "delete"}, op : Ops \cup {NoOp},
          keys : SUBSET Keys]
NoPurge == [pc |-> "idle", op |-> NoOp, keys |-> {}]

Write == [pc : {"idle", "insert", "version", "remove"}, node : Nodes \cup {Top},
          at : Folders \cup {Top}, keys : SUBSET Keys]
NoWrite == [pc |-> "idle", node |-> Top, at |-> Top, keys |-> {}]

TypeOK ==
    /\ row \in [Nodes -> {"free", "there", "gone"}]
    /\ parent \in [Nodes -> Folders \cup {Top}]
    /\ mark \in [Nodes -> Ops \cup {NoOp}]
    /\ versions \in [Files -> SUBSET Versions]
    /\ stored \subseteq Keys
    /\ broken \subseteq Files
    /\ migrated \subseteq Files
    /\ ops \in [Ops -> Operation]
    /\ purge \in [Purgers -> Purge]
    /\ writer \in [Writers -> Write]
    /\ batch \in Seq(Ops) /\ Len(batch) <= BatchSize
    /\ cursor \in 0 .. LastOp

\* A node and its ancestors: what every set closed under parents has that has n.
Upward(S) == \A m \in S : parent[m] \in S \cup {Top}
Above(n) == {m \in Nodes : \A S \in SUBSET Nodes : n \in S /\ Upward(S) => m \in S}

There == {n \in Nodes : row[n] = "there"}
Subtree(n) == {m \in There : n \in Above(m)}

\* What any reader is shown: nothing from the node upwards is in the trash (no
\* node has inheritPermissions off, which would end the walk upwards there).
Visible(n) == n \in There /\ \A m \in Above(n) : mark[m] = NoOp
OpenFolder(d) == d = Top \/ (d \in Folders /\ Visible(d))

Open(o) == ops[o].status \in {"ACTIVE", "PURGING"}

\* A node id nobody has drawn.
Fresh(n) == row[n] = "free" /\ \A w \in Writers : writer[w].node # n

KeysOf(nodes) == {k \in Keys : k[1] \in nodes /\ k[2] \in versions[k[1]]}

---------------------------------------------------------------------------
(* Users and the tree *)

\* moveNode
Move(n, d) ==
    /\ Visible(n)
    /\ OpenFolder(d)
    /\ d \notin Subtree(n)
    /\ parent[n] # d
    /\ parent' = [parent EXCEPT ![n] = d]
    /\ UNCHANGED <<row, mark, content, ops, purge, writer, retention>>

\* Mutant: the nodes of an older operation inside are marked again.
TrashAgain(n, o) ==
    /\ Visible(n)
    /\ ops[o].status = "NONE"
    /\ mark' = [m \in Nodes |-> IF m \in Subtree(n) THEN o ELSE mark[m]]
    /\ ops' = [ops EXCEPT ![o] = [status |-> "ACTIVE", root |-> n,
                                  origin |-> parent[n], expired |-> FALSE]]
    /\ UNCHANGED <<row, parent, content, purge, writer, retention>>

\* trashOnce: an older operation inside the subtree keeps its nodes.
Trash(n, o) ==
    /\ Visible(n)
    /\ ops[o].status = "NONE"
    /\ mark' = [m \in Nodes |->
                  IF m \in Subtree(n) /\ mark[m] = NoOp THEN o ELSE mark[m]]
    /\ ops' = [ops EXCEPT ![o] = [status |-> "ACTIVE", root |-> n,
                                  origin |-> parent[n], expired |-> FALSE]]
    /\ UNCHANGED <<row, parent, content, purge, writer, retention>>

\* Mutant: an operation being purged can be restored.
RestoreAnyStatus(o) ==
    LET r == ops[o].root IN
    /\ r \in There
    /\ mark[r] = o
    /\ OpenFolder(ops[o].origin)
    /\ mark' = [m \in Nodes |-> IF mark[m] = o THEN NoOp ELSE mark[m]]
    /\ ops' = [ops EXCEPT ![o].status = "RESTORED"]
    /\ UNCHANGED <<row, parent, content, purge, writer, retention>>

\* restore
Restore(o) ==
    LET r == ops[o].root IN
    /\ ops[o].status = "ACTIVE"
    /\ r \in There
    /\ mark[r] = o
    /\ parent[r] = ops[o].origin
    /\ OpenFolder(ops[o].origin)
    /\ mark' = [m \in Nodes |-> IF mark[m] = o THEN NoOp ELSE mark[m]]
    /\ ops' = [ops EXCEPT ![o].status = "RESTORED"]
    /\ UNCHANGED <<row, parent, content, purge, writer, retention>>

\* expiresAt passes.
Expire(o) ==
    /\ ops[o].status = "ACTIVE"
    /\ ~ops[o].expired
    /\ ops' = [ops EXCEPT ![o].expired = TRUE]
    /\ UNCHANGED <<tree, content, purge, writer, retention>>

\* addToDocsHub: a file kept in Drive, in a serializable transaction.
AddDriveFile(n, d) ==
    /\ n \in Files
    /\ Fresh(n)
    /\ OpenFolder(d)
    /\ row' = [row EXCEPT ![n] = "there"]
    /\ parent' = [parent EXCEPT ![n] = d]
    /\ UNCHANGED <<mark, content, ops, purge, writer, retention>>

\* A run of the migration to Drive creates the file's row, in the trash or not.
RecordMigration(f) ==
    /\ f \in There /\ versions[f] # {} /\ f \notin migrated
    /\ migrated' = migrated \cup {f}
    /\ UNCHANGED <<tree, versions, stored, broken, ops, purge, writer, retention>>

---------------------------------------------------------------------------
(* Writes that check first *)

Begin(w, write) ==
    /\ writer[w].pc = "idle"
    /\ write.keys \cap stored = {}
    /\ writer' = [writer EXCEPT ![w] = write]
    /\ stored' = stored \cup write.keys
    /\ UNCHANGED <<tree, versions, broken, migrated, ops, purge, retention>>

\* createFolder, and the upload of a file, whose object is stored first.
CreateCheck(w, n, d) ==
    /\ Fresh(n)
    /\ OpenFolder(d)
    /\ Begin(w, [pc |-> "insert", node |-> n, at |-> d,
                 keys |-> {k \in Keys : k = <<n, 1>>}])

\* createVersion, restoreVersion: a new version of a local file.
VersionCheck(w, n) ==
    /\ n \in Files /\ Visible(n)
    /\ versions[n] # {}
    /\ \E v \in Versions \ versions[n] :
          Begin(w, [pc |-> "version", node |-> n, at |-> Top, keys |-> {<<n, v>>}])

\* removeFromDocsHub: the folders above are not asked for their marks.  A file
\* with versions is refused: it is local, or its foreign keys keep it.
RemoveCheck(w, n) ==
    /\ n \in Files \cap There /\ mark[n] = NoOp
    /\ versions[n] = {}
    /\ Begin(w, [pc |-> "remove", node |-> n, at |-> Top, keys |-> {}])

Done(w) == writer' = [writer EXCEPT ![w] = NoWrite]
WithVersions(keys) == [f \in Files |-> versions[f] \cup {k[2] : k \in {k \in keys : k[1] = f}}]

\* The foreign key asks for the parent's row, not for its mark.
Insert(w) ==
    LET n == writer[w].node IN
    /\ writer[w].pc = "insert"
    /\ writer[w].at \in There \cup {Top}
    /\ row' = [row EXCEPT ![n] = "there"]
    /\ parent' = [parent EXCEPT ![n] = writer[w].at]
    /\ versions' = WithVersions(writer[w].keys)
    /\ Done(w)
    /\ UNCHANGED <<mark, stored, broken, migrated, ops, purge, retention>>

\* The file's row is locked and its version counter advanced.
AddVersion(w) ==
    /\ writer[w].pc = "version"
    /\ writer[w].node \in There
    /\ versions' = WithVersions(writer[w].keys)
    /\ Done(w)
    /\ UNCHANGED <<tree, stored, broken, migrated, ops, purge, retention>>

\* Deleting a row sets the references of operations to it to null.
Forget(op, nodes) ==
    [op EXCEPT !.root = IF @ \in nodes THEN Top ELSE @,
               !.origin = IF @ \in nodes THEN Top ELSE @]

RemoveNode(w) ==
    LET n == writer[w].node IN
    /\ writer[w].pc = "remove"
    /\ n \in There
    /\ row' = [row EXCEPT ![n] = "gone"]
    /\ mark' = [mark EXCEPT ![n] = NoOp]
    /\ ops' = [o \in Ops |-> Forget(ops[o], {n})]
    /\ Done(w)
    /\ UNCHANGED <<parent, content, purge, retention>>

\* The write is refused, or fails: its object is deleted again, or left where
\* it is if that fails too or the process dies.
GiveUp(w) ==
    /\ writer[w].pc # "idle"
    /\ stored' \in {stored, stored \ writer[w].keys}
    /\ Done(w)
    /\ UNCHANGED <<tree, versions, broken, migrated, ops, purge, retention>>

---------------------------------------------------------------------------
(* Purge *)

Idle(p) == purge[p].pc = "idle"
Ends(p) == purge' = [purge EXCEPT ![p] = NoPurge]
Eligible(o) ==
    \/ ops[o].status = "PURGING"
    \/ ops[o].status = "ACTIVE" /\ ops[o].expired

\* A request for any other operation is refused by Claim and changes nothing.
AskPurge(p, o) ==
    /\ p \in Users /\ Idle(p)
    /\ Open(o)
    /\ purge' = [purge EXCEPT ![p] = [pc |-> "claim", op |-> o, keys |-> {}]]
    /\ UNCHANGED <<tree, content, ops, writer, retention>>

\* claim: the operation is locked; retention asks again whether it is eligible.
Claim(p) ==
    LET o == purge[p].op
        r == ops[o].root IN
    /\ purge[p].pc = "claim"
    /\ IF /\ r \in There
          /\ Open(o)
          /\ mark[r] = o
          /\ p \in Workers => Eligible(o)
         THEN /\ ops' = [ops EXCEPT ![o].status = "PURGING"]
              /\ purge' = [purge EXCEPT ![p].pc = "discover"]
         ELSE Ends(p) /\ UNCHANGED ops
    /\ UNCHANGED <<tree, content, writer, retention>>

\* discoverSubtree, outside any transaction.
Discover(p) ==
    LET r == ops[purge[p].op].root IN
    /\ purge[p].pc = "discover"
    /\ IF r \in There
         THEN purge' = [purge EXCEPT ![p] = [pc |-> "delete", op |-> purge[p].op,
                                             keys |-> KeysOf(Subtree(r))]]
         ELSE Ends(p)
    /\ UNCHANGED <<tree, content, ops, writer, retention>>

\* storage.delete, in any order.
DeleteObject(p) ==
    /\ purge[p].pc = "delete"
    /\ \E k \in purge[p].keys :
          /\ k[1] \notin broken
          /\ stored' = stored \ {k}
          /\ purge' = [purge EXCEPT ![p].keys = @ \ {k}]
    /\ UNCHANGED <<tree, versions, broken, migrated, ops, writer, retention>>

\* A deletion fails; the others of the pool may still go through.
DeletionFails(p) ==
    /\ purge[p].pc = "delete"
    /\ \E k \in purge[p].keys : \E gone \in SUBSET (purge[p].keys \ {k}) :
          stored' = stored \ {x \in gone : x[1] \notin broken}
    /\ Ends(p)
    /\ UNCHANGED <<tree, versions, broken, migrated, ops, writer, retention>>

\* The purge's transaction deletes no DriveFileMigration row, and those refer to
\* File and FileVersion ON DELETE RESTRICT.
RowsLetGo(nodes) == nodes \cap migrated = {}

\* finalize: the subtree is read again, with the operations nested in it.
Finalize(p) ==
    LET o == purge[p].op
        r == ops[o].root
        nodes == Subtree(r) IN
    /\ purge[p].pc = "delete"
    /\ purge[p].keys = {}
    /\ IF r \in There /\ mark[r] = o /\ ops[o].status = "PURGING" /\ RowsLetGo(nodes)
         THEN /\ row' = [n \in Nodes |-> IF n \in nodes THEN "gone" ELSE row[n]]
              /\ mark' = [n \in Nodes |-> IF n \in nodes THEN NoOp ELSE mark[n]]
              /\ versions' = [f \in Files |-> IF f \in nodes THEN {} ELSE versions[f]]
              /\ ops' = [x \in Ops |->
                    IF ops[x].root \in nodes /\ Open(x)
                      THEN [Forget(ops[x], nodes) EXCEPT !.status = "PURGED"]
                      ELSE Forget(ops[x], nodes)]
         ELSE UNCHANGED <<row, mark, versions, ops>>
    /\ Ends(p)
    /\ UNCHANGED <<parent, stored, broken, migrated, writer, retention>>

\* A statement fails, a serialization conflict persists, or the process dies.
Interrupted(p) ==
    /\ ~Idle(p)
    /\ Ends(p)
    /\ UNCHANGED <<tree, content, ops, writer, retention>>

---------------------------------------------------------------------------
(* Retention *)

\* The order of a cycle: by id, from the one after start on, and around.
Ahead(start, o, q) == IF (o > start) = (q > start) THEN o < q ELSE o > start

\* The first candidates in that order, at most limit.
From(start, limit) ==
    LET due == {o \in Ops : Eligible(o)} IN
    {b \in UNION {[1 .. n -> due] : n \in 0 .. limit} :
        /\ \A i, j \in DOMAIN b : i < j => Ahead(start, b[i], b[j])
        /\ \A o \in due :
              \/ \E i \in DOMAIN b : b[i] = o
              \/ Len(b) = limit /\ \A i \in DOMAIN b : Ahead(start, b[i], o)}

\* Mutant: every cycle starts from the first candidate.
SelectionFromStart == From(0, BatchSize)

\* Mutant: the second query does not deduct what the first one returned.
SelectionUnreduced == From(cursor, 2 * BatchSize)

\* selectCandidates
Selection == From(cursor, BatchSize)

Select ==
    /\ batch = <<>>
    /\ \A p \in Workers : Idle(p)
    /\ batch' \in Selection
    /\ UNCHANGED <<tree, content, ops, purge, writer, cursor>>

TakeCandidate(p) ==
    /\ p \in Workers /\ Idle(p)
    /\ batch # <<>>
    /\ cursor' = Head(batch)
    /\ batch' = Tail(batch)
    /\ purge' = [purge EXCEPT ![p] = [pc |-> "claim", op |-> Head(batch), keys |-> {}]]
    /\ UNCHANGED <<tree, content, ops, writer>>

\* The worker process is restarted.
Restart ==
    /\ batch' = <<>> /\ cursor' = 0
    /\ purge' = [p \in Purgers |-> IF p \in Workers THEN NoPurge ELSE purge[p]]
    /\ UNCHANGED <<tree, content, ops, writer>>

---------------------------------------------------------------------------

\* Some nodes, in any live tree.  The version of a local file is stored; a file
\* kept in Drive has no objects to be broken.
Init ==
    /\ row \in [Nodes -> {"free", "there"}]
    /\ parent \in [Nodes -> Folders \cup {Top}]
    /\ \A n \in Nodes : /\ row[n] = "free" => parent[n] = Top
                        /\ parent[n] # Top => row[parent[n]] = "there"
                        /\ parent[n] = Top \/ n \notin Above(parent[n])
    /\ mark = [n \in Nodes |-> NoOp]
    /\ versions \in [Files -> {{}, {1}}]
    /\ \A f \in Files : row[f] = "free" => versions[f] = {}
    /\ stored = {k \in Keys : k[2] \in versions[k[1]]}
    /\ broken \in SUBSET Files
    /\ \A f \in broken : row[f] = "free" \/ versions[f] # {}
    /\ migrated = {}
    /\ ops = [o \in Ops |-> Unused]
    /\ purge = [p \in Purgers |-> NoPurge]
    /\ writer = [w \in Writers |-> NoWrite]
    /\ batch = <<>>
    /\ cursor = 0

TreeStep ==
    \/ \E n \in Nodes : \E d \in Folders \cup {Top} : Move(n, d) \/ AddDriveFile(n, d)
    \/ \E o \in Ops : Restore(o) \/ Expire(o) \/ \E n \in Nodes : Trash(n, o)
    \/ \E f \in Files : RecordMigration(f)

WriteStep(w) ==
    \/ \E n \in Nodes : \E d \in Folders \cup {Top} : CreateCheck(w, n, d)
    \/ \E n \in Nodes : VersionCheck(w, n) \/ RemoveCheck(w, n)
    \/ Insert(w) \/ AddVersion(w) \/ RemoveNode(w) \/ GiveUp(w)

PurgeStep(p) == Claim(p) \/ Discover(p) \/ DeleteObject(p) \/ Finalize(p)
Setback(p) == DeletionFails(p) \/ Interrupted(p)

Next ==
    \/ TreeStep
    \/ \E w \in Writers : WriteStep(w)
    \/ \E p \in Purgers : PurgeStep(p) \/ Setback(p) \/ TakeCandidate(p)
                          \/ \E o \in Ops : AskPurge(p, o)
    \/ Select \/ Restart

Spec == Init /\ [][Next]_vars

\* The worker polls for ever and its purges go on; from some point on it is not
\* restarted, and nothing stops it but a broken object or what its own steps
\* find: a claim or a finalization that is refused, however often.
OnlyBroken(p) == \E k \in purge[p].keys : k[1] \in broken
WorkerFairness ==
    /\ WF_vars(Select)
    /\ \A p \in Workers :
          WF_vars(TakeCandidate(p) \/ PurgeStep(p) \/ (OnlyBroken(p) /\ DeletionFails(p)))
    /\ <>[][/\ ~Restart \/ UNCHANGED <<batch, cursor, purge>>
            /\ \A p \in Workers :
                  ~Idle(p) /\ Idle(p)' => OnlyBroken(p) \/ PurgeStep(p)]_vars

FairSpec == Spec /\ WorkerFairness

---------------------------------------------------------------------------
(* Properties *)

\* Marks and operations agree, whatever was nested, moved, created or purged
\* meanwhile: a marked node is in the subtree of the root of an open operation;
\* the root of an open operation carries its mark and is where it was trashed.
MarksMatchOperations ==
    /\ \A n \in There : mark[n] # NoOp =>
          Open(mark[n]) /\ n \in Subtree(ops[mark[n]].root)
    /\ \A o \in Ops : Open(o) /\ ops[o].root # Top =>
          /\ ops[o].root \in There
          /\ mark[ops[o].root] = o
          /\ parent[ops[o].root] = ops[o].origin

\* A purge deletes objects before rows and may stop in between, any number of
\* times: whoever can see a file still finds every version of it.
VisibleHasContent ==
    \A f \in Files : Visible(f) => KeysOf({f}) \subseteq stored

\* What is in the trash is there as a whole, and what is not is there in full.
TrashIsSound == MarksMatchOperations /\ VisibleHasContent

\* The operations whose purge stops at their root, gone, or at a broken object.
HeldUp(o) ==
    ops[o].root \notin There \/ KeysOf(Subtree(ops[o].root) \cap broken) # {}

\* Those whose purge deletes the objects and then no row, however often: against
\* docs/file-storage-and-engine-architecture.md:905-908, that restrictive foreign
\* keys do not make it half done.
Restricted(o) == ~RowsLetGo(Subtree(ops[o].root))

\* An operation that is due is purged, unless it is restored first: also nested
\* in another one, and also when the purge of others fails for ever.  What no
\* purge can finish are those with a broken object, or with a file that ever was
\* taken up by the migration to Drive.
DueIsPurged ==
    \A o \in Ops : Eligible(o) ~> ~Open(o) \/ HeldUp(o) \/ Restricted(o)
=============================================================================
