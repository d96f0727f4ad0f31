--------------------------- MODULE FileMutation ---------------------------
(***************************************************************************)
(* Save and Restore of a provider-backed file.                              *)
(*                                                                          *)
(* A request is one call of FileSaveCoordinator.save or                     *)
(* FileHistoryService.restoreVersion.  Every await of the code is a step of *)
(* its own here, so requests, the reconciliation worker and editors outside *)
(* DocHub interleave between any two of them.  A step that throws, and a    *)
(* process that dies, both leave the request where it stands (Abandon).     *)
(* FileSaveOperation is the write-ahead record that makes the provider      *)
(* write observable to whoever comes later.                                 *)
(*                                                                          *)
(* Google Drive is external: an object has a marker `ver` that every change *)
(* of the object raises, a head content revision, revisions kept forever    *)
(* and revisions that were deleted.  0 stands for null.                     *)
(***************************************************************************)
EXTENDS Integers, FiniteSets, Sequences

CONSTANTS
    Files,              \* logical files, each backed by one Drive object
    Requests,           \* save or restore calls, each made at most once
    OpIds,              \* operation identifiers a client may send (and resend)
    Kinds,              \* the calls a request may make, of {"SAVE", "RESTORE"}
    HistoryLimit,       \* FILE_VERSION_HISTORY_LIMIT
    BatchSize,          \* FILE_MUTATION_RECONCILIATION_BATCH_SIZE
    InsertMayFail,      \* the database may fail an insert it could have made
    RemoteEditLimit,    \* bound: no edit outside DocHub above this marker
    NoOp                \* no operation (a null operationId)

ASSUME ConstantsAssumption ==
    /\ Files # {} /\ OpIds # {}
    /\ Kinds \subseteq {"SAVE", "RESTORE"}
    /\ HistoryLimit \in Nat \ {0}
    /\ BatchSize \in Nat \ {0}
    /\ InsertMayFail \in BOOLEAN
    /\ RemoteEditLimit \in Nat
    /\ NoOp \notin OpIds

VARIABLES
    drive,              \* the provider objects
    ops,                \* table FileSaveOperation, keyed by operationId
    older,              \* its rows ordered by updatedAt: <<a, b>>, a before b
    revisions,          \* table FileRevision
    revisionSequence,   \* File.revisionSequence
    driveVersion,       \* DriveFile.driveVersion, the catalog's marker
    outbox,             \* the upserted OutboxEvent (and AuditLog) rows
    req,                \* the requests in flight: program counter and locals
    batch,              \* candidates the worker has read and not yet handled
    failing,            \* operation whose finalization the worker saw fail
    writes              \* history: every provider replace made by a request

tables == <<ops, older, revisions, revisionSequence, driveVersion, outbox>>
worker == <<batch, failing>>
vars == <<drive, ops, older, revisions, revisionSequence, driveVersion,
          outbox, req, batch, failing, writes>>

---------------------------------------------------------------------------
(* Types *)

\* What getCurrentVersion returns: the marker and the head revision's handle.
Version == [ver : Nat, rev : Nat]
NoVersion == [ver |-> 0, rev |-> 0]

DriveObject == [ver : Nat, head : Nat, kept : SUBSET Nat, gone : SUBSET Nat]

Status == {"ABSENT", "PENDING", "PROVIDER_WRITTEN", "COMPLETED", "FAILED"}
Unresolved == {"PENDING", "PROVIDER_WRITTEN"}
Kind == {"SAVE", "RESTORE"}

\* A row of FileSaveOperation.  `selected` is the restored revision, or 0.
Operation == [status : Status, file : Files, kind : Kind, expected : Nat,
              selected : Nat, previous : Version, result : Version]

Source == {"INITIAL", "MANUAL_SAVE", "RESTORE"}
Revision == [file : Files, seq : Nat, ver : Nat, rev : Nat,
             source : Source, op : OpIds \cup {NoOp}]
Event == [op : OpIds, file : Files, ver : Nat]

Answered == {"ok", "conflict", "error"}
Step == {"idle", "replay", "assert", "stat", "recheck", "old", "open",
         "preserveOld", "begin", "rebegin", "check", "upload", "reject",
         "replaced", "preserveNew", "final", "mark", "finalize",
         "replayFinalize", "stored", "prune", "release", "delete"} \cup Answered
Request == [pc : Step, kind : Kind, file : Files, op : OpIds, expected : Nat,
            selected : Nat, version : Version, pruning : SUBSET Revision]

NoRequest == [pc |-> "idle", kind |-> "SAVE", file |-> CHOOSE f \in Files : TRUE,
              op |-> CHOOSE o \in OpIds : TRUE, expected |-> 0, selected |-> 0,
              version |-> NoVersion, pruning |-> {}]

Write == [req : Requests, op : OpIds, kind : Kind, file : Files, rev : Nat]

TypeOK ==
    /\ drive \in [Files -> DriveObject]
    /\ ops \in [OpIds -> Operation]
    /\ older \subseteq OpIds \X OpIds
    /\ revisions \subseteq Revision
    /\ revisionSequence \in [Files -> Nat]
    /\ driveVersion \in [Files -> Nat]
    /\ outbox \subseteq Event
    /\ req \in [Requests -> Request]
    /\ batch \in Seq([op : OpIds, status : Unresolved])
    /\ failing \in OpIds \cup {NoOp}
    /\ writes \subseteq Write

---------------------------------------------------------------------------
(* The provider *)

CurrentVersion(f) == [ver |-> drive[f].ver, rev |-> drive[f].head]

\* files.update: new bytes are a new head revision and raise the marker.
UploadTo(f) ==
    drive' = [drive EXCEPT ![f].ver = @ + 1, ![f].head = @ + 1]

\* keepForever: changing the flag may raise the object's marker.
Preserve(f, rev) ==
    /\ rev \notin drive[f].gone
    /\ \E bump \in (IF rev \in drive[f].kept THEN {0} ELSE {0, 1}) :
          drive' = [drive EXCEPT ![f].kept = @ \cup {rev}, ![f].ver = @ + bump]

\* revisions.delete: 404 once the revision is gone; the head stays.
CanRelease(f, rev) == rev \notin drive[f].gone /\ rev # drive[f].head
Release(f, rev) ==
    drive' = [drive EXCEPT ![f].gone = @ \cup {rev}, ![f].kept = @ \ {rev}]

\* Somebody edits the object in Drive itself.
RemoteEdit(f) ==
    /\ drive[f].ver < RemoteEditLimit
    /\ UploadTo(f)
    /\ UNCHANGED <<tables, req, worker, writes>>

---------------------------------------------------------------------------
(* Operation rows *)

\* Every write of a row moves it to the end of the updatedAt order.
Touched(o) ==
    {p \in older : p[1] # o /\ p[2] # o}
        \cup {<<p, o>> : p \in {q \in OpIds \ {o} : ops[q].status # "ABSENT"}}

UpdateOperation(o, row) ==
    /\ ops' = [ops EXCEPT ![o] = row]
    /\ older' = Touched(o)

FileRevisions(f) == {r \in revisions : r.file = f}
Recorded(o) == \E r \in revisions : r.op = o

\* finalizeFileMutationOperation, one serializable transaction.
\* Mutant: a baseline with every save, not only the first.
BaselineAlways(o) ==
    LET row == ops[o] IN
    IF row.kind = "SAVE"
      THEN {[file |-> row.file, seq |-> revisionSequence[row.file] + 1,
             ver |-> row.previous.ver, rev |-> row.previous.rev,
             source |-> "INITIAL", op |-> NoOp]}
      ELSE {}

Baseline(o) ==
    LET row == ops[o] IN
    IF row.kind = "SAVE" /\ FileRevisions(row.file) = {}
      THEN {[file |-> row.file, seq |-> revisionSequence[row.file] + 1,
             ver |-> row.previous.ver, rev |-> row.previous.rev,
             source |-> "INITIAL", op |-> NoOp]}
      ELSE {}

\* Mutants: the operation type stored as the source; the baseline's position
\* forgotten; the position counted from the rows instead of the counter.
ResultRevisionWrongSource(o) ==
    LET row == ops[o] IN
    [file |-> row.file, seq |-> revisionSequence[row.file] + 2,
     ver |-> row.result.ver, rev |-> row.result.rev, source |-> row.kind,
     op |-> o]
ResultRevisionSamePosition(o) ==
    LET row == ops[o] IN
    [file |-> row.file, seq |-> revisionSequence[row.file] + 1,
     ver |-> row.result.ver, rev |-> row.result.rev,
     source |-> "MANUAL_SAVE", op |-> o]
ResultRevisionCounted(o) ==
    LET row == ops[o] IN
    [file |-> row.file,
     seq |-> Cardinality(FileRevisions(row.file) \cup Baseline(o)) + 1,
     ver |-> row.result.ver, rev |-> row.result.rev,
     source |-> "MANUAL_SAVE", op |-> o]

ResultRevision(o) ==
    LET row == ops[o] IN
    [file |-> row.file,
     seq |-> revisionSequence[row.file]
               + (IF Baseline(o) = {} THEN 1 ELSE 2),
     ver |-> row.result.ver, rev |-> row.result.rev,
     source |-> IF row.kind = "SAVE" THEN "MANUAL_SAVE" ELSE "RESTORE",
     op |-> o]

NewRevisions(o) ==
    IF Recorded(o) THEN {} ELSE Baseline(o) \cup {ResultRevision(o)}

\* The unique index on (fileId, provider, providerVersionId): P2002.
Clashes(o) ==
    /\ ~Recorded(o)
    /\ \E s \in FileRevisions(ops[o].file) \cup Baseline(o) :
          s.rev = ops[o].result.rev

ReadyToFinalize(o) ==
    /\ ops[o].status \in {"PROVIDER_WRITTEN", "COMPLETED"}
    /\ ops[o].result # NoVersion

CanFinalize(o) == ReadyToFinalize(o) /\ ~Clashes(o)

\* Mutant: the event of a restore is forgotten.
FinalizeSilentRestore(o) ==
    LET row == ops[o] IN
    /\ CanFinalize(o)
    /\ revisions' = revisions \cup NewRevisions(o)
    /\ revisionSequence' = IF Recorded(o) THEN revisionSequence
          ELSE [revisionSequence EXCEPT ![row.file] = ResultRevision(o).seq]
    /\ driveVersion' = [driveVersion EXCEPT ![row.file] = row.result.ver]
    /\ outbox' = IF row.kind = "RESTORE" \/ \E e \in outbox : e.op = o THEN outbox
          ELSE outbox \cup {[op |-> o, file |-> row.file, ver |-> row.result.ver]}
    /\ UpdateOperation(o, [row EXCEPT !.status = "COMPLETED"])

Finalize(o) ==
    LET row == ops[o] IN
    /\ CanFinalize(o)
    /\ revisions' = revisions \cup NewRevisions(o)
    /\ revisionSequence' = IF Recorded(o) THEN revisionSequence
          ELSE [revisionSequence EXCEPT ![row.file] = ResultRevision(o).seq]
    /\ driveVersion' = [driveVersion EXCEPT ![row.file] = row.result.ver]
    /\ outbox' = IF \E e \in outbox : e.op = o THEN outbox
          ELSE outbox \cup {[op |-> o, file |-> row.file, ver |-> row.result.ver]}
    /\ UpdateOperation(o, [row EXCEPT !.status = "COMPLETED"])

---------------------------------------------------------------------------
(* Requests *)

At(r, step) == req[r].pc = step
Goto(r, step) == req' = [req EXCEPT ![r].pc = step]
GotoWith(r, step, v) == req' = [req EXCEPT ![r].pc = step, ![r].version = v]

\* An unsuccessful answer; what the call had read is forgotten.
Refuse(r, answer) == req' = [req EXCEPT ![r] = [NoRequest EXCEPT !.pc = answer]]

\* A call arrives: the client saw some earlier marker, and may resend an
\* operation id.  A restore has found the history row it was asked for.
Start(r) ==
    /\ At(r, "idle")
    /\ \E k \in Kinds, f \in Files, o \in OpIds :
       \E v \in 1 .. drive[f].ver :
       \E s \in (IF k = "SAVE" THEN {0} ELSE {x.rev : x \in FileRevisions(f)}) :
          req' = [req EXCEPT ![r] =
                    [pc |-> "replay", kind |-> k, file |-> f, op |-> o,
                     expected |-> v, selected |-> s, version |-> NoVersion,
                     pruning |-> {}]]
    /\ UNCHANGED <<drive, tables, worker, writes>>

SameMutation(r, row) ==
    /\ row.file = req[r].file
    /\ row.kind = req[r].kind
    /\ row.expected = req[r].expected
    /\ row.selected = req[r].selected

\* Mutant: a provider-written operation is answered without finalizing it.
ReplayUnfinalized(r, step, absent) ==
    LET row == ops[req[r].op] IN
    /\ At(r, step)
    /\ \/ /\ row.status = "ABSENT"
          /\ IF absent \in Answered THEN Refuse(r, absent) ELSE Goto(r, absent)
       \/ /\ row.status # "ABSENT"
          /\ ~SameMutation(r, row) \/ row.status \in {"PENDING", "FAILED"}
          /\ Refuse(r, "conflict")
       \/ /\ row.status \in {"PROVIDER_WRITTEN", "COMPLETED"}
          /\ SameMutation(r, row)
          /\ GotoWith(r, "ok", row.result)
    /\ UNCHANGED <<drive, tables, worker, writes>>

\* replayOperation / replayRestore: what the durable row says of the retry.
ReplayFrom(r, step, absent) ==
    LET row == ops[req[r].op] IN
    /\ At(r, step)
    /\ \/ /\ row.status = "ABSENT"
          /\ IF absent \in Answered THEN Refuse(r, absent) ELSE Goto(r, absent)
       \/ /\ row.status # "ABSENT"
          /\ \/ ~SameMutation(r, row)
             \/ row.status \in {"PENDING", "FAILED"}
          /\ Refuse(r, "conflict")
       \/ /\ row.status = "PROVIDER_WRITTEN"
          /\ SameMutation(r, row)
          /\ Goto(r, "replayFinalize")
       \/ /\ row.status = "COMPLETED"
          /\ SameMutation(r, row)
          /\ GotoWith(r, "ok", row.result)
    /\ UNCHANGED <<drive, tables, worker, writes>>

Replay(r) == ReplayFrom(r, "replay", "assert")

ReplayAfterMismatch(r) == ReplayFrom(r, "recheck", "conflict")

\* A failed create: save rethrows when no row is there, restore carries on.
ReplayAfterCreate(r) ==
    ReplayFrom(r, "rebegin", IF req[r].kind = "SAVE" THEN "error" ELSE "check")

ReplayFinalize(r) ==
    /\ At(r, "replayFinalize")
    /\ \/ Finalize(req[r].op) /\ Goto(r, "stored")
       \/ /\ ~CanFinalize(req[r].op)
          /\ Refuse(r, "error")
          /\ UNCHANGED tables
    /\ UNCHANGED <<drive, worker, writes>>

ReturnStored(r) ==
    /\ At(r, "stored")
    /\ GotoWith(r, "ok", ops[req[r].op].result)
    /\ UNCHANGED <<drive, tables, worker, writes>>

AssertNoUnresolvedMutation(r) ==
    /\ At(r, "assert")
    /\ IF \E o \in OpIds \ {req[r].op} :
             ops[o].status \in Unresolved /\ ops[o].file = req[r].file
         THEN Refuse(r, "conflict")
         ELSE Goto(r, IF req[r].kind = "SAVE" THEN "stat" ELSE "old")
    /\ UNCHANGED <<drive, tables, worker, writes>>

\* The precheck of save.
Stat(r) ==
    /\ At(r, "stat")
    /\ Goto(r, IF drive[req[r].file].ver = req[r].expected THEN "old" ELSE "recheck")
    /\ UNCHANGED <<drive, tables, worker, writes>>

\* getCurrentVersion before the write; restore does its precheck on it.
ReadOldVersion(r) ==
    /\ At(r, "old")
    /\ LET current == CurrentVersion(req[r].file) IN
       CASE req[r].kind = "SAVE" -> GotoWith(r, "preserveOld", current)
         [] req[r].kind = "RESTORE" /\ current.ver = req[r].expected ->
              GotoWith(r, "open", current)
         [] OTHER -> Refuse(r, "conflict")
    /\ UNCHANGED <<drive, tables, worker, writes>>

OpenVersion(r) ==
    /\ At(r, "open")
    /\ IF req[r].selected \in drive[req[r].file].gone
         THEN Refuse(r, "error") ELSE Goto(r, "preserveOld")
    /\ UNCHANGED <<drive, tables, worker, writes>>

PreserveOldVersion(r) ==
    /\ At(r, "preserveOld")
    /\ Preserve(req[r].file, req[r].version.rev)
    /\ Goto(r, "begin")
    /\ UNCHANGED <<tables, worker, writes>>

\* Mutant: the insert is an upsert, so that a row already there is taken over.
BeginByUpsert(r) ==
    LET q == req[r] IN
    /\ At(r, "begin")
    /\ UpdateOperation(q.op,
          [status |-> "PENDING", file |-> q.file, kind |-> q.kind,
           expected |-> q.expected, selected |-> q.selected,
           previous |-> q.version, result |-> NoVersion])
    /\ Goto(r, "check")
    /\ UNCHANGED <<drive, revisions, revisionSequence, driveVersion, outbox,
                   worker, writes>>

\* beginOperation / beginRestore: insert the row; the unique operationId or a
\* database error turns the insert into a replay.
BeginOperation(r) ==
    LET q == req[r] IN
    /\ At(r, "begin")
    /\ \/ /\ ops[q.op].status = "ABSENT"
          /\ UpdateOperation(q.op,
               [status |-> "PENDING", file |-> q.file, kind |-> q.kind,
                expected |-> q.expected, selected |-> q.selected,
                previous |-> IF q.kind = "SAVE" THEN q.version ELSE NoVersion,
                result |-> NoVersion])
          /\ Goto(r, "check")
       \/ /\ ops[q.op].status # "ABSENT" \/ InsertMayFail
          /\ Goto(r, "rebegin")
          /\ UNCHANGED <<ops, older>>
    /\ UNCHANGED <<drive, revisions, revisionSequence, driveVersion, outbox,
                   worker, writes>>

\* StorageProvider.replace: a fresh stat, then, not atomically, the upload.
CheckRevision(r) ==
    /\ At(r, "check")
    /\ Goto(r, IF drive[req[r].file].ver = req[r].expected THEN "upload" ELSE "reject")
    /\ UNCHANGED <<drive, tables, worker, writes>>

Upload(r) ==
    LET f == req[r].file IN
    /\ At(r, "upload")
    /\ UploadTo(f)
    /\ writes' = writes \cup
         {[req |-> r, op |-> req[r].op, kind |-> req[r].kind, file |-> f,
           rev |-> drive[f].head + 1]}
    /\ Goto(r, "replaced")
    /\ UNCHANGED <<tables, worker>>

\* StorageConflictError: the row becomes FAILED (an absent row is ignored).
RejectConflict(r) ==
    LET o == req[r].op IN
    /\ At(r, "reject")
    /\ \/ /\ ops[o].status # "ABSENT"
          /\ UpdateOperation(o, [ops[o] EXCEPT !.status = "FAILED"])
       \/ UNCHANGED <<ops, older>>
    /\ Refuse(r, "conflict")
    /\ UNCHANGED <<drive, revisions, revisionSequence, driveVersion, outbox,
                   worker, writes>>

ReadReplacedVersion(r) ==
    /\ At(r, "replaced")
    /\ GotoWith(r, "preserveNew", CurrentVersion(req[r].file))
    /\ UNCHANGED <<drive, tables, worker, writes>>

PreserveNewVersion(r) ==
    /\ At(r, "preserveNew")
    /\ Preserve(req[r].file, req[r].version.rev)
    /\ Goto(r, "final")
    /\ UNCHANGED <<tables, worker, writes>>

ReadFinalVersion(r) ==
    /\ At(r, "final")
    /\ GotoWith(r, "mark", CurrentVersion(req[r].file))
    /\ UNCHANGED <<drive, tables, worker, writes>>

\* markProviderWritten: an unconditional update by operationId.
MarkProviderWritten(r) ==
    LET o == req[r].op IN
    /\ At(r, "mark")
    /\ \/ /\ ops[o].status # "ABSENT"
          /\ UpdateOperation(o, [ops[o] EXCEPT !.status = "PROVIDER_WRITTEN",
                                               !.result = req[r].version])
          /\ Goto(r, "finalize")
       \/ /\ ops[o].status = "ABSENT"
          /\ Refuse(r, "error")
          /\ UNCHANGED <<ops, older>>
    /\ UNCHANGED <<drive, revisions, revisionSequence, driveVersion, outbox,
                   worker, writes>>

FinalizeRequest(r) ==
    /\ At(r, "finalize")
    /\ \/ Finalize(req[r].op) /\ Goto(r, "prune")
       \/ /\ ~CanFinalize(req[r].op)
          /\ Refuse(r, "error")
          /\ UNCHANGED tables
    /\ UNCHANGED <<drive, worker, writes>>

\* prune: the rows after the newest HistoryLimit, newest first.
BeyondLimit(f) ==
    {x \in FileRevisions(f) :
        Cardinality({y \in FileRevisions(f) : y.seq > x.seq}) >= HistoryLimit}

\* Mutant: retention keeps one row too few.
SelectOneTooMany(r) ==
    /\ At(r, "prune")
    /\ req' = [req EXCEPT ![r].pc = "release",
          ![r].pruning = {x \in FileRevisions(req[r].file) :
             Cardinality({y \in FileRevisions(req[r].file) : y.seq > x.seq})
               >= HistoryLimit - 1}]
    /\ UNCHANGED <<drive, tables, worker, writes>>

SelectPrunable(r) ==
    /\ At(r, "prune")
    /\ req' = [req EXCEPT ![r].pc = "release",
                          ![r].pruning = BeyondLimit(req[r].file)]
    /\ UNCHANGED <<drive, tables, worker, writes>>

NextToPrune(r, x) ==
    /\ x \in req[r].pruning
    /\ \A y \in req[r].pruning : y.seq <= x.seq

\* Release at the provider; an error skips to the next row.
ReleaseRow(r) ==
    /\ At(r, "release")
    /\ \/ /\ req[r].pruning = {}
          /\ Goto(r, "ok")
          /\ UNCHANGED drive
       \/ \E x \in req[r].pruning :
             /\ NextToPrune(r, x)
             /\ \/ /\ CanRelease(x.file, x.rev)
                   /\ Release(x.file, x.rev)
                   /\ Goto(r, "delete")
                \/ /\ req' = [req EXCEPT ![r].pruning = @ \ {x}]
                   /\ UNCHANGED drive
    /\ UNCHANGED <<tables, worker, writes>>

\* Then delete the row; an error is logged and swallowed.
DeleteRow(r) ==
    /\ At(r, "delete")
    /\ \E x \in req[r].pruning :
          /\ NextToPrune(r, x)
          /\ revisions' \in {revisions \ {x}, revisions}
          /\ req' = [req EXCEPT ![r].pc = "release", ![r].pruning = @ \ {x}]
    /\ UNCHANGED <<drive, ops, older, revisionSequence, driveVersion, outbox,
                   worker, writes>>

\* A call fails with an error, the process dies or the caller gives up: the
\* client learns nothing more and nothing is undone.
Abandon(r) ==
    /\ req[r].pc \notin {"idle"} \cup Answered
    /\ Refuse(r, "error")
    /\ UNCHANGED <<drive, tables, worker, writes>>

---------------------------------------------------------------------------
(* The reconciliation worker, one cycle at a time *)

UnresolvedOps == {o \in OpIds : ops[o].status \in Unresolved}

\* The query: stale unresolved rows, least recently updated first, at most
\* BatchSize.  How many rows are stale by now is left open.
Oldest(b) ==
    /\ \A i, j \in DOMAIN b : i < j => <<b[i], b[j]>> \in older
    /\ \A o \in UnresolvedOps : \A i \in DOMAIN b :
          <<o, b[i]>> \in older => \E j \in DOMAIN b : b[j] = o

ScanFirst(n) ==
    /\ batch = <<>>
    /\ failing = NoOp
    /\ \E b \in [1 .. n -> UnresolvedOps] :
          /\ Oldest(b)
          /\ batch' = [i \in 1 .. n |-> [op |-> b[i], status |-> ops[b[i]].status]]
    /\ UNCHANGED <<drive, tables, req, failing, writes>>

Scan == \E n \in 0 .. BatchSize : ScanFirst(n)

\* The cycle in which every unresolved row has become stale.
ScanStale ==
    LET n == Cardinality(UnresolvedOps) IN
    n > 0 /\ ScanFirst(IF n < BatchSize THEN n ELSE BatchSize)

SkipPending ==
    /\ batch # <<>>
    /\ Head(batch).status = "PENDING"
    /\ batch' = Tail(batch)
    /\ UNCHANGED <<drive, tables, req, failing, writes>>

NextToReconcile(o) ==
    /\ batch # <<>>
    /\ failing = NoOp
    /\ Head(batch) = [op |-> o, status |-> "PROVIDER_WRITTEN"]
    /\ batch' = Tail(batch)

Reconcile(o) ==
    /\ NextToReconcile(o)
    /\ Finalize(o)
    /\ UNCHANGED <<drive, req, failing, writes>>

\* Mutant: no error is unrecoverable.
NothingUnrecoverable(o) ==
    /\ NextToReconcile(o)
    /\ ReadyToFinalize(o) /\ Clashes(o)
    /\ UpdateOperation(o, ops[o])
    /\ UNCHANGED <<drive, revisions, revisionSequence, driveVersion, outbox,
                   req, failing, writes>>

\* A unique-index violation is unrecoverable; the row is updated in a
\* statement of its own.
ReconcileUnrecoverable(o) ==
    /\ NextToReconcile(o)
    /\ ReadyToFinalize(o) /\ Clashes(o)
    /\ failing' = o
    /\ UNCHANGED <<drive, tables, req, writes>>

MarkFailed ==
    /\ failing # NoOp
    /\ UpdateOperation(failing, [ops[failing] EXCEPT !.status = "FAILED"])
    /\ failing' = NoOp
    /\ UNCHANGED <<drive, revisions, revisionSequence, driveVersion, outbox,
                   req, batch, writes>>

\* Any other error only counts an attempt, which also updates updatedAt.
ReconcileRetryLater(o) ==
    /\ NextToReconcile(o)
    /\ UpdateOperation(o, ops[o])
    /\ UNCHANGED <<drive, revisions, revisionSequence, driveVersion, outbox,
                   req, failing, writes>>

WrittenInBatch == \E i \in DOMAIN batch : batch[i].status = "PROVIDER_WRITTEN"

\* The worker restarts: what it read is forgotten.  (Forgetting candidates it
\* would only skip is no different from skipping them.)
RestartWorker ==
    /\ failing # NoOp \/ WrittenInBatch
    /\ batch' = <<>>
    /\ failing' = NoOp
    /\ UNCHANGED <<drive, tables, req, writes>>

---------------------------------------------------------------------------

\* A file has either no product history yet, or its initial revision, whose
\* provider version was preserved when it was registered.
Init ==
    \E managed \in SUBSET Files :
    /\ drive = [f \in Files |->
                  [ver |-> 1, head |-> 1, gone |-> {},
                   kept |-> IF f \in managed THEN {1} ELSE {}]]
    /\ ops = [o \in OpIds |->
                [status |-> "ABSENT", file |-> CHOOSE f \in Files : TRUE,
                 kind |-> "SAVE", expected |-> 0, selected |-> 0,
                 previous |-> NoVersion, result |-> NoVersion]]
    /\ older = {}
    /\ revisions = {[file |-> f, seq |-> 1, ver |-> 1, rev |-> 1,
                     source |-> "INITIAL", op |-> NoOp] : f \in managed}
    /\ revisionSequence = [f \in Files |-> IF f \in managed THEN 1 ELSE 0]
    /\ driveVersion = [f \in Files |-> 1]
    /\ outbox = {}
    /\ req = [r \in Requests |-> NoRequest]
    /\ batch = <<>>
    /\ failing = NoOp
    /\ writes = {}

RequestStep(r) ==
    \/ Start(r) \/ Replay(r) \/ ReplayAfterMismatch(r) \/ ReplayAfterCreate(r)
    \/ ReplayFinalize(r) \/ ReturnStored(r) \/ AssertNoUnresolvedMutation(r)
    \/ Stat(r) \/ ReadOldVersion(r) \/ OpenVersion(r) \/ PreserveOldVersion(r)
    \/ BeginOperation(r) \/ CheckRevision(r) \/ Upload(r) \/ RejectConflict(r)
    \/ ReadReplacedVersion(r) \/ PreserveNewVersion(r) \/ ReadFinalVersion(r)
    \/ MarkProviderWritten(r) \/ FinalizeRequest(r) \/ SelectPrunable(r)
    \/ ReleaseRow(r) \/ DeleteRow(r) \/ Abandon(r)

WorkerStep ==
    \/ Scan \/ SkipPending \/ MarkFailed \/ RestartWorker
    \/ \E o \in OpIds :
          Reconcile(o) \/ ReconcileUnrecoverable(o) \/ ReconcileRetryLater(o)

Next ==
    \/ \E r \in Requests : RequestStep(r)
    \/ WorkerStep
    \/ \E f \in Files : RemoteEdit(f)

Spec == Init /\ [][Next]_vars

ReconcileSettles == \E o \in OpIds : Reconcile(o) \/ ReconcileUnrecoverable(o)

\* Reading on past o to a candidate that needs finalization.
SkipToWritten(o) == SkipPending /\ Head(batch).op = o /\ WrittenInBatch

\* The worker polls for ever, every row becomes stale, and neither restarts nor
\* the database interrupt the batch at one and the same point for ever.  Nobody
\* owes a request's completion.
WorkerFairness ==
    /\ SF_vars(ScanStale)
    /\ WF_vars(SkipPending)
    /\ \A o \in OpIds : SF_vars(SkipToWritten(o))
    /\ SF_vars(ReconcileSettles)
    /\ SF_vars(MarkFailed)

FairSpec == Spec /\ WorkerFairness
---------------------------------------------------------------------------
(* Properties *)

\* A call answered with success left everything durable: the event is published
\* with the very revision the client was told, the operation's row keeps that
\* result, and somebody wrote the bytes.
OkIsDurable ==
    \A r \in Requests : At(r, "ok") =>
        LET o == req[r].op IN
        /\ [op |-> o, file |-> req[r].file, ver |-> req[r].version.ver] \in outbox
        /\ ops[o].result = req[r].version
        /\ \E w \in writes : w.op = o /\ w.file = req[r].file

\* However often a save is resent, raced or reconciled, the calls that carry
\* one operation id replace the provider object at most once between them, and
\* only while the write-ahead row stands.
SaveWritesOnce ==
    \A w \in writes : w.kind = "SAVE" =>
        /\ ops[w.op].status # "ABSENT"
        /\ \A x \in writes : x.op = w.op /\ x.kind = "SAVE" => x = w

\* History, event, completion and answer agree: a successful answer is durable, a
\* completed operation has its event, the event repeats the result its row keeps,
\* and a history row repeats what its event says.
PublishedTogether ==
    /\ OkIsDurable
    /\ \A o \in OpIds : ops[o].status = "COMPLETED" => \E e \in outbox : e.op = o
    /\ \A e \in outbox : e.ver = ops[e.op].result.ver /\ e.file = ops[e.op].file
    /\ \A x \in revisions : x.op # NoOp =>
          [op |-> x.op, file |-> x.file, ver |-> x.ver] \in outbox

\* The history of a file is a sequence: positions and provider versions are
\* distinct, none is past the counter, an operation owns one row, and the
\* baseline, recorded before every mutation of the file and never again, is the
\* oldest row.
HistoryIsSequence ==
    \A x, y \in revisions :
        /\ x.seq \in 1 .. revisionSequence[x.file]
        /\ x.file = y.file /\ (x.seq = y.seq \/ x.rev = y.rev) => x = y
        /\ x.op = y.op /\ x.op # NoOp => x = y
        /\ x.file = y.file /\ x.source = "INITIAL" => x.seq <= y.seq

\* Save and Restore keep what MutationOutcome promises: the published event is
\* the effect, and a successful answer repeats it.
Outcome == INSTANCE MutationOutcome WITH
    effect <- [o \in OpIds |->
        IF \E e \in outbox : e.op = o
          THEN (CHOOSE e \in outbox : e.op = o).ver ELSE 0],
    answer <- [r \in Requests |->
        [said |-> IF At(r, "ok") THEN "done"
                  ELSE IF req[r].pc \in Answered THEN "refused" ELSE "silent",
         ver |-> [o \in OpIds |-> IF At(r, "ok") /\ req[r].op = o
                                    THEN req[r].version.ver ELSE 0]]]

ImplementsOutcome == Outcome!Spec

\* Retention, working from a list of rows that grows old while it releases
\* them one by one, never releases a version of the newest HistoryLimit rows.
RetentionSparesRecent ==
    [][\A f \in Files : \A x \in FileRevisions(f) \ BeyondLimit(f) :
          x.rev \in drive'[f].gone => x.rev \in drive[f].gone]_vars

\* A history position is never given out twice, even after retention.
PositionsGrow ==
    [][\A x \in revisions' \ revisions : x.seq > revisionSequence[x.file]]_vars

\* Bytes that reached the provider get their history, or are given up by name.
WrittenIsResolved ==
    \A o \in OpIds : ops[o].status = "PROVIDER_WRITTEN" ~>
                        ops[o].status \in {"COMPLETED", "FAILED"}

(* What the documentation says, and the code does not keep *)

\* A provider replace is observable: its write-ahead record exists.
WriteAhead == \A w \in writes : ops[w.op].status # "ABSENT"
===========================================================================
