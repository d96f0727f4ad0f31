# DocHub in TLA+

Models, model-checking configurations and machine-checked proofs for DocHub:
a NestJS API (`apps/api`), a NestJS worker (`apps/worker`), a React client
(`apps/web`) and shared packages (`packages/database`, `packages/storage`,
`packages/trash`) over PostgreSQL and Google Drive. The models are translated
from the code; each definition's source lines are in the `map` of
`PROJECT.json`. Where the documentation and the code disagree the model follows
the code and the disagreement is a run of its own.

## 1. Inventory

| component | state it keeps | operations | interacts with | what is hard |
|---|---|---|---|---|
| Save and Restore (`file-save-coordinator.ts`, `file-history.service.ts`) | `FileSaveOperation`, `FileRevision`, `File.revisionSequence`, `DriveFile.driveVersion`, outbox and audit rows | save, restoreVersion, saveAsCopy, retention of the history | provider (preserve, replace, stat), finalizer, reconciliation worker, resending clients | eight or more awaits between the check and the commit, provider writes that cannot be rolled back, resends of the same operation |
| Finalizer (`file-mutation-finalizer.ts`) | the same tables | one serializable transaction | API requests and the worker run it on the same row | idempotence while retention deletes the row it looks for |
| Reconciliation worker | the batch it has read | poll, finalize, mark failed | finalizer | stale candidates, starvation, verdict and statement apart |
| Provider (`google-drive-storage.provider.ts`) | the Drive object | stat, replace, versions | Drive, and people editing in Drive | check-then-upload, markers that move on their own |
| Revision processing (`revision-file-processing.service.ts`) | outbox rows, `FileProcessingTask`, `FileTextExtraction`, `SearchDocument` | materialise, claim, extract, persist, retry | finalizer (events), provider, legacy import | leases, late results, older revisions finishing last |
| Local-version processing, backfill | `FileVersion` processing columns, backfill cursor | claim, extract, record | uploads | lease expiry, wraparound of the cursor |
| Trash and retention (`packages/trash`, `trash.service.ts`, `retention.service.ts`) | `Node.trashOperationId`, `TrashOperation`, the cursor of retention | trash, restore, purge, expire; the retention cycle | node tree, storage | nested operations, objects deleted before rows, purges that die or fail for ever |
| Node tree (`nodes.service.ts`) | `Node` rows | create, rename, move, reorder | trash, permissions | cycles, unique names under concurrent moves |
| Drive upload and native creation (`drive-upload.service.ts`) | `DriveFile`, `Node`, upload keys | create, upload, register, clean up | Drive | an external object without a row, retried creations |
| Drive synchronisation (`drive.service.ts`) | `DriveIntegration.status` and page token | connect, full and incremental sync, register changes | Drive, legacy import | SYNCING is a lock nobody expires |
| Drive migration (`drive-file-migration.service.ts`) | `DriveFileMigration`, `File.backingType` | claim, copy, verify, cut over, roll back, clean up | local storage, Drive, outbox | 15-minute lease against long uploads, cutover against edits |
| Sessions, Google binding (`auth-session.service.ts`, `google-auth.service.ts`) | `AuthSession`, `GoogleIdentity`, `User.status` | issue, refresh, rotate, revoke, link | administration | rotation raced by a second refresh, disable raced by sign-in |
| Authorization, permissions, sharing | grants on nodes | resolve, grant, revoke, transfer, link | node tree | inherited role after a move; last owner |
| Administration | users, invitations | roles, status, invitations | sessions | last administrator |
| Local files, multipart upload | `File.versionCounter`, `FileVersion` | upload version, restore, promote | storage, processing | files staged in storage against rows |
| Downloads and previews (`file-read.service.ts`, `preview.service.ts`, `drive-preview.service.ts`) | signed sessions, directories of conversions | open a session, read bytes by range, models and their parts, convert | storage, authorization, editors | sessions that outlive a right; sizes, labels and bytes read at different moments; readers who leave |
| Upload queue (`upload-queue.ts`, `api.ts`) | items of the panel, the access token | run, retry, clear; one shared refresh | Drive upload | answers in any order, expiry and refusal among parallel requests |
| Collections, search, file engines, rest of the web client, deployment | rows, browser drafts | queries, parsing, rendering | all of the above | mostly data transformation and I/O |

`PROJECT.json` lists each of them under `components` with its present status,
and the hazards of the modelled ones, at their lines, under `hazards`.

## 2. Modules

| module | models | composed by | proofs |
|---|---|---|---|
| `FileMutation` | requests, finalizer, reconciliation worker and provider in one state | `MCFileMutation` | `FileMutationProofs` |
| `MutationOutcome` | what Save and Restore promise (abstract specification) | refined by `FileMutation` | `FileMutationProofs` |
| `RevisionProcessing` | outbox, leased tasks, texts and the search document | `MCRevisionProcessing` | `RevisionProcessingProofs` |
| `TrashLifecycle` | node tree, trash operations, writes that check first, purges, retention | itself | `TrashLifecycleProofs` |
| `Accounts` | administration, Google logins, sessions | `MCAccounts` | `AccountsProofs` |
| `DriveCatalog` | connection and metadata sync | `MCDrive` | `DriveProofs` |
| `DriveRegistration` | creation of documents in Drive, by key | `MCDrive` | `DriveProofs` |
| `ResumableUpload` | the chunked upload | `MCDrive` | `DriveProofs` |
| `DriveMigration` | migration of a local file and its rollback | `MCDrive` | `DriveProofs` |
| `EditorSession` | editors, saves and recovery drafts in the browser | `MCWorkspace` | `EditorProofs` |
| `NodeTree` | names, owners, inheritance, listing page by page | `MCWorkspace` | `WorkspaceProofs` |
| `LocalFiles` | bytes on the server's disk against rows | `MCWorkspace` | `WorkspaceProofs` |
| `IndexBackfill` | the operators' indexing command and its cursor | `MCWorkspace` | `WorkspaceProofs` |
| `FileReading` | downloads, previews, conversions, and the checks before them | `MCWorkspace` | `WorkspaceProofs` |
| `UploadQueue` | the queue of a browser's uploads and its access token | `MCWorkspace` | `WorkspaceProofs` |
| `SpanEdits`, `SheetPatch`, `TextPatch`, `DocumentPatch`, `SlidePatch`, `OfficeSaves`, `OfficeSamples` | what a save makes of an office file | `MCWorkspace` | `MCWorkspaceProofs` (slides, texts) |

`MCDrive` and `MCWorkspace` put components side by side that share no state
their models look at. A behaviour moves one of them, its *theme*, and leaves the
others at rest; nothing is lost, since no step of one is a step of another.
`DriveProofs` and `MCWorkspaceProofs` carry what is proved of the components over
to the compositions, which are what the runs check.

Conventions: CONSTANTS with a named ASSUME, one action per await or transaction,
invariants as conjunctions of named parts, no RECURSIVE operator in a module
with proofs or in the modules it uses.

All runs:

| run | expects | checks |
|---|---|---|
| `save_restore` | pass | `TypeOK`, `PublishedTogether`, `HistoryIsSequence`, `SaveWritesOnce`, `RetentionSparesRecent`, `PositionsGrow` |
| `reconciliation` | pass | `WrittenIsResolved`, `ImplementsOutcome` |
| `write_ahead` | violation | `WriteAhead` |
| `processing` | pass | `TypeOK`, `FinishedLeftItsResult`, `LateHolderIsHarmless`, `IndexNeverGoesBack` |
| `searchable` | pass | `CurrentIsSearchable` |
| `trash` | pass | `TypeOK`, `TrashIsSound`, `DueIsPurged` |
| `accounts` | pass | `AccountsTypeOK`, `AnAdminRemains`, `ApprovalBeforeAccess`, `OneGoogleAccount`, `RedeemedOnce`, `ClosedIsFinal` |
| `last_admin` | violation | `AnAdminRemains` |
| `drive` | pass | `DriveTypesOK`, `LockIsSound`, `RegistrationIsExact`, `FileIsSource`, `ObjectsAreTracked`, `SweepIsExact`, `BackingFollowsVersion`, `WorkEnds` |
| `workspace` | pass | `WorkspaceTypesOK`, `MergeLosesNothing`, `SavedReadsAsMeant`, `ShownIsInLiveTree`, `PagesAreComplete`, `BytesMatchRows`, `BackfillReachesAll`, `ReadsAreSound`, `QueueIsHonest`, `NothingUnseenIsOverwritten` |
| `resent_save` | violation | `SavedMeansStored` |
| `blank_cells` | violation | `SavedReadsAsMeant` |

The four violations are the `findings` of `PROJECT.json`; each is against a
sentence of the repository quoted there.

## 3. `FileMutation`: Save and Restore

### What it models

A request is one call of `FileSaveCoordinator.save` or
`FileHistoryService.restoreVersion`; `req[r].pc` is the await it stands at and
the other fields are the locals that survive an await. Each await is an action,
so that other requests, the worker and people editing in Drive can step in
between any two of them:

| pc | action | code |
|---|---|---|
| idle | `Start` | the client's marker and operation id; both may be old or reused |
| replay, recheck, rebegin | `Replay`, `ReplayAfterMismatch`, `ReplayAfterCreate` | `replayOperation`, `replayRestore` and the three places that call them |
| replayFinalize, stored | `ReplayFinalize`, `ReturnStored` | finalize the row found, read its result |
| assert | `AssertNoUnresolvedMutation` | the read of other unresolved rows |
| stat | `Stat` | the precheck of save |
| old | `ReadOldVersion` | `getCurrentVersion`; for a restore also its precheck |
| open | `OpenVersion` | the historical version of a restore |
| preserveOld | `PreserveOldVersion` | `preserveVersion` before the write |
| begin | `BeginOperation` | insert of the write-ahead row |
| check, upload | `CheckRevision`, `Upload` | `replace`: its stat and its upload are two calls |
| reject | `RejectConflict` | the row becomes FAILED |
| replaced, preserveNew, final | `ReadReplacedVersion`, `PreserveNewVersion`, `ReadFinalVersion` | reads and preservation after the write |
| mark, finalize | `MarkProviderWritten`, `FinalizeRequest` | the row, then the transaction |
| prune, release, delete | `SelectPrunable`, `ReleaseRow`, `DeleteRow` | retention, row by row |
| any | `Abandon` | the step throws, or the process dies: nothing is undone |

`Finalize(o)` is the serializable transaction of the finalizer, one atomic
step: baseline, result row, counter, catalog marker, event (the audit row has
the same key and is not kept apart), completion. `Clashes(o)` is the unique
index on the provider version that makes it fail.

The worker reads a batch (`Scan`: any number of rows may be stale; least
recently updated first; at most `BatchSize`), skips PENDING candidates,
finalizes the others (`Reconcile`), or sees a unique violation
(`ReconcileUnrecoverable`) and stores FAILED in a later statement
(`MarkFailed`), or counts an attempt (`ReconcileRetryLater`). It may restart.
`older` is the `updatedAt` order as a set of pairs.

The provider object has the marker `version`, the head revision, the set of
revisions kept for ever and the set of deleted ones. Preserving a revision may
raise the marker (Drive's documentation allows it, the code reads the version
again because of it). `RemoteEdit` is somebody editing in Drive.

Left out: bytes, MIME types, sizes, checksums, authorization and the parsing of
the payload (before the first await that matters), log lines, the audit row of
a refused save, opening the model for the answer (a failure there after the
commit is `Abandon`). A row of the two versions of prune (save's and restore's)
is the same.

### Runs

Requests are symmetric, files and operations are not. The runs use one file: no
step relates two files except the worker's batch.

| run | instance |
|---|---|
| `save_restore` | 2 calls (save or restore), 2 operation ids, history limit 1, edits outside up to marker 2 |
| `reconciliation` | 2 saves, a batch of the backlog's size, history limit 2, 1 edit outside, fairness |
| `write_ahead` | 2 restores, an insert that may fail |

Bounds. `HistoryLimit = 1` makes the second finalization prune, which a limit of
50 would need 51 saves for. `RemoteEditLimit` caps the only unbounded input; the
marker otherwise rises only with the steps of a request, and each request is
made once. Two concurrent calls, of one operation id or of two, are what every
pairwise race needs. `InsertMayFail = FALSE` in `save_restore` excludes the
database error of the `write_ahead` finding, which breaks its properties in ways
the finding already states.

Fairness (`WorkerFairness`) is of the worker alone: it polls for ever
(`tick` re-arms its timer in `finally`), rows become stale with time, and
neither restarts nor the database interrupt a batch at one and the same point
for ever (strong fairness: each point may be interrupted any number of times).
No request owes its completion. `BatchSize` is as large as the backlog: the scan
takes the least recently updated rows, so that a batch smaller than the rows it
keeps skipping may never reach the others.

Finding `write_ahead`: `beginRestore` takes every error of its insert for a
duplicate; a restore whose insert failed otherwise replaces the bytes with no
write-ahead row.

### Abstract specification

`MutationOutcome` has an effect per operation and an answer per call: an effect
happens once and never changes, and a successful answer repeats the effect of
the operation the call carried. The mapping (`Outcome`) takes the event of the
outbox for the effect.

### Proofs

`FileMutationProofs` proves, for any number of files, calls, operations and any
values of the limits (from `ConstantsAssumption` only):

* `TypeCorrect`: `Spec => []TypeOK`, inductive as it stands.
* `HistorySequence`: `Spec => []HistoryIsSequence`. It is inductive together
  with `TypeOK`; the step that matters is `Finalize`, where the new rows take
  the next positions and the unique index excludes an equal version. Every other
  action leaves the table alone or removes rows.
* `PositionsNeverReused`: `Spec => PositionsGrow`, from the same facts.
* `SaveOnce`: `Spec => []SaveWritesOnce`. The strengthening `SaveOwnership`
  says that a save past `begin` stands on a row of its own kind, that at most
  one request of an operation is past `begin` or has written, and that an
  operation with a write has its row. `BeginOperation` is the step that uses the
  unique key; rows are never removed (`RowsStay`).
* `RetentionSpares`: `Spec => RetentionSparesRecent`. `RetentionInv` follows the
  list a call works through, from the read to the last row: every row on it is
  past the limit and stays so, because rows are only added above it and another
  call's retention removes rows only below (`Surpassed`, `Prunable`); it is still
  in the history or its version is gone already; positions on a list differ; and
  histories are finite, so that counting the rows above one makes sense.

Under `InsertsReliable` (inserts do not fail where restores are made):

* `AllOrNothing`: `Spec => []PublishedTogether`. The property speaks of answers,
  rows, events and history, which four different actors write, so it is far from
  inductive. `PublishedInv` adds what connects them: an event repeats the result
  its row keeps (`EventsFit`), a row with a result was written by somebody
  (`RowFits`), what a call may rely on at the await where it stands
  (`RequestFits`), and that at most one call is past the insert of an
  operation's row (`SoleOwner`): otherwise a second one could replace the result
  after the event was published.
* `OutcomeImplemented`: `Spec => ImplementsOutcome`. Initial states map to
  initial states; a finalization that publishes maps to the effect's step, a call
  that ends to its answer's, everything else to a stutter. The invariant above
  is what makes the answer repeat the effect.

The hypothesis is the finding `write_ahead` again: without it TLC finds both
properties violated (a restore without a row, then a save of the same id). It is
satisfied by every instance of the passing runs, and by any instance without
restores.

Only model-checked: `WrittenIsResolved` (liveness).

## 4. `RevisionProcessing`: the search projection

### What it models

The module starts where a finalized mutation has left its outbox event. Its
actors are worker processes (several may run), the operator's backfill, and the
rest of the system, which saves, trashes, restores and purges files and finds
their Drive source gone or back.

| state | code |
|---|---|
| `current` | `File.revisionSequence`; a revision is its position, its history row exists |
| `place`, `connected`, `extractable` | the node's trash operation or deletion; `sourceStatus`; `canExtract` of the MIME type and name (fixed: renames that change it are left out) |
| `events` | PENDING `FILE_CONTENT_CHANGED` rows; the rows of a file are alike, so they are counted |
| `tasks` | `FileProcessingTask` by its unique key; `expired` is `leaseExpiresAt <= NOW()` |
| `texts`, `indexed` | `FileTextExtraction`, `SearchDocument` |
| `slots` | the executions of `processTask`, with the claimed task and the point reached |

Every transaction and every statement outside one is an action: `ConsumeEvent`,
`Backfill` (reads earlier, inserts later: any revision up to the current one),
`Claim`, `Resolve`, `Extract`, `Publish`, `Load`, `PublishIndex`, `Complete`,
`Fail`. `Trouble` is a statement that throws, which `processTask` turns into a
retry; `Crash` ends an execution without a word. `Expire` may happen at any
time, also while the holder is at work: a batch takes one lease for all its
tasks, and the last of them wait for the others. A late holder goes on and its
statements are refused by `Owns`.

Left out: back-off times, the order and size of batches, log lines, error
codes, the content of texts, an event without a file id (none is written), and
the import of legacy local versions, which the backfill command also calls.

### Runs

| run | instance |
|---|---|
| `processing` | 1 file, 2 executions, 2 revisions, 2 attempts, in two regions: `pipeline` (files change, no error passes, nothing goes away) and `holders` (leases run out, errors, trash, purge, lost sources; the revision stays) |
| `searchable` | 1 execution, 2 revisions, 2 attempts, nothing taken away, fairness |

Bounds. Files share nothing but the executions, so one file is enough; two
executions make every race of an old holder with a new one, two revisions every
race of an older result with a newer one. A behaviour stays in one region
(`MCRevisionProcessing`): the union of both was too large to enumerate, and the
theorems below hold without the regions. The view leaves out the attempts where
no error passes. Executions are symmetric; the liveness run has one and no
symmetry. `events` is bounded by the revisions.

Fairness (`WorkerFairness`): `tick` polls for ever, so events are consumed, and
a task that is claimable again and again is claimed in the end (claims are
oldest first); executions go on; an abandoned lease runs out. From some point on
processes do not die and leases outlast their executions: without that a task
could lose its claim for ever, since only failures count against the limit. The
operator runs the backfill. Errors need no assumption: attempts are counted.
`searchable` asks that nothing is taken away (`SettledSpec`): a task processed
while its file is in the trash or without a source ends COMPLETED as stale, and
its key then keeps events and backfills from making it PENDING again.

### Proofs

`RevisionProcessingProofs` proves for any number of files, executions, revisions
and attempts (from `ConstantsAssumption`):

* `TypeCorrect`: `Spec => []TypeOK`.
* `IndexMovesForward`: `Spec => IndexNeverGoesBack`. The invariant is `NotAhead`
  (no document is ahead of its file): publication compares the revision under
  the file's lock, so it moves the document to the file's current revision,
  which is at least the one indexed.
* `FinishedTasksLeftTheirResult`: `Spec => []FinishedLeftItsResult`. Completion
  is a statement after the transaction that publishes, so the property is not
  inductive: the strengthening `AboutToReport` says that a holder about to
  report, whose claim is still its own, has left its result, and `StageFits`
  that it is at a stage of its task's type. `StepChanges` lists the five ways a
  task row can change and carries most cases.

* `LateHoldersAreHarmless`: `Spec => LateHolderIsHarmless`, from the types alone.
  A row changes in one of five ways; each but expiry and the purge is refused to
  an execution that does not own it (`HeldRowChanges`), and none applies to a
  settled row (`SettledRowStays`).

The liveness property is model-checked only.

## 5. `TrashLifecycle`: the node tree and its trash

### What it models

| state | code |
|---|---|
| `row`, `parent`, `mark` | a `Node` row, its `parentId` and its `trashOperationId` |
| `versions`, `stored`, `broken` | `FileVersion` rows; objects in the local storage; files whose objects the storage never deletes |
| `ops` | `TrashOperation`; `expired` is `expiresAt <= now` |
| `purge` | each purge under way: claimed, discovered, deleting, and the keys still to delete |
| `writer` | a request that is not serializable, between its check and its write |
| `migrated` | files that a `DriveFileMigration` row refers to |
| `batch`, `cursor` | the candidates of the retention cycle, and where the next one starts |

`Trash`, `Restore`, `Move`, `AddDriveFile`, `Claim` and `Finalize` are
serializable transactions and one action each. `createFolder`, `upload`,
`createVersion`, `restoreVersion` and `removeFromDocsHub` run at PostgreSQL's
default isolation: what they read (`CreateCheck`, `VersionCheck`,
`RemoveCheck`) may be out of date when they write (`Insert`, `AddVersion`,
`RemoveNode`), and they may fail in between (`GiveUp`, which deletes the object
stored first, or does not manage to). A folder can so be trashed before the row
of its new child is inserted; the child then has no mark and no reader sees it.

A purge is the four awaits of `TrashPurgeEngine.purge`. It may end at any of
them (`DeletionFails`, `Interrupted`) and leaves the operation PURGING. After a
failed deletion the other deletions of the pool may still go through; they are
taken together with the failure, which loses nothing: the files below a PURGING
operation are not visible and stay so.

The migration to Drive is here what it leaves in the way of a purge: a row for
the file and its version (`RecordMigration`, of any outcome, and never deleted),
which both are referred to ON DELETE RESTRICT. `Finalize` deletes no such row, so
its transaction is refused for a subtree that holds one (`RowsLetGo`), after the
objects are gone.

The retention cycle selects a batch (`Selection`: identifiers after the cursor,
then around), hands candidates to its pool (`TakeCandidate` moves the cursor)
and asks in `Claim` once more whether the operation is eligible.

Left out: names (a clash refuses a step, which may as well not be taken) and
renaming, capabilities, audit rows, `inheritPermissions = FALSE` (the walk that
decides visibility stops at such a node; the nodes of a trashed subtree carry
marks of their own), multipart uploads and saves of Drive files, which add no
object to the local storage.

### Runs

`trash`: one folder, one file, two operations, one user and one retention
purge, one non-serializable request, batches of one, two versions. Two nodes
give every nesting of two operations (inside first, outside first, moved out
before) and a row that appears in a folder already trashed; two operations are
what a starved candidate needs. The initial states are all trees of these nodes.
`TrashIsSound` is `MarksMatchOperations` and `VisibleHasContent` together.

Fairness (`WorkerFairness`): `tick` re-arms its timer in `finally`, so a batch
is selected for ever and its purges go on. From some point on the worker is not
restarted, and a purge is set back only at the objects that can never be deleted
or by a step of its own that is refused: a purge that dies each time finishes
nothing. Users owe nothing. `DueIsPurged` excludes the operations no purge can
finish: those with such an object or whose root row `removeFromDocsHub` deleted,
which stay ACTIVE and are refused by every claim (`HeldUp`), and those with a
file that has a migration row (`Restricted`). Without this last exception TLC
finds the property violated, by a purge that is claimed, deletes the objects, is
refused by the foreign key, and begins again. The documentation says otherwise of
foreign keys and purges (docs/file-storage-and-engine-architecture.md:905-908).

Not a property: that nothing is left in the storage. A version whose
transaction began before the file was trashed and commits after the discovery
loses its row with the purge and keeps its object.

### Proofs

`TrashLifecycleProofs` proves, for any tree, any number of operations, users,
retention workers and writers and any batch size (from `ConstantsAssumption`):

* `TrashTypes`: `Spec => []TypeOK`.
* `MarksMatch`: `Spec => []MarksMatchOperations`.
* `VisibleContent`: `Spec => []VisibleHasContent`.
* `TrashSound`: `Spec => []TrashIsSound`, the two of them.

The ancestors of a node are the least set that contains it and is closed under
parents (`Above`), so an argument about them exhibits such a set instead of
walking up: a subtree that moves keeps its ancestors within the set that was
above it (`AboveKept`), a live node has live ancestors because the live nodes
are closed (`AboveThere`). No induction over the depth of the tree is needed.

The invariant is `TrashInv`. Of marks it says, operation by operation, that the
root of an open one still carries the mark, exists and lies where it was trashed
(`RootFits`), and that every node it marks is below that root (`MarkFits`): a
node cannot be moved out, because nothing below a marked node is visible, and
the root cannot be moved or removed for the same reason. A node drawn but not
inserted stands alone (`TreeFits`). Of content it says that a live file has its
objects or lies below the root of a PURGING operation (`ContentFits` with
`Lost`), which is never undone: a PURGING operation is not restored. Purges hold
only keys of lost files (`PurgeFits`), although they read them outside any
transaction; and a write that has not inserted its row yet owns its objects,
which no version names (`WriterFits`, `WritersApart`), so that giving up deletes
nobody else's. TLC checked `TrashInv` with two writers and two purges before the
proof.

`DueIsPurged` is liveness and model-checked only. That a purge is refused for
a migration row is of no consequence to the proofs: the operation stays PURGING,
and a file that is PURGING is one that nobody sees.

## 6. `Accounts`: administration, logins and sessions

### What it models

| state | code |
|---|---|
| `user`, `account`, `session` | tables `User`, `AuthAccount`, `Session` (a token hash is the number of rotations) |
| `lockHolder` | `pg_advisory_xact_lock(35001)` |
| `tx` | the transaction of an administrator or of a login: where it stands, what its snapshot showed, whether a row it writes was changed since, what it missed |
| `refresh` | a refresh between reading its session and swapping the hash |
| `requested`, `approved` | history: who asked for access, whom an administrator approved |

`updateUser` runs at READ COMMITTED and decides on what it reads when it holds
the lock. `suspendUser`, `reactivateUser` and `approveUser` run SERIALIZABLE;
their first statement waits for the lock, so that their snapshot is older than
the lock (`BeginMutation` takes it). Such a transaction fails when a row it
writes was changed since its snapshot (`stale`), or when it and a concurrent
SERIALIZABLE one each missed what the other wrote (`missed`). PostgreSQL may
refuse more than that: `GiveUp` and `RetryLogin` may end any attempt. A login
(`resolveOrBindIdentity`) is retried up to `MaxAttempts` times and then creates
a session in two statements of their own; a refresh reads, then swaps the hash
if it is still the one it read.

Left out: names and pictures, groups, audit rows, the OAuth exchange, cookies.

### Runs

`accounts`: three addresses, two of them administrators at the start; three
Google subjects of which two share an address; two requests of each kind, one
session of two rotations, two binding attempts. A behaviour uses one of the
`Workloads`: changes of status together, changes of role together, each of them
with two logins, or the life of a session. Two concurrent transactions are what
each of the conflicts needs; a third administrator would only make the last one
harder to lose.

`last_admin` lets a suspension and a change of role overlap (`MCMixedWorkloads`)
and finds `AnAdminRemains` violated: the suspension counts, in its snapshot, the
administrator that the change of role has demoted meanwhile.

### Proofs

`AccountsProofs`, for any number of users, subjects, requests, sessions,
attempts and rotations (from `AccountsConstants`):

* `AccountsTypes`, `OneAccount` (`[]OneGoogleAccount`) and `ApprovalFirst`
  (`[]ApprovalBeforeAccess`) follow from `AccountsInv`. A binding commits only if
  its snapshot is current for the rows it reads and writes, so the invariant
  states for every transaction how its view and the tables differ (`RowSeen`,
  `AccountsSeen`, `SeenYoung`): either they agree, or the difference is on record
  and the transaction cannot commit.
* `RotationSound` (`[]RedeemedOnce`), with `RotationInv`: a refresh holds a token
  its session had, and the swap compares it with the present one.
* `ClosedStaysClosed` (`ClosedIsFinal`): a revoked or expired session keeps its
  token and stays closed.
* `AdministratorLeft` (`[]AnAdminRemains`) under `MutationsApart`: there is an
  administrator at the start, and no workload has suspensions and changes of
  role at once. `AdminInv` says what a transaction about to take a capability
  away relies on: another active administrator, or a conflict that will refuse
  it. The hypothesis is the finding `last_admin`; all workloads of the run
  `accounts` satisfy it.

## 7. The Drive integration

### What it models

`DriveCatalog`: the integration row (`connection`), the catalog rows (`catalog`),
Drive itself (`remote`, `granted`) and the syncs. A sync is a request that writes
SYNCING over any other status (`RequestSync`), then a walk that opens a folder,
lists it page by page and upserts each entry, sweeps the rows it has not seen and
writes SYNCED (`SyncStep`). A refused token restarts the walk once. Around it,
objects move in Drive, uploads and imports register files, administrators
disconnect, reconnect or choose another folder (each in two statements), calls
fail, the process dies.

`DriveRegistration`: an operation row per idempotency key, an object in Drive per
request, the registration in one SERIALIZABLE transaction (`Register`), or the
compensation: the object is deleted, the row says FAILED and what became of the
object. Answers may be lost (`FailPut`, `Register(r, FALSE)`), processes die.

`ResumableUpload`: the chunk held back, the offset of the client, and the bytes
Drive has kept. Drive may keep any prefix of a chunk and lose the answer; the
client asks how much arrived and sends the rest, at most `MaxNoProgress` times
without progress.

`DriveMigration`: the file, a migration row per version with its lease, the
objects in Drive, the local bytes, and the runs of two operators. A run loads,
checks, claims, uploads, verifies, registers and cuts over; every call may fail
before or after it took effect (`RunFails`; `LoseUploadAnswer`, where Drive has
the object and the run never learns its identifier), every process may die
(`RunDies`), a lease may run out under its holder (`LateLease`), versions arrive, bytes are
damaged and repaired; a rollback takes the file back.

Left out: names in the catalog, MIME types, sharing in Drive, the report of the
command.

### Run

`drive` checks all four, one theme at a time. Catalog: two targets, one folder
below, two files, pages of one entry, and one of two budgets (two syncs with two
disturbances; a sync and a registered file with one). Registration: a native
creation and an upload of one name, each requested twice, with other bytes the
second time, two faults. Upload: sources of 0 to 7 units and chunks of 3, which
gives no chunk, a part, a whole one, and two with every remainder. Migration: two
operators, two versions, four objects, and three combinations of troubles.

Fairness (`DriveFairness`): a server goes on with a handler it has begun and with
the sync it runs, and fetch settles every request. For the migration, operators
repeat the command for what is not migrated, repair damaged bytes and close old
editor sessions, and the lease of a dead process runs out; troubles are bounded,
so that failures end.

### Proofs

For any number of folders, files, syncs, keys, requests, operators, versions and
objects, from each module's assumption on its constants:

* `CatalogTypes`, and `SyncLockSound` (`CatalogSpec => []LockIsSound`). `LockInv`
  counts the walkers: each was let in by a claim or by a disconnection, and a
  connection that says SYNCING has a sync running or lost.
* `SweepsAreExact` (`CatalogSpec => SweepIsExact`), from `SweepInv`, which adds to
  `LockInv`'s types what a walk knows while no folder moved under it
  (`WalkTracks`): it is in folders it should enter; of those it has read, it noted
  every object that stayed and queued every folder; it noted nothing that is
  elsewhere. What it should enter (`Entered`) is the least set of folders that
  holds the target and is closed under untrashed subfolders. At the sweep the queue
  is empty, so the folders read are closed too, and therefore all of them
  (`FoldersLeast`): no induction over the depth of a folder is needed.
* `RegistrationTypes`, `OneObject` (`[]OneObjectPerKey`), `OutcomesTrue`
  (`[]OutcomeIsTrue`) and the two together, `RegistrationExact`
  (`[]RegistrationIsExact`), from `RegistrationInv`: an operation that is IN_PROGRESS
  has at most one owner among the requests of its key (`Owner`), what a request
  relies on at the step where it stands (`RequestFits`), and what a row that is
  finished says of node and object (`KeyFits`).
* `UploadIsSource` (`UploadSpec => []FileIsSource`), from `UploadInv`: what Drive
  holds is a prefix of the source whose end lies between the client's offset and
  the end of the chunk being sent.
* `MigrationTypes`, which includes that every reference to an object is to one
  uploaded for the same version; `MigrationFollowsVersion`
  (`MigrationSpec => BackingFollowsVersion`); `MigrationLosesNothing`
  (`[]ObjectsAreTracked`), from `TrackedInv`: as long as no version was claimed
  under a run that worked on it, at most one run moves a version (`SoleRun`) and
  the object it made is the row's or its own (`LinkFits`). Both the invariant and
  the theorem except the objects nobody could know of (`lost`): those of a run that
  ended before its error path did, and those whose upload took effect while its
  last answer and the query after it were lost.

And of `MCDrive`, whose one assumption `RestConstants` is what a component at
rest needs (a source of no bytes, an object in Drive for the migrated file):

* `DriveTypesHold` (`DriveSpec => []DriveTypesOK`) and `DriveKeepsItsPromises`,
  the other invariants and action properties of the run, from `DriveInv`, the
  conjunction of the five invariants above: a component at rest satisfies its own (`MigrationRestFits`:
  a migrated file has one object, registered and linked), and a step of the whole
  is one of each component or leaves it alone.

Only model-checked: `WorkEnds` (liveness).

## 8. The workspace

### What it models

`EditorSession`: a file open in the editors of one or two tabs. A content gives
each part (a block, a cell, a slide) the edit that last wrote it. The four
engines share the save protocol (`useEditorPersistence`) and differ in what
typing does to the status, what a save sends and how the answer is merged with
what was typed meanwhile. A call goes to a server that keeps what
`MutationOutcome` promises: it is replayed, begun, written, finished, broken off,
and its answer may be lost. Drafts are flushed to IndexedDB, listed, restored and
discarded; `age` stands for their order by `updatedAt`. History variables: `seen`
and `from` say which contents and whose typing lie behind what a tab shows, `typed`
what its user left in it, `reused` and `mixed` that the tab sent an operation id
twice, or restored a draft while typing was recorded for the answer to a save.

`NodeTree`: creating and renaming (check, then write), moving, owners and
inheritance, trash as one step, and a listing whose pages are three reads each.
`LocalFiles`: an upload from its first byte to the answer: temporary file, object,
rows, and the removal of what a failure left. `IndexBackfill`: batches over two
kinds of files with one cursor, side by side with changes and the worker.

`FileReading`: one file, the requests that read it, and the tab of its reader.

| state | code |
|---|---|
| `subject` | what the database and Drive say of the file and its reader: trash, account, share link, source, favorite, where it is kept, its version |
| `reading[r]` | a request: the await it stands at, the checks it has left, the range it asked for, the versions whose size (`sized`) and bytes (`got`) it has read |
| `page` | the session of the tab and what it shows: the revision a model was labelled with, the versions its parts came from |
| `temps` | directories of conversions |

`Checks(kind)` lists what each read of the database must find, in the order of
the code; `PassCheck` is one of them, `Refuse` its failure. Then come the calls
of the storage, each an action of its own: `StatObject`, `OpenObject`,
`ReadVersion`, `MakeDirectory`, `CopySource`, `Convert`. `SubjectChanges` is
everything that others do meanwhile: trash and restore, a change of account or
link, the source lost or back, a new version, the migration to Drive, a favorite
removed. The reader may leave at any await (`LeaveRead`). History: `held`, the
rights there were since a request came. The session's token is taken to be valid;
one that has expired is one that the tab does not have. `page` is the tab. A viewer that is mounted anew drops what
an older one had asked for (`load`). Within one, `PageAfter` is what
`PresentationEditor` and `SpreadsheetEditor` make of each answer: a slide or sheet
is merged into whatever is shown when it comes, a save brings a new label (that of a
spreadsheet only after its sheet was read again), and a reload in place reads model
and part and then replaces both (`Completes`, `ShowAnew`). A `DocumentEditor` has
its parts, the images, fetched by the browser; reloading one is `EditorSession`'s.

`UploadQueue`: `queue` is the panel, `batch` a run of `runUploadQueue`, `sender`
its workers with the request each of them waits for, `pass` the access token,
`received` what the server has. A 401 makes a request wait for a refresh that all
share (`AwaitRefresh`, `RefreshEnds`, `GoOnAfterRefresh`); a second 401, or a 403,
ends the run with every file that was not started marked as failed
(`SettleItem`). A request or its answer may be lost (`LoseUpload`), and a request
that was given up may still arrive (`LateArrival`). The server may answer 503 and
have kept something (`Leaves`): the node, when the registration took effect and
its answer was lost (its object is then deleted), or the object, when it could not
be deleted or Drive's answer was lost. Each retry has a new key. What the server
does with a key, step by step, is `DriveRegistration`'s.

`OfficeSaves` opens a file of one of five formats, edits it where its editor
offers an edit, and saves: parse, validate, patch. `SpanEdits` is the shared
replacement of spans; `SheetPatch`, `TextPatch` (CSV and text), `DocumentPatch`
and `SlidePatch` are the patchers with the parsers that read the result. Files
are sequences of tags or characters; formatting and packages are left out.

### Runs

`workspace`, one theme at a time. Editor: the `MCScopes` (typing and undo beside
two saves; saves that break off, reloads and discards; drafts of one tab beside
another's; two tabs with faults), each for every engine it concerns. Tree: a
chain of folders under three changes (the theorems below are about any number),
two folders and a file in a folder, listed in pages of one under two changes, or
at the root, under one; and a tree without nodes. Files: two requests of every
two kinds (`MCJobs`, unordered pairs: nothing tells the two apart but their kind)
with two troubles. Backfill: three files of both kinds in every order, a change,
one command or two. Reading: two requests, three versions of different sizes
(one of them shorter than the one before, so that a range may no longer be
there), four range headers, and the `MCScenes`, each with the requests and the
happenings that concern one another, at most two of these; the scenes of an editor
(`InEditor`) begin with its session and take three requests and one new version:
a model, a part, and a reload or a save.
Queue: two workers, two files and two runs, or three files so that a worker
takes a second one; one expiry. Office: the files of `OfficeSamples` - sheets of two
rows with cells of every kind, CSV texts of up to four characters, documents of
two or three blocks with styles that do and do not align, slides of two elements,
texts of every format and line ending - with one or two edits.

The calls of the editors, the requests of the readers and the workers of the queue
are symmetric; since only one theme moves, `WorkspaceSymmetry` exchanges all three
at once. 784,685 distinct states, depth 38. No fairness: the properties are safety.

`PagesAreComplete` excludes the node that changes while its own page is read, and
`BackfillReachesAll` the document that a command which checked an older content
wrote over a newer one: both happen, and no text promises otherwise.
`MergeLosesNothing` excludes editors that sent an operation id twice, which is
the finding `resent_save`: an id kept after a failed save is sent with newer
content, and the server answers with the first result. It also excludes editors
whose user restored a draft into a document that was being saved. There the code
loses the draft: `acceptSavedModel` (`document-editor/editor-state.ts:101-108`)
replays the commands recorded since the save began on the server's model, and the
restored content is in none of them. The comment in it says: "This preserves edits
made while the save was in flight". The exclusion, `mixed`, was found by the proof
below: without it `MergeInv` is not inductive.

`ReadsAreSound` asks for what the code can give: a right withdrawn while a request
is under way may still be served, one withdrawn before it came may not. Its bytes
are exempt when a new version came between their size and themselves: then what is
announced is not what is sent. Its label vouches for all that is shown, but not in
a presentation or spreadsheet that was reloaded in place and then got an answer to
what it had asked for before (`mixed`): neither editor compares the answer with the
model it has by then (`PresentationEditor.tsx:81`, `SpreadsheetEditor.tsx:96`), so an
old slide can stand under the label of the reload, and a save of it is accepted. No
text of the repository says otherwise. Its directories are exempt when the reader left
before `write` (`drive-preview.service.ts:611-643`) listens for the end of the
answer: `close` was emitted already, and nothing removes the directory.
`QueueIsHonest` allows a file to be stored twice after a lost answer, that of the
server to the browser (`unknown`) or that of its database or of Drive to the server,
or a clean-up that failed (`leftover`): the panel then calls the upload failed, and
the retry has a new key. It says that nothing else leads there.

`SavedReadsAsMeant` is checked for `PatchScope = "plain"`. Outside it
`blank_cells` finds that editing a self-closed cell swallows its neighbour. Other
differences met there and left out of the scope: two new cells in one row come
out reversed; `<sheetData/>` cannot be edited; a cell inside a merged range is
offered and then refused; a CSV value with another delimiter changes what is
detected; edits of an empty `<w:p/>` are lost; a placeholder without a frame of
its own is refused; mixed line endings become one kind. In documents: a paragraph
that has its alignment from its style (`docx-parser.ts:479`) and is given a style of
another alignment is shown with that one, though the editor showed and sent the old
(`docx-patcher.ts:82-103`: what did not change is not written); what is changed in a
self-closed `<w:pPr/>` is put behind it, does not count, and makes the paragraph
read-only; and a heading style that the package does not define is offered and then
refused.

A text that `validateBeforeSave` refuses is no exception: `SavedReadsAsMeant` says
that a text is refused if and only if its format does not allow it (`ValidTexts`:
JSON that does not parse, XML that is not well-formed, and too long a text of any
format), and that the file is then as it was.

### Proofs

`WorkspaceProofs` proves of `LocalFiles`, for any number of requests of any
kinds, any troubles and any number of tries (from `LocalConstants`):

* `LocalTypesHold` (`LocalSpec => []LocalTypeOK`) and `BytesMatch`
  (`LocalSpec => []BytesMatchRows`), both from `LocalInv`. It says of each
  request, stage by stage, what lies in its temporary file (`UploadFits`), under
  its storage key and beside it (`ObjectFits`), and that its version is not
  written and its place chosen before the transaction (`PlaceFits`); and of the
  rows that they refer to each other (`FileFits`, `VersionFits`). A step moves
  the bytes of its own request only (`DiskFrame`), so the others keep what they
  rely on (`OthersFit`) as long as files stay there. The stage that matters is
  the commit whose answer is lost: the rows are there and the request goes on to
  remove the object, which `unsure` records. TLC checked `LocalInv` before the
  proof.

And of `IndexBackfill`, for any files in any order, any batch limit, any number
of commands and changes (from `BackfillConstants`):

* `BackfillTypesHold` (`BackfillSpec => []BackfillTypeOK`) and
  `BackfillMissesNone` (`BackfillSpec => []BackfillReachesAll`), from
  `BackfillInv`, which TLC checked first. `BackfillReachesAll` speaks of the end
  of a command, so it is far from inductive: `SteadyFits` says for a file that
  stays as it is, at every stage of a batch, that it is covered if it lies within
  the cursor, and covered or still among the rows that were read if it lies
  within the end of its page (`Within`). `PageTakes` is the lemma that a page
  takes all that is chosen within its end, `AnswerSteps` that the lower of two
  ends lies within both. What others do in between is one lemma: a step that
  leaves a file as it is and its document either alone, current, or recorded as
  buried (`Keeps`) leaves it covered (`CoveredStays`).

And of `NodeTree`, for any tree, any names, moments, owners, requests under way
and any page size (from `TreeConstants` and `TreesAreTrees`: a behaviour starts
with folders that form a tree):

* `TreeTypesHold` (`TreeSpec => []TreeTypeOK`).
* `ShownIsLive` (`TreeSpec => []ShownIsInLiveTree`), from `NodesFit`. What is above
  a node is the least set that holds the node and with each node what it lies in
  (`Walk`), so an argument about ancestors needs no induction: name a set that is
  closed in this way (`WalkIs`, `WalkSteps`, `WalkFarther`). That no set of nodes
  lies within itself (`Rooted`) is kept by a move because the destination is not
  below the node. The rest is about nodes that end the walk of permissions:
  `CutOff` says that such a node without a mark has no mark above it, and that
  one with a mark has the same mark on everything up to the root of its trash
  operation - so restoring the one brings back the others with it. `SeenChain`
  is the conclusion: the nodes a reader is shown are closed upwards.
* `ListingIsComplete` (`TreeSpec => []PagesAreComplete`), from `ListingFits`: a node
  that stayed was shown once if the cursor is past it and not otherwise, and
  while a page is read its ids hold what stayed behind the cursor, unless they
  are one more than the page takes and all come before it. `OrderFacts` (the
  order of rows is strict and transitive, in either direction) carries this over
  to the next cursor. Steps of others are `Disturbed` (the nodes they change leave
  `stayed`) or `Undisturbed` (they leave the rows of nodes as they were).

TLC checked `NodesFit` and `ListingFits` before the proofs.

Of `FileReading`, for any requests, versions, sizes, ranges and scenes (from
`ReadConstants` and `ScenesFit`: a file kept locally has its last version on the
volume):

* `ReadingTypesHold` (`ReadSpec => []ReadTypeOK`) and `ReadersGetWhatIsTheirs`
  (`ReadSpec => []ReadsAreSound`), from `ReadInv`. `RightsFit`: what a request needs
  it has held, or it is among the checks it has left (`ToCheck`); a session's
  creation, which chooses its checks on the way, is the exception until it has
  chosen. `ChecksCover` says of each route that its checks are enough. `BytesFit`:
  the versions a request has read were asked for, or are none older than the
  request. `TabFits` is about the tab: from the label it was last shown with (`base`)
  only its own saves lead to the one it has (`Chained`), and what it shows was read
  from `base` on. `TurnFits` is about the requests it made since (`turn`): they read
  nothing older than `base`, and the label of a save, or the one before that which
  its answer brings, is chained to `base`, too. An answer to what was asked for
  earlier sets `mixed`, and of such a tab nothing is claimed until it is shown anew.
  `PageAfterFits` has a case for each answer.
  `RangesAreExact` is the lemma about ranges: of one that can be satisfied, what is
  announced is what the header means, and all of it is sent.

And of `UploadQueue`, for any files, workers, runs and expiries (from
`QueueConstants`):

* `QueueTypesHold` (`QueueSpec => []QueueTypeOK`) and `PanelIsHonest`
  (`QueueSpec => []QueueIsHonest`), from `QueueInv`. A worker at work sends a file of
  the run that the panel shows as being uploaded (`SendersFit`), and no two send the
  same (`SendersApart`); every such file has its worker, and a queued one is one
  nobody started (`ItemsFit`). `SettleItem` is one lemma for the three ways an upload
  ends. That a run with nothing left ends with nothing queued needs that a set of
  file numbers has a first one (`FirstOfFiles`), from the library's theorem on
  well-founded orders.

TLC checked `ReadInv` and `QueueInv` before the proofs.

`EditorProofs` proves of `EditorSession`, for any number of tabs, parts, edits,
saves and drafts, in any scope (from `EditorConstants`):

* `EditorTypesHold` (`EditorSpec => []EditorTypeOK`), from `EditorTypes`, which adds
  that an answer is there only for a request that was answered and that no two
  drafts are of one age, so that trimming keeps as many as it should.
* `UnseenIsKept` (`EditorSpec => NothingUnseenIsOverwritten`), from `SaveInv`. What a
  save may replace is decided by a number, the expected revision, and the property
  speaks of contents; `Knows` ties the two together: whoever works from revision
  `base` has behind it every part that was last written at `base` or before. It
  holds of every open tab (`Informed`), request (`CallFits`) and draft, and an
  operation row that is settled made the revision after the one it expected
  (`OpRowsFit`), so that a replay, too, answers with what its tab may work from. The
  step is the server's write: it goes through only if no revision came after the
  expected one, so that what it replaces lies behind it.
* `MergesAreSound` (`EditorSpec => []MergeLosesNothing`), from `MergeInv`. In an
  editor that did neither of the two things above (`Unmixed`), what is typed is
  shown or stored (`ShownFits`); while a request is under way, it is the only one
  (`CallAgrees`, `OneFlight`) and what was typed since is, engine by engine, none
  at all, marked by the generation, or held by the recorded commands
  (`MergeFits`). The four ways of taking the answer are four lemmas about
  `Merged` (`ShowsText`, `ShowsSheet`, `ShowsSlides`, `ShowsDocument`).

TLC checked `EditorTypes`, `SaveInv` and `MergeInv` in the scopes of the run before
the proofs.

`MCWorkspaceProofs` proves of the saves of office files, for any files, elements,
characters, edits and number of saves (from `OfficeConstants`: a file has the shape
its parser gives it, a text area ends its lines with "\n", and the values for "not
edited" are no edits):

* `SlidesAndTextsReadAsMeant`: with `PatchScope = "plain"`,
  `OfficeSpec => [](office.format \in {"PRESENTATION", "TEXT"} => SavedReadsAsMeant)`,
  from `OfficeInv`. For a slide it comes down to each edited id naming one element,
  the same in the parser and in the source map (`SlideEditsFit`, from `PlainSlide`);
  for a text, to what a line ending becomes in the text area and on the way back
  (`TextSavedAsMeant`). A text is refused exactly when its format does not allow it
  (`RefusesText`, for any `ValidTexts`), and is then as it was.

And of the whole, with the assumptions of its parts and `RestingFile` (one of the
files is a text, which is what rests), `WorkspaceTypesHold`
(`WorkspaceSpec => []WorkspaceTypesOK`) and `WorkspaceKeepsItsPromises`: a behaviour
of the whole is a behaviour of each component (`WorkspaceRefines`), so what each
promises by itself holds of it.

Only model-checked: `SavedReadsAsMeant` for spreadsheets, CSV files and documents.
Their parsers and patchers are folds and recursion over sequences, so what they
compute takes an induction over data.

## 9. What is proved, and what cannot be

Every theorem is a statement about a `Spec` for every value of the constants that
its module's assumption admits; three have a further hypothesis (`InsertsReliable`,
`MutationsApart`, `PatchScope = "plain"`), each the complement of a violation that
TLC finds.

Not provable with the installed provers: liveness (`WrittenIsResolved`,
`CurrentIsSearchable`, `DueIsPurged`, `WorkEnds`), ENABLED, and induction over
data (`SavedReadsAsMeant` for spreadsheets, CSV files and documents). Everything
else the passing runs check is proved.

## 10. Not modelled

Deployment (`not_modelled` in `PROJECT.json`). Within modelled components:
`saveAsCopy`; `FileProcessingService`, which no module of the worker provides any
more; groups and the directory of users; search, which only queries; the choice
and the limits of a file engine; signatures and lifetimes of preview tokens, and
the limits of the converter; the web client beyond its editors and its upload
queue. File versions with source EDITOR are never created by the code and do
not appear in the models.
