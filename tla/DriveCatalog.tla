----------------------------- MODULE DriveCatalog -----------------------------
(***************************************************************************)
(* The company's Google Drive connection and the local catalog of the      *)
(* files under its storage folder: apps/api/src/drive/drive.service.ts.    *)
(*                                                                         *)
(* A metadata sync claims the connection by writing SYNCING over any other *)
(* status, walks the folders of the storage folder page by page, upserts a *)
(* DriveFile row per entry, sweeps the rows it has not seen and writes     *)
(* SYNCED.  Meanwhile Drive itself changes, an upload or an import         *)
(* registers a file, an administrator disconnects, reconnects or chooses   *)
(* another folder, a call fails, the token is refused, the process dies.   *)
(***************************************************************************)
EXTENDS Naturals, FiniteSets

CONSTANTS Targets,         \* folders an administrator may choose
          SubFolders,      \* other folders
          DriveFiles,      \* files of Drive
          Place,           \* where every object is at the start
          Unborn,          \* files that are uploaded later, outside at the start
          FirstFolder,     \* the storage folder of the connection at the start
          Syncs,           \* requests of POST /drive/sync
          Nowhere,         \* a place outside every target, and no folder
          PageSize,        \* entries of a page (DRIVE_PAGE_SIZE, 100 in the code)
          Budgets          \* bounds, one of which a behaviour keeps: on the syncs, on
                           \* the files registered, and on the changes in Drive, the
                           \* requests of administrators, failed calls and crashes

Folders == Targets \cup SubFolders
Objects == SubFolders \cup DriveFiles

ASSUME CatalogConstants ==
  /\ Place \in [Objects -> Folders \cup {Nowhere}]
  /\ Unborn \subseteq DriveFiles /\ \A i \in Unborn : Place[i] = Nowhere
  /\ Nowhere \notin Folders /\ FirstFolder \in Targets
  /\ Targets \cap Objects = {} /\ SubFolders \cap DriveFiles = {}
  /\ PageSize \in Nat \ {0}
  /\ Syncs \subseteq Nat
  /\ Budgets \subseteq [syncs : Nat, files : Nat, events : Nat]

SyncStatus == {"NEVER_SYNCED", "SYNCING", "SYNCED", "FAILED"}

(* sourceStatus of a DriveFile row; TRASHED is UNAVAILABLE with the row's  *)
(* trashed column set, "none" is no row.                                   *)
SourceStatus == {"none", "CONNECTED", "STALE", "UNAVAILABLE", "TRASHED"}

VARIABLES
  connection,    \* the GoogleDriveIntegration row; severed is history, the number
                 \* of disconnections
  catalog,       \* the source status of each object's DriveFile row
  remote,        \* Drive: where each object is, and whether it is trashed
  granted,       \* whether Google still accepts the connection's tokens
  sync,          \* the syncs, with what each has still to list and has seen
  statement,     \* the second statement of a request of an administrator
  registering,   \* files read from Drive, or uploaded to it, and not upserted yet
  left           \* what is left of the bounds

catalogVars == <<connection, catalog, remote, granted, sync, statement, registering, left>>

NoSync == [pc |-> "idle", folder |-> Nowhere, queue |-> {}, current |-> Nowhere,
           visited |-> {}, listed |-> {}, page |-> {}, seen |-> {}, retried |-> FALSE,
           steady |-> {}, absent |-> {}]
Running == {"requested", "walking", "swept", "revoking"}

-----------------------------------------------------------------------------
(* Drive.                                                                  *)

Children(f) == {i \in Objects : remote[i].parent = f}

(* The folders a walk from f enters, f and the untrashed ones below it,    *)
(* and what it finds in them.                                              *)
Entered(f) ==
  LET Closed(C) == \A d \in SubFolders :
        remote[d].parent \in C \cup {f} /\ ~remote[d].trashed => d \in C
  IN {f} \cup {d \in SubFolders : \A C \in SUBSET SubFolders : Closed(C) => d \in C}

Below(f) == {i \in Objects : remote[i].parent \in Entered(f)}

(* What an upsert writes: fileData. *)
StatusOf(i) == IF remote[i].trashed THEN "TRASHED" ELSE "CONNECTED"

(* A change in Drive, which no sync under way is sure to meet. *)
Unsettle(i) ==
  LET moved == {i} \cup (IF i \in SubFolders THEN Below(i) \cup Objects ELSE {})
  IN sync' = [s \in Syncs |-> [sync[s] EXCEPT !.steady = @ \ moved, !.absent = @ \ moved]]

Spend(bound) == left[bound] > 0 /\ left' = [left EXCEPT ![bound] = @ - 1]

RemoteChange(i) ==
  /\ Spend("events")
  /\ i \in Unborn => remote[i].parent # Nowhere
  /\ \/ remote' = [remote EXCEPT ![i].trashed = ~@]
     \/ \E f \in Targets \cup {Nowhere} :
          f # remote[i].parent /\ remote' = [remote EXCEPT ![i].parent = f]
  /\ Unsettle(i)
  /\ UNCHANGED <<connection, catalog, granted, statement, registering>>

(* Google stops accepting the connection's access tokens. *)
RevokeGrant ==
  /\ granted /\ Spend("events")
  /\ granted' = FALSE
  /\ UNCHANGED <<connection, catalog, remote, sync, statement, registering>>

-----------------------------------------------------------------------------
(* The connection.  A request updates the row and then, in a statement of  *)
(* its own, the catalog.                                                   *)

Connected == connection.tokens /\ ~connection.revoked

(* completeAuthorization: neither the folder nor the status of a sync.     *)
CompleteAuthorization ==
  /\ ~Connected /\ statement = "none"
  /\ connection' = [connection EXCEPT !.tokens = TRUE, !.revoked = FALSE]
  /\ granted' = TRUE
  /\ statement' = "connect"
  /\ UNCHANGED <<catalog, remote, sync, registering, left>>

ConfigureStorageFolder(f) ==
  /\ Connected /\ statement = "none" /\ Spend("events")
  /\ connection' = [connection EXCEPT !.folder = f]
  /\ statement' = "configure"
  /\ UNCHANGED <<catalog, remote, granted, sync, registering>>

Disconnect ==
  /\ statement = "none" /\ Spend("events")
  /\ connection' = [connection EXCEPT !.tokens = FALSE, !.revoked = TRUE, !.status = "FAILED",
                                      !.severed = @ + 1]
  /\ statement' = "disconnect"
  /\ UNCHANGED <<catalog, remote, granted, sync, registering>>

(* A disconnection leaves what is UNAVAILABLE; the others make every row   *)
(* STALE that is not trashed.                                              *)
Outdated(statuses) ==
  [i \in Objects |-> IF catalog[i] \in statuses THEN "STALE" ELSE catalog[i]]

MarkStale ==
  /\ statement # "none"
  /\ catalog' = IF statement = "disconnect" THEN Outdated({"CONNECTED"})
                ELSE Outdated({"CONNECTED", "UNAVAILABLE"})
  /\ statement' = "none"
  /\ UNCHANGED <<connection, remote, granted, sync, registering, left>>

-----------------------------------------------------------------------------
(* Uploads and imports, as far as the catalog is concerned.                *)

UploadToStorage(i) ==
  /\ i \in Unborn /\ remote[i].parent = Nowhere /\ catalog[i] = "none"
  /\ Connected /\ granted /\ Spend("files")
  /\ remote' = [remote EXCEPT ![i].parent = connection.folder]
  /\ registering' = registering \cup {i}
  /\ UNCHANGED <<connection, catalog, granted, sync, statement>>

(* prepareDriveFileForImport reads the file and the folders above it.      *)
ReadForImport(i) ==
  /\ i \in DriveFiles \ (Unborn \cup registering)
  /\ Connected /\ granted /\ Spend("files")
  /\ i \in Below(connection.folder) /\ ~remote[i].trashed
  /\ registering' = registering \cup {i}
  /\ UNCHANGED <<connection, catalog, remote, granted, sync, statement>>

RegisterFile(i) ==
  /\ i \in registering
  /\ catalog' = [catalog EXCEPT ![i] = "CONNECTED"]
  /\ registering' = registering \ {i}
  /\ UNCHANGED <<connection, remote, granted, sync, statement, left>>

-----------------------------------------------------------------------------
(* A sync.                                                                 *)

(* A walk starts, or starts again with a refreshed token.                  *)
Walk(s, retried) ==
  [NoSync EXCEPT
     !.pc = "walking", !.folder = sync[s].folder, !.queue = {sync[s].folder},
     !.retried = retried,
     !.steady = {i \in Objects : i \in Below(sync[s].folder) /\ ~remote[i].trashed},
     !.absent = Objects \ (Below(sync[s].folder) \cup Unborn \cup registering)]

(* requireReadableConnected: the folder as it was when the request came.   *)
RequestSync(s) ==
  /\ sync[s].pc = "idle" /\ Connected /\ Spend("syncs")
  /\ \A r \in Syncs : r < s => sync[r].pc # "idle"
  /\ sync' = [sync EXCEPT ![s] = [NoSync EXCEPT !.pc = "requested",
                                                !.folder = connection.folder]]
  /\ UNCHANGED <<connection, catalog, remote, granted, statement, registering>>

\* Mutant: the claim does not look at the status.
ClaimAny == ~connection.revoked
MayClaim == ~connection.revoked /\ connection.status # "SYNCING"

ClaimSync(s) ==
  /\ sync[s].pc = "requested"
  /\ IF MayClaim
     THEN /\ connection' = [connection EXCEPT !.status = "SYNCING"]
          /\ sync' = [sync EXCEPT ![s] = Walk(s, FALSE)]
     ELSE /\ sync' = [sync EXCEPT ![s] = [NoSync EXCEPT !.pc = "done"]]
          /\ UNCHANGED connection
  /\ UNCHANGED <<catalog, remote, granted, statement, registering, left>>

OpenFolder(s) ==
  /\ sync[s].pc = "walking" /\ sync[s].current = Nowhere /\ sync[s].page = {}
  /\ \E f \in sync[s].queue :
       sync' = [sync EXCEPT ![s] =
         [sync[s] EXCEPT !.queue = @ \ {f}, !.visited = @ \cup {f},
                         !.current = IF f \in sync[s].visited THEN Nowhere ELSE f,
                         !.listed = {}]]
  /\ UNCHANGED <<connection, catalog, remote, granted, statement, registering, left>>

(* A page: entries of the folder that no page before it has returned.      *)
ListPage(s) ==
  LET f == sync[s].current
      rest == Children(f) \ sync[s].listed
      size == IF Cardinality(rest) < PageSize THEN Cardinality(rest) ELSE PageSize
  IN /\ sync[s].pc = "walking" /\ f # Nowhere /\ sync[s].page = {}
     /\ granted
     /\ \E p \in {q \in SUBSET rest : Cardinality(q) = size} :
          sync' = [sync EXCEPT ![s] =
            [sync[s] EXCEPT !.page = {<<i, StatusOf(i)>> : i \in p},
                            !.listed = @ \cup p,
                            !.queue = @ \cup {d \in p \cap SubFolders : ~remote[d].trashed},
                            !.current = IF p = rest THEN Nowhere ELSE f]]
     /\ UNCHANGED <<connection, catalog, remote, granted, statement, registering, left>>

(* upsertPage: one statement for each entry. *)
UpsertEntry(s) ==
  /\ sync[s].pc = "walking"
  /\ \E e \in sync[s].page :
       /\ catalog' = [catalog EXCEPT ![e[1]] = e[2]]
       /\ sync' = [sync EXCEPT ![s].page = @ \ {e}, ![s].seen = @ \cup {e[1]}]
  /\ UNCHANGED <<connection, remote, granted, statement, registering, left>>

SweptCatalog(s) ==
  [i \in Objects |-> IF i \in sync[s].seen \/ catalog[i] \in {"none", "TRASHED"}
                     THEN catalog[i] ELSE "UNAVAILABLE"]

Sweep(s) ==
  /\ sync[s].pc = "walking"
  /\ sync[s].current = Nowhere /\ sync[s].queue = {} /\ sync[s].page = {}
  /\ catalog' = SweptCatalog(s)
  /\ sync' = [sync EXCEPT ![s].pc = "swept"]
  /\ UNCHANGED <<connection, remote, granted, statement, registering, left>>

EndSync(s, status) ==
  /\ connection' = [connection EXCEPT !.status = status]
  /\ sync' = [sync EXCEPT ![s] = [NoSync EXCEPT !.pc = "done"]]

CompleteSync(s) ==
  /\ sync[s].pc = "swept"
  /\ EndSync(s, "SYNCED")
  /\ UNCHANGED <<catalog, remote, granted, statement, registering, left>>

(* A failed call of Drive, or a failed statement: nothing is swept.        *)
\* Mutant: a page that fails is taken for an empty one.
SkipPage(s) ==
  /\ sync[s].pc = "walking" /\ Spend("events")
  /\ sync' = [sync EXCEPT ![s].current = Nowhere]
  /\ UNCHANGED <<connection, catalog, remote, granted, statement, registering>>

FailSync(s) ==
  /\ sync[s].pc \in {"walking", "swept"} /\ Spend("events")
  /\ EndSync(s, "FAILED")
  /\ UNCHANGED <<catalog, remote, granted, statement, registering>>

(* withAccessToken: a call answers 401; the token is refreshed and the     *)
(* walk starts again, once.                                                *)
MayRetry(s) == ~sync[s].retried

RestartWalk(s) ==
  /\ sync[s].pc = "walking" /\ sync[s].current # Nowhere /\ sync[s].page = {}
  /\ MayRetry(s)
  /\ IF granted THEN Spend("events") ELSE UNCHANGED left
  /\ sync' = [sync EXCEPT ![s] = Walk(s, TRUE)]
  /\ UNCHANGED <<connection, catalog, remote, granted, statement, registering>>

(* The refresh is refused, or the second attempt is: the connection counts *)
(* as revoked, and what it has catalogued as stale.                        *)
RevokeSync(s) ==
  /\ sync[s].pc = "walking" /\ sync[s].current # Nowhere /\ sync[s].page = {}
  /\ ~granted
  /\ connection' = [connection EXCEPT !.status = "FAILED", !.revoked = TRUE]
  /\ sync' = [sync EXCEPT ![s].pc = "revoking"]
  /\ UNCHANGED <<catalog, remote, granted, statement, registering, left>>

MarkRevoked(s) ==
  /\ sync[s].pc = "revoking"
  /\ catalog' = Outdated({"CONNECTED"})
  /\ sync' = [sync EXCEPT ![s] = [NoSync EXCEPT !.pc = "done"]]
  /\ UNCHANGED <<connection, remote, granted, statement, registering, left>>

(* The process dies, or the insertion of DRIVE_SYNC_STARTED, which the     *)
(* handler does not cover, fails.                                          *)
LoseSync(s) ==
  /\ sync[s].pc \in Running /\ Spend("events")
  /\ sync' = [sync EXCEPT ![s] = [NoSync EXCEPT !.pc = "lost"]]
  /\ UNCHANGED <<connection, catalog, remote, granted, statement, registering>>

-----------------------------------------------------------------------------
CatalogInit ==
  /\ connection = [status |-> "NEVER_SYNCED", revoked |-> FALSE, tokens |-> TRUE, severed |-> 0,
                   folder |-> FirstFolder]
  /\ catalog = [i \in Objects |-> "none"]
  /\ remote = [i \in Objects |-> [parent |-> Place[i], trashed |-> FALSE]]
  /\ granted = TRUE
  /\ sync = [s \in Syncs |-> NoSync]
  /\ statement = "none"
  /\ registering = {}
  /\ left \in Budgets

SyncStep(s) ==
  \/ ClaimSync(s) \/ OpenFolder(s) \/ ListPage(s) \/ UpsertEntry(s) \/ Sweep(s)
  \/ CompleteSync(s) \/ RestartWalk(s) \/ RevokeSync(s) \/ MarkRevoked(s)

CatalogNext ==
  \/ \E i \in Objects : RemoteChange(i)
  \/ \E i \in DriveFiles : UploadToStorage(i) \/ ReadForImport(i) \/ RegisterFile(i)
  \/ RevokeGrant \/ CompleteAuthorization \/ Disconnect \/ MarkStale
  \/ \E f \in Targets : ConfigureStorageFolder(f)
  \/ \E s \in Syncs : RequestSync(s) \/ SyncStep(s) \/ FailSync(s) \/ LoseSync(s)

CatalogSpec == CatalogInit /\ [][CatalogNext]_catalogVars

(* The server runs the sync it has begun. *)
FairCatalogSpec == CatalogSpec /\ \A s \in Syncs : WF_catalogVars(SyncStep(s))

-----------------------------------------------------------------------------
(* The state has its types. *)
CatalogTypeOK ==
  /\ connection \in [status : SyncStatus, revoked : BOOLEAN, tokens : BOOLEAN, severed : Nat,
                     folder : Targets]
  /\ catalog \in [Objects -> SourceStatus]
  /\ remote \in [Objects -> [parent : Folders \cup {Nowhere}, trashed : BOOLEAN]]
  /\ registering \subseteq DriveFiles
  /\ \A s \in Syncs :
       /\ sync[s].pc \in Running \cup {"idle", "done", "lost"}
       /\ sync[s].queue \cup sync[s].visited \subseteq Folders
       /\ sync[s].current \in sync[s].visited \cup {Nowhere}
       /\ sync[s].listed \cup sync[s].seen \subseteq Objects
       /\ sync[s].page \subseteq Objects \X SourceStatus
  /\ left \in [{"syncs", "files", "events"} -> Nat]

(* What a sync sweeps is what Drive no longer returns: an object that was  *)
(* in the storage folder, untouched, through the whole walk is not made    *)
(* UNAVAILABLE, and one that was outside all the while does not stay       *)
(* CONNECTED, whatever pages fail, tokens are refused or folders move in   *)
(* between: syncProviderFiles under withAccessToken.                       *)
SweepIsExact ==
  [][\A s \in Syncs : Sweep(s) =>
       /\ \A i \in sync[s].steady : catalog[i] # "UNAVAILABLE" => catalog'[i] # "UNAVAILABLE"
       /\ \A i \in sync[s].absent : catalog'[i] \notin {"CONNECTED", "STALE"}]_catalogVars

(* SYNCING, which refuses every other sync, is the status of a connection  *)
(* only while a sync runs, or after one was lost: every way a sync ends    *)
(* writes a status, also when a disconnection let a second one start.  And *)
(* the claim keeps syncs apart: one runs, and one more for each            *)
(* disconnection, which frees the claim of a sync that goes on.            *)
LockIsSound ==
  /\ connection.status = "SYNCING" =>
       \E s \in Syncs : sync[s].pc \in {"walking", "swept", "lost"}
  /\ Cardinality({s \in Syncs : sync[s].pc \in {"walking", "swept"}}) <= 1 + connection.severed

(* A sync that is not lost ends and frees the connection, also when Google *)
(* refuses every call: withAccessToken repeats the walk once.              *)
SyncEnds ==
  connection.status = "SYNCING" ~>
    (connection.status # "SYNCING" \/ \E s \in Syncs : sync[s].pc = "lost")

=============================================================================
