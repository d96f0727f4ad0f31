------------------------------ MODULE DriveProofs ------------------------------
(***************************************************************************)
(* Theorems about DriveCatalog, for any number of syncs, folders and       *)
(* files, about DriveRegistration, for any number of requests of any       *)
(* number of idempotency keys, and about ResumableUpload, for a source of  *)
(* any length, any size of a chunk and any number of answers without       *)
(* progress.                                                               *)
(***************************************************************************)
EXTENDS MCDrive, FiniteSetTheorems, SequenceTheorems, WellFoundedInduction, TLAPS

-----------------------------------------------------------------------------
(* The catalog: the types.                                                 *)

Places == Folders \cup {Nowhere}
Integration == [status : SyncStatus, revoked : BOOLEAN, tokens : BOOLEAN, severed : Nat,
                folder : Targets]
RemoteObject == [parent : Places, trashed : BOOLEAN]
SyncRun == [pc : Running \cup {"idle", "done", "lost"}, folder : Places, queue : SUBSET Folders,
            current : Places, visited : SUBSET Folders, listed : SUBSET Objects,
            page : SUBSET (Objects \X SourceStatus), seen : SUBSET Objects,
            retried : BOOLEAN, steady : SUBSET Objects, absent : SUBSET Objects]
Bounds == [syncs : Nat, files : Nat, events : Nat]

\* A walk begins at the folder its request read.
SyncFits(r) ==
    /\ r \in SyncRun /\ r.current \in r.visited \cup {Nowhere}
    /\ r.pc \in {"requested", "walking"} => r.folder \in Targets

CatalogInv ==
    /\ connection \in Integration
    /\ catalog \in [Objects -> SourceStatus]
    /\ remote \in [Objects -> RemoteObject]
    /\ registering \subseteq DriveFiles
    /\ sync \in [Syncs -> SyncRun] /\ \A s \in Syncs : SyncFits(sync[s])
    /\ left \in Bounds

LEMMA NoSyncFits == SyncFits(NoSync)
BY DEF SyncFits, NoSync, SyncRun, Running, Places

LEMMA CatalogInitFits == CatalogInit => CatalogInv
<1> SUFFICES ASSUME CatalogInit PROVE CatalogInv
  OBVIOUS
<1>1. connection \in Integration
  BY CatalogConstants DEF CatalogInit, Integration, SyncStatus
<1>2. catalog \in [Objects -> SourceStatus] /\ remote \in [Objects -> RemoteObject]
  BY CatalogConstants DEF CatalogInit, SourceStatus, RemoteObject, Places
<1>3. sync \in [Syncs -> SyncRun] /\ \A s \in Syncs : SyncFits(sync[s])
  BY NoSyncFits DEF CatalogInit, SyncFits
<1>4. registering \subseteq DriveFiles /\ left \in Bounds
  BY CatalogConstants DEF CatalogInit, Bounds
<1> QED
  BY <1>1, <1>2, <1>3, <1>4 DEF CatalogInv

LEMMA SpendFits == ASSUME CatalogInv, NEW b \in {"syncs", "files", "events"}, Spend(b)
                   PROVE left' \in Bounds
BY DEF Spend, CatalogInv, Bounds

\* A sync moves, the rest keeps its types.
LEMMA SyncMoves ==
    ASSUME CatalogInv, NEW s \in Syncs, NEW r, sync' = [sync EXCEPT ![s] = r], SyncFits(r)
    PROVE sync' \in [Syncs -> SyncRun] /\ \A t \in Syncs : SyncFits(sync'[t])
BY DEF CatalogInv, SyncFits

LEMMA WalkFits ==
    ASSUME CatalogInv, NEW s \in Syncs, sync[s].pc \in {"requested", "walking"},
           NEW retried \in BOOLEAN
    PROVE SyncFits(Walk(s, retried)) /\ Walk(s, retried).pc = "walking"
<1> DEFINE steady == {i \in Objects : i \in Below(sync[s].folder) /\ ~remote[i].trashed}
           absent == Objects \ (Below(sync[s].folder) \cup Unborn \cup registering)
<1>1. sync[s].folder \in Targets /\ sync[s].folder \in Folders /\ sync[s].folder \in Places
  BY DEF CatalogInv, SyncFits, Folders, Places
<1>2. steady \in SUBSET Objects /\ absent \in SUBSET Objects
  OBVIOUS
<1>3. Walk(s, retried) = [NoSync EXCEPT !.pc = "walking", !.folder = sync[s].folder,
        !.queue = {sync[s].folder}, !.retried = retried, !.steady = steady, !.absent = absent]
  BY DEF Walk
<1> DEFINE f == sync[s].folder
           w == [pc |-> "walking", folder |-> f, queue |-> {f}, current |-> Nowhere,
                 visited |-> {}, listed |-> {}, page |-> {}, seen |-> {},
                 retried |-> retried, steady |-> steady, absent |-> absent]
<1>4. Walk(s, retried) = w
  <2> HIDE DEF steady, absent
  <2> QED
    BY <1>3 DEF NoSync
<1> HIDE DEF steady, absent, f
<1>5. w \in SyncRun
  BY <1>1, <1>2 DEF SyncRun, Running, Places, f
<1> QED
  BY <1>1, <1>4, <1>5 DEF SyncFits, f

\* What the requests and users do around the syncs.
LEMMA AroundFits ==
    ASSUME CatalogInv,
           \/ \E i \in Objects : RemoteChange(i)
           \/ \E i \in DriveFiles : UploadToStorage(i) \/ ReadForImport(i) \/ RegisterFile(i)
           \/ RevokeGrant \/ CompleteAuthorization \/ Disconnect \/ MarkStale
           \/ \E f \in Targets : ConfigureStorageFolder(f)
           \/ UNCHANGED catalogVars
    PROVE /\ CatalogInv' /\ \A s \in Syncs : sync'[s].pc = sync[s].pc
          /\ \/ connection'.status = connection.status /\ connection'.severed = connection.severed
             \/ connection'.status = "FAILED" /\ connection'.severed = connection.severed + 1
<1>1. ASSUME NEW i \in Objects, RemoteChange(i)
      PROVE CatalogInv' /\ UNCHANGED connection /\ \A s \in Syncs : sync'[s].pc = sync[s].pc
  <2> DEFINE moved == {i} \cup (IF i \in SubFolders THEN Below(i) \cup Objects ELSE {})
  <2>1. sync' = [s \in Syncs |-> [sync[s] EXCEPT !.steady = @ \ moved, !.absent = @ \ moved]]
    BY <1>1 DEF RemoteChange, Unsettle
  <2> HIDE DEF moved
  <2>2. ASSUME NEW s \in Syncs PROVE SyncFits(sync'[s]) /\ sync'[s].pc = sync[s].pc
    BY <2>1, <2>2 DEF CatalogInv, SyncFits, SyncRun
  <2>3. remote' \in [Objects -> RemoteObject]
    BY <1>1 DEF RemoteChange, CatalogInv, RemoteObject, Places, Folders
  <2>4. left' \in Bounds /\ UNCHANGED <<connection, catalog, registering>>
    BY <1>1, SpendFits DEF RemoteChange
  <2>5. sync' \in [Syncs -> SyncRun]
    BY <2>1, <2>2 DEF SyncFits
  <2> QED
    BY <2>2, <2>3, <2>4, <2>5 DEF CatalogInv
<1>2. ASSUME NEW i \in DriveFiles, UploadToStorage(i) \/ ReadForImport(i) \/ RegisterFile(i)
      PROVE CatalogInv' /\ UNCHANGED <<connection, sync>>
  <2>1. left' \in Bounds
    BY <1>2, SpendFits DEF UploadToStorage, ReadForImport, RegisterFile, CatalogInv
  <2>2. remote' \in [Objects -> RemoteObject]
    BY <1>2 DEF UploadToStorage, ReadForImport, RegisterFile, CatalogInv, RemoteObject,
                Integration, Places, Folders
  <2>3. catalog' \in [Objects -> SourceStatus] /\ registering' \subseteq DriveFiles
    BY <1>2 DEF UploadToStorage, ReadForImport, RegisterFile, CatalogInv, SourceStatus
  <2>4. UNCHANGED <<connection, sync>>
    BY <1>2 DEF UploadToStorage, ReadForImport, RegisterFile
  <2> QED
    BY <2>1, <2>2, <2>3, <2>4 DEF CatalogInv
<1>3. ASSUME \/ RevokeGrant \/ CompleteAuthorization \/ Disconnect \/ MarkStale
             \/ \E f \in Targets : ConfigureStorageFolder(f)
      PROVE /\ CatalogInv' /\ UNCHANGED sync
            /\ \/ connection'.status = connection.status /\ connection'.severed = connection.severed
               \/ connection'.status = "FAILED" /\ connection'.severed = connection.severed + 1
  <2>1. left' \in Bounds
    BY <1>3, SpendFits DEF RevokeGrant, CompleteAuthorization, Disconnect, MarkStale,
                           ConfigureStorageFolder, CatalogInv
  <2>2. /\ connection' \in Integration
        /\ \/ connection'.status = connection.status /\ connection'.severed = connection.severed
           \/ connection'.status = "FAILED" /\ connection'.severed = connection.severed + 1
    <3>1. CASE UNCHANGED connection
      BY <3>1 DEF CatalogInv
    <3>2. CASE CompleteAuthorization
      BY <3>2 DEF CompleteAuthorization, CatalogInv, Integration
    <3>3. CASE Disconnect
      <4>1. connection' = [connection EXCEPT !.tokens = FALSE, !.revoked = TRUE,
                             !.status = "FAILED", !.severed = connection.severed + 1]
        BY <3>3 DEF Disconnect
      <4>2. connection.severed + 1 \in Nat
        BY DEF CatalogInv, Integration
      <4> DEFINE severed == connection.severed + 1
      <4> HIDE DEF severed
      <4>3. connection' = [connection EXCEPT !.tokens = FALSE, !.revoked = TRUE,
                             !.status = "FAILED", !.severed = severed] /\ severed \in Nat
        BY <4>1, <4>2 DEF severed
      <4>4. connection' \in Integration /\ connection'.status = "FAILED"
            /\ connection'.severed = severed
        BY <4>3 DEF CatalogInv, Integration, SyncStatus
      <4> QED
        BY <4>4 DEF severed
    <3>4. ASSUME NEW f \in Targets, ConfigureStorageFolder(f)
          PROVE /\ connection' \in Integration
                /\ connection'.status = connection.status /\ connection'.severed = connection.severed
      BY <3>4 DEF ConfigureStorageFolder, CatalogInv, Integration
    <3> QED
      BY <1>3, <3>1, <3>2, <3>3, <3>4 DEF RevokeGrant, MarkStale
  <2>3. catalog' \in [Objects -> SourceStatus]
    BY <1>3 DEF RevokeGrant, CompleteAuthorization, Disconnect, MarkStale,
                ConfigureStorageFolder, CatalogInv, Outdated, SourceStatus
  <2>4. UNCHANGED <<sync, remote, registering>>
    BY <1>3 DEF RevokeGrant, CompleteAuthorization, Disconnect, MarkStale,
                ConfigureStorageFolder
  <2> QED
    BY <2>1, <2>2, <2>3, <2>4 DEF CatalogInv
<1>4. CASE UNCHANGED catalogVars
  BY <1>4 DEF catalogVars, CatalogInv
<1> QED
  BY <1>1, <1>2, <1>3, <1>4

\* What a sync does: its next state fits, and the rest keeps its types.
LEMMA SyncFitsOn ==
    ASSUME CatalogInv, NEW s \in Syncs,
           RequestSync(s) \/ SyncStep(s) \/ FailSync(s) \/ LoseSync(s)
    PROVE \E r : sync' = [sync EXCEPT ![s] = r] /\ SyncFits(r)
<1>1. sync \in [Syncs -> SyncRun] /\ sync[s] \in SyncRun /\ SyncFits(sync[s])
      /\ connection.folder \in Targets
  BY DEF CatalogInv, Integration
<1> DEFINE To(r) == sync' = [sync EXCEPT ![s] = r]
           Goal == \E r : To(r) /\ SyncFits(r)
<1>2. ASSUME NEW r, To(r), SyncFits(r) PROVE Goal
  BY <1>2
<1>3. SyncFits([NoSync EXCEPT !.pc = "done"]) /\ SyncFits([NoSync EXCEPT !.pc = "lost"])
  BY NoSyncFits DEF SyncFits, SyncRun, NoSync
<1> HIDE DEF Goal
<1> SUFFICES Goal
  BY DEF Goal
<1>4. CASE RequestSync(s)
  <2> DEFINE r == [NoSync EXCEPT !.pc = "requested", !.folder = connection.folder]
  <2>1. To(r)
    BY <1>4 DEF RequestSync
  <2>2. SyncFits(r)
    BY <1>1, NoSyncFits DEF SyncFits, SyncRun, NoSync, Running, Places, Folders
  <2> HIDE DEF r
  <2> QED
    BY <1>2, <2>1, <2>2
<1>5. CASE ClaimSync(s)
  <2>1. To(Walk(s, FALSE)) \/ To([NoSync EXCEPT !.pc = "done"])
    BY <1>5 DEF ClaimSync
  <2>2. SyncFits(Walk(s, FALSE))
    BY <1>5, WalkFits DEF ClaimSync
  <2> QED
    BY <1>2, <1>3, <2>1, <2>2
<1>6. CASE OpenFolder(s)
  <2>1. PICK f \in sync[s].queue : To([sync[s] EXCEPT !.queue = @ \ {f}, !.visited = @ \cup {f},
             !.current = IF f \in sync[s].visited THEN Nowhere ELSE f, !.listed = {}])
    BY <1>6 DEF OpenFolder
  <2> DEFINE r == [sync[s] EXCEPT !.queue = @ \ {f}, !.visited = @ \cup {f},
             !.current = IF f \in sync[s].visited THEN Nowhere ELSE f, !.listed = {}]
  <2>2. f \in Folders
    BY <1>1, <2>1 DEF SyncRun
  <2>3. SyncFits(r)
    BY <1>1, <2>2 DEF SyncFits, SyncRun, Places
  <2> QED
    BY <1>2, <2>1, <2>3
<1>7. CASE ListPage(s)
  <2> DEFINE f == sync[s].current
             rest == Children(f) \ sync[s].listed
             R(p) == [sync[s] EXCEPT !.page = {<<i, StatusOf(i)>> : i \in p},
                        !.listed = @ \cup p,
                        !.queue = @ \cup {d \in p \cap SubFolders : ~remote[d].trashed},
                        !.current = IF p = rest THEN Nowhere ELSE f]
  <2>1. PICK p \in SUBSET rest : To(R(p))
    BY <1>7 DEF ListPage
  <2>2. p \subseteq Objects
    BY <2>1 DEF Children
  <2>3. {<<i, StatusOf(i)>> : i \in p} \in SUBSET (Objects \X SourceStatus)
    BY <2>2 DEF StatusOf, SourceStatus
  <2>4. {d \in p \cap SubFolders : ~remote[d].trashed} \subseteq Folders
    BY DEF Folders
  <2>5. ASSUME NEW page \in SUBSET (Objects \X SourceStatus), NEW subs \in SUBSET Folders,
               NEW current \in {Nowhere, f}
        PROVE SyncFits([sync[s] EXCEPT !.page = page, !.listed = @ \cup p,
                          !.queue = @ \cup subs, !.current = current])
    BY <1>1, <2>2, <2>5 DEF SyncFits, SyncRun, Places
  <2>6. SyncFits(R(p))
    <3> HIDE DEF rest, f
    <3> QED
      BY <2>3, <2>4, <2>5
  <2> HIDE DEF R
  <2> QED
    BY <1>2, <2>1, <2>6
<1>8. CASE UpsertEntry(s)
  <2>1. PICK e \in sync[s].page : sync' = [sync EXCEPT ![s].page = @ \ {e}, ![s].seen = @ \cup {e[1]}]
    BY <1>8 DEF UpsertEntry
  <2>2. e[1] \in Objects
    BY <1>1, <2>1 DEF SyncRun
  <2> DEFINE r == [sync[s] EXCEPT !.page = @ \ {e}, !.seen = @ \cup {e[1]}]
  <2>3. To(r)
    BY <1>1, <2>1 DEF SyncRun
  <2>4. SyncFits(r)
    BY <1>1, <2>2 DEF SyncFits, SyncRun
  <2> HIDE DEF r
  <2> QED
    BY <1>2, <2>3, <2>4
<1>9. CASE Sweep(s)
  <2>1. To([sync[s] EXCEPT !.pc = "swept"])
    BY <1>9 DEF Sweep
  <2>2. SyncFits([sync[s] EXCEPT !.pc = "swept"])
    BY <1>1 DEF SyncFits, SyncRun, Running
  <2> QED
    BY <1>2, <2>1, <2>2
<1>10. CASE CompleteSync(s) \/ FailSync(s) \/ MarkRevoked(s) \/ LoseSync(s)
  <2>1. To([NoSync EXCEPT !.pc = "done"]) \/ To([NoSync EXCEPT !.pc = "lost"])
    BY <1>10 DEF CompleteSync, FailSync, MarkRevoked, LoseSync, EndSync
  <2> QED
    BY <1>2, <1>3, <2>1
<1>11. CASE RestartWalk(s)
  <2>1. To(Walk(s, TRUE)) /\ SyncFits(Walk(s, TRUE))
    BY <1>11, WalkFits DEF RestartWalk
  <2> QED
    BY <1>2, <2>1
<1>12. CASE RevokeSync(s)
  <2>1. To([sync[s] EXCEPT !.pc = "revoking"])
    BY <1>12 DEF RevokeSync
  <2>2. SyncFits([sync[s] EXCEPT !.pc = "revoking"])
    BY <1>1 DEF SyncFits, SyncRun, Running
  <2> QED
    BY <1>2, <2>1, <2>2
<1> QED
  BY <1>4, <1>5, <1>6, <1>7, <1>8, <1>9, <1>10, <1>11, <1>12 DEF SyncStep

LEMMA SyncStepFits ==
    ASSUME CatalogInv, NEW s \in Syncs,
           RequestSync(s) \/ SyncStep(s) \/ FailSync(s) \/ LoseSync(s)
    PROVE CatalogInv'
<1>1. sync' \in [Syncs -> SyncRun] /\ \A t \in Syncs : SyncFits(sync'[t])
  BY SyncFitsOn, SyncMoves
<1>2. connection' \in Integration
  BY DEF CatalogInv, Integration, SyncStatus, RequestSync, SyncStep, FailSync, LoseSync, ClaimSync,
         OpenFolder, ListPage, UpsertEntry, Sweep, CompleteSync, RestartWalk, RevokeSync,
         MarkRevoked, EndSync
<1>3. UNCHANGED <<remote, registering>>
  BY DEF RequestSync, SyncStep, FailSync, LoseSync, ClaimSync, OpenFolder, ListPage,
         UpsertEntry, Sweep, CompleteSync, RestartWalk, RevokeSync, MarkRevoked
<1>4. left' \in Bounds
  <2>1. UNCHANGED left \/ Spend("syncs") \/ Spend("events")
    BY DEF RequestSync, SyncStep, FailSync, LoseSync, ClaimSync, OpenFolder, ListPage,
           UpsertEntry, Sweep, CompleteSync, RestartWalk, RevokeSync, MarkRevoked
  <2> QED
    BY <2>1, SpendFits DEF CatalogInv
<1>5. catalog' \in [Objects -> SourceStatus]
  <2>1. CASE UNCHANGED catalog
    BY <2>1 DEF CatalogInv
  <2>2. CASE UpsertEntry(s)
    <3>1. PICK e \in sync[s].page : catalog' = [catalog EXCEPT ![e[1]] = e[2]]
      BY <2>2 DEF UpsertEntry
    <3>2. e[2] \in SourceStatus
      BY <3>1 DEF CatalogInv, SyncRun
    <3> QED
      BY <3>1, <3>2 DEF CatalogInv
  <2>3. CASE Sweep(s)
    BY <2>3 DEF Sweep, SweptCatalog, CatalogInv, SourceStatus
  <2>4. CASE MarkRevoked(s)
    BY <2>4 DEF MarkRevoked, Outdated, CatalogInv, SourceStatus
  <2> QED
    BY <2>1, <2>2, <2>3, <2>4 DEF RequestSync, SyncStep, FailSync, LoseSync, ClaimSync,
       OpenFolder, ListPage, CompleteSync, RestartWalk, RevokeSync
<1> QED
  BY <1>1, <1>2, <1>3, <1>4, <1>5 DEF CatalogInv

LEMMA CatalogStepFits == CatalogInv /\ [CatalogNext]_catalogVars => CatalogInv'
BY AroundFits, SyncStepFits DEF CatalogNext

LEMMA CatalogTyped == CatalogInv => CatalogTypeOK
<1> SUFFICES ASSUME CatalogInv PROVE CatalogTypeOK
  OBVIOUS
<1>1. left \in [{"syncs", "files", "events"} -> Nat]
  BY DEF CatalogInv, Bounds
<1> QED
  BY <1>1 DEF CatalogInv, CatalogTypeOK, Integration, RemoteObject, Places, SyncFits, SyncRun

\* Every row of the catalog, the connection and every sync keep their types.
THEOREM CatalogTypes == CatalogSpec => []CatalogTypeOK
BY CatalogTyped, CatalogInitFits, CatalogStepFits, PTL DEF CatalogSpec

-----------------------------------------------------------------------------
(* The catalog: the sweep.                                                 *)

\* The folders a walk from f enters where every object is `there`.
FoldersFrom(there, f) ==
    LET Closed(C) == \A d \in SubFolders :
          there[d].parent \in C \cup {f} /\ ~there[d].trashed => d \in C
    IN {f} \cup {d \in SubFolders : \A C \in SUBSET SubFolders : Closed(C) => d \in C}

\* A walk under which no folder has moved is in folders it should enter, has noted
\* what stays in those it has read and put the folders in them in its queue, and
\* nothing that is elsewhere.
Noted(r) == r.seen \cup {e[1] : e \in r.page}
HasRead(r, there, i) ==
    there[i].parent \in r.visited /\ (there[i].parent = r.current => i \in r.listed)
WalkTracks(r, there) ==
    /\ r.folder \in r.queue \cup r.visited
    /\ r.queue \cup r.visited \subseteq FoldersFrom(there, r.folder)
    /\ \A i \in Objects : HasRead(r, there, i) =>
         /\ i \in r.steady => i \in Noted(r)
         /\ i \in SubFolders /\ ~there[i].trashed => i \in r.queue \cup r.visited
    /\ \A i \in r.steady : there[i].parent \in FoldersFrom(there, r.folder)
    /\ \A i \in r.absent : /\ there[i].parent \notin FoldersFrom(there, r.folder)
                           /\ i \notin Unborn \cup Noted(r)
SyncTracks(r, there) ==
    r.pc = "walking" /\ r.steady \cup r.absent # {} => WalkTracks(r, there)

SweepInv == CatalogInv /\ \A s \in Syncs : SyncTracks(sync[s], remote)

LEMMA EnteredFrom == /\ \A f : Entered(f) = FoldersFrom(remote, f)
                     /\ \A f : Below(f) = {i \in Objects : remote[i].parent \in FoldersFrom(remote, f)}
BY DEF Entered, Below, FoldersFrom

\* What a walk enters is closed under untrashed folders, and the least such set.
LEMMA FoldersClosed ==
    ASSUME NEW there, NEW f, NEW d \in SubFolders,
           there[d].parent \in FoldersFrom(there, f), ~there[d].trashed
    PROVE d \in FoldersFrom(there, f)
BY DEF FoldersFrom

LEMMA FoldersLeast ==
    ASSUME NEW there, NEW f, NEW entered, f \in entered,
           \A d \in SubFolders : there[d].parent \in entered /\ ~there[d].trashed => d \in entered
    PROVE FoldersFrom(there, f) \subseteq entered
<1> DEFINE C == entered \cap SubFolders
<1>1. C \in SUBSET SubFolders /\ \A d \in SubFolders :
        there[d].parent \in C \cup {f} /\ ~there[d].trashed => d \in C
  OBVIOUS
<1>2. FoldersFrom(there, f) \subseteq {f} \cup C
  <2> HIDE DEF C
  <2> QED
    BY <1>1 DEF FoldersFrom
<1> QED
  BY <1>2

LEMMA FoldersSame ==
    ASSUME NEW there, NEW then, \A d \in SubFolders : then[d] = there[d]
    PROVE \A f : FoldersFrom(then, f) = FoldersFrom(there, f)
BY DEF FoldersFrom

LEMMA FoldersAre ==
    ASSUME NEW there, NEW f PROVE FoldersFrom(there, f) \subseteq {f} \cup SubFolders
BY DEF FoldersFrom

LEMMA FreshWalkTracks ==
    ASSUME CatalogInv, NEW s \in Syncs, sync[s].pc \in {"requested", "walking"},
           NEW retried \in BOOLEAN
    PROVE SyncTracks(Walk(s, retried), remote)
<1> DEFINE f == sync[s].folder
           steady == {i \in Objects : i \in Below(f) /\ ~remote[i].trashed}
           absent == Objects \ (Below(f) \cup Unborn \cup registering)
           w == [pc |-> "walking", folder |-> f, queue |-> {f}, current |-> Nowhere,
                 visited |-> {}, listed |-> {}, page |-> {}, seen |-> {},
                 retried |-> retried, steady |-> steady, absent |-> absent]
<1>1. Walk(s, retried) = [NoSync EXCEPT !.pc = "walking", !.folder = f,
        !.queue = {f}, !.retried = retried, !.steady = steady, !.absent = absent]
  BY DEF Walk
<1>2. Walk(s, retried) = w
  <2> HIDE DEF steady, absent, f
  <2> QED
    BY <1>1 DEF NoSync
<1>3. /\ \A i \in steady : remote[i].parent \in FoldersFrom(remote, f)
      /\ \A i \in absent : remote[i].parent \notin FoldersFrom(remote, f) /\ i \notin Unborn
  BY EnteredFrom
<1>4. f \in FoldersFrom(remote, f)
  BY DEF FoldersFrom
<1> HIDE DEF steady, absent, f
<1>5. WalkTracks(w, remote)
  BY <1>3, <1>4 DEF WalkTracks, HasRead, Noted
<1> QED
  BY <1>2, <1>5 DEF SyncTracks

\* Users of Drive, administrators and registrations: a folder that moves unsettles
\* every walk, a file what it was; a file uploaded was neither steady nor absent.
LEMMA SweepAround ==
    ASSUME SweepInv, CatalogInv',
           \/ \E i \in Objects : RemoteChange(i)
           \/ \E i \in DriveFiles : UploadToStorage(i) \/ ReadForImport(i) \/ RegisterFile(i)
           \/ RevokeGrant \/ CompleteAuthorization \/ Disconnect \/ MarkStale
           \/ \E f \in Targets : ConfigureStorageFolder(f)
           \/ UNCHANGED catalogVars
    PROVE SweepInv'
<1>1. ASSUME NEW i \in Objects, RemoteChange(i) PROVE SweepInv'
  <2> DEFINE moved == {i} \cup (IF i \in SubFolders THEN Below(i) \cup Objects ELSE {})
  <2>1. sync' = [s \in Syncs |-> [sync[s] EXCEPT !.steady = @ \ moved, !.absent = @ \ moved]]
    BY <1>1 DEF RemoteChange, Unsettle
  <2>2. i \in moved /\ (i \in SubFolders => Objects \subseteq moved)
    OBVIOUS
  <2>3. \A j \in Objects \ {i} : remote'[j] = remote[j]
    BY <1>1 DEF RemoteChange, CatalogInv, SweepInv
  <2> HIDE DEF moved
  <2>4. ASSUME NEW s \in Syncs PROVE SyncTracks(sync'[s], remote')
    <3>1. sync[s] \in SyncRun /\ SyncTracks(sync[s], remote)
      BY DEF SweepInv, CatalogInv, SyncFits
    <3> DEFINE r == sync[s]
               q == sync'[s]
    <3>2. /\ q.pc = r.pc /\ q.folder = r.folder /\ q.queue = r.queue /\ q.visited = r.visited
          /\ q.current = r.current /\ q.listed = r.listed /\ q.page = r.page /\ q.seen = r.seen
          /\ q.steady = r.steady \ moved /\ q.absent = r.absent \ moved
          /\ r.steady \subseteq Objects /\ r.absent \subseteq Objects
      BY <2>1, <3>1 DEF SyncRun
    <3> HIDE DEF r, q
    <3>3. CASE i \in SubFolders
      <4>1. q.steady \cup q.absent = {}
        BY <2>2, <3>2, <3>3
      <4> QED
        BY <4>1 DEF SyncTracks, q
    <3>4. CASE i \notin SubFolders
      <4>1. \A f : FoldersFrom(remote', f) = FoldersFrom(remote, f)
        <5>1. \A d \in SubFolders : remote'[d] = remote[d]
          BY <2>3, <3>4 DEF Objects
        <5> QED
          BY <5>1, FoldersSame
      <4>2. ASSUME q.pc = "walking", q.steady \cup q.absent # {} PROVE WalkTracks(q, remote')
        <5>1. WalkTracks(r, remote)
          BY <3>1, <3>2, <4>2 DEF SyncTracks, r
        <5>2. \A j \in Objects \ {i} : HasRead(q, remote', j) => HasRead(r, remote, j)
          BY <2>3, <3>2 DEF HasRead
        <5>3. Noted(q) = Noted(r)
          BY <3>2 DEF Noted
        <5> QED
          BY <2>2, <2>3, <3>2, <3>4, <4>1, <5>1, <5>2, <5>3 DEF WalkTracks
      <4> QED
        BY <4>2 DEF SyncTracks, q
    <3> QED
      BY <3>3, <3>4
  <2> QED
    BY <2>4 DEF SweepInv
<1>2. ASSUME NEW i \in DriveFiles, UploadToStorage(i) PROVE SweepInv'
  <2>1. /\ i \in Unborn /\ remote[i].parent = Nowhere /\ UNCHANGED sync /\ i \in Objects
        /\ i \notin SubFolders
        /\ \A j \in Objects \ {i} : remote'[j] = remote[j]
    BY <1>2, CatalogConstants DEF UploadToStorage, SweepInv, CatalogInv, Objects
  <2>2. \A f : FoldersFrom(remote', f) = FoldersFrom(remote, f)
    <3>1. \A d \in SubFolders : remote'[d] = remote[d]
      BY <2>1 DEF Objects
    <3> QED
      BY <3>1, FoldersSame
  <2>3. ASSUME NEW s \in Syncs, sync[s].pc = "walking", sync[s].steady \cup sync[s].absent # {}
        PROVE WalkTracks(sync[s], remote')
    <3> DEFINE r == sync[s]
    <3>1. WalkTracks(r, remote)
      BY <2>3 DEF SweepInv, SyncTracks
    <3>2. r.steady \subseteq Objects /\ r.absent \subseteq Objects /\ r.folder \in Targets
      BY <2>3 DEF SweepInv, CatalogInv, SyncFits, SyncRun
    <3>3. Nowhere \notin FoldersFrom(remote, r.folder)
      BY <3>2, FoldersAre, CatalogConstants DEF Folders
    <3>4. i \notin r.steady \cup r.absent
      BY <2>1, <3>1, <3>3 DEF WalkTracks
    <3>5. \A j \in Objects \ {i} : HasRead(r, remote', j) => HasRead(r, remote, j)
      BY <2>1 DEF HasRead
    <3> HIDE DEF r
    <3>6. WalkTracks(r, remote')
      BY <2>1, <2>2, <3>1, <3>2, <3>4, <3>5 DEF WalkTracks
    <3> QED
      BY <3>6 DEF r
  <2> QED
    BY <2>1, <2>3 DEF SweepInv, SyncTracks
<1>3. CASE UNCHANGED <<sync, remote>>
  BY <1>3 DEF SweepInv
<1> QED
  BY <1>1, <1>2, <1>3 DEF ReadForImport, RegisterFile, RevokeGrant, CompleteAuthorization,
     Disconnect, MarkStale, ConfigureStorageFolder, catalogVars

\* A sync goes on: what its walk has noted stays, and a folder is left when all that
\* is in it has been listed.
LEMMA SweepOn ==
    ASSUME SweepInv, NEW s \in Syncs,
           RequestSync(s) \/ SyncStep(s) \/ FailSync(s) \/ LoseSync(s)
    PROVE \E r : sync' = [sync EXCEPT ![s] = r] /\ SyncTracks(r, remote)
<1>1. /\ CatalogInv /\ sync \in [Syncs -> SyncRun] /\ sync[s] \in SyncRun /\ SyncFits(sync[s])
      /\ SyncTracks(sync[s], remote) /\ Nowhere \notin Folders
  BY CatalogConstants DEF SweepInv, CatalogInv
<1> DEFINE To(r) == sync' = [sync EXCEPT ![s] = r]
           Goal == \E r : To(r) /\ SyncTracks(r, remote)
<1>2. ASSUME NEW r, To(r), SyncTracks(r, remote) PROVE Goal
  BY <1>2
<1>3. ASSUME NEW r, To(r), r.pc # "walking" PROVE Goal
  BY <1>3 DEF SyncTracks
<1>4. ASSUME NEW r, To(r), r.steady = sync[s].steady, r.absent = sync[s].absent,
             sync[s].pc = "walking",
             WalkTracks(sync[s], remote) => WalkTracks(r, remote)
      PROVE Goal
  <2>1. SyncTracks(r, remote)
    BY <1>1, <1>4 DEF SyncTracks
  <2> QED
    BY <1>2, <1>4, <2>1
<1> HIDE DEF Goal
<1> SUFFICES Goal
  BY DEF Goal
<1>5. ASSUME NEW status, To([NoSync EXCEPT !.pc = status]), status # "walking" PROVE Goal
  <2>1. [NoSync EXCEPT !.pc = status].pc = status
    BY DEF NoSync
  <2> HIDE DEF To
  <2> QED
    BY <1>3, <1>5, <2>1
<1>6. CASE RequestSync(s)
  <2> DEFINE r == [NoSync EXCEPT !.pc = "requested", !.folder = connection.folder]
  <2>1. To(r) /\ r.pc # "walking"
    BY <1>6 DEF RequestSync, NoSync
  <2> HIDE DEF r
  <2> QED
    BY <1>3, <2>1
<1>7. CASE ClaimSync(s)
  <2>1. To(Walk(s, FALSE)) \/ To([NoSync EXCEPT !.pc = "done"])
    BY <1>7 DEF ClaimSync
  <2>2. SyncTracks(Walk(s, FALSE), remote)
    BY <1>1, <1>7, FreshWalkTracks DEF ClaimSync
  <2> QED
    BY <1>2, <1>5, <2>1, <2>2
<1>8. CASE RestartWalk(s)
  <2>1. To(Walk(s, TRUE)) /\ SyncTracks(Walk(s, TRUE), remote)
    BY <1>1, <1>8, FreshWalkTracks DEF RestartWalk
  <2> QED
    BY <1>2, <2>1
<1>9. CASE OpenFolder(s)
  <2>1. PICK f \in sync[s].queue : To([sync[s] EXCEPT !.queue = @ \ {f}, !.visited = @ \cup {f},
             !.current = IF f \in sync[s].visited THEN Nowhere ELSE f, !.listed = {}])
    BY <1>9 DEF OpenFolder
  <2> DEFINE r == [sync[s] EXCEPT !.queue = @ \ {f}, !.visited = @ \cup {f},
             !.current = IF f \in sync[s].visited THEN Nowhere ELSE f, !.listed = {}]
             w == sync[s]
  <2>2. /\ r.queue = w.queue \ {f} /\ r.visited = w.visited \cup {f} /\ r.listed = {}
        /\ r.current = IF f \in w.visited THEN Nowhere ELSE f
        /\ r.folder = w.folder /\ r.page = w.page /\ r.seen = w.seen
        /\ r.steady = w.steady /\ r.absent = w.absent
    BY <1>1 DEF SyncRun
  <2>3. w.pc = "walking" /\ w.current = Nowhere /\ w.visited \subseteq Folders /\ To(r)
    BY <1>1, <1>9, <2>1 DEF OpenFolder, SyncRun
  <2> HIDE DEF r, w
  <2>4. ASSUME WalkTracks(w, remote) PROVE WalkTracks(r, remote)
    <3>1. Noted(r) = Noted(w) /\ r.queue \cup r.visited = w.queue \cup w.visited
      BY <2>1, <2>2 DEF Noted, w
    <3>2. \A i \in Objects : HasRead(r, remote, i) => HasRead(w, remote, i)
      BY <1>1, <2>2, <2>3 DEF HasRead
    <3> QED
      BY <2>2, <2>4, <3>1, <3>2 DEF WalkTracks
  <2> QED
    BY <1>4, <2>2, <2>3, <2>4 DEF w
<1>10. CASE ListPage(s)
  <2> DEFINE f == sync[s].current
             rest == Children(f) \ sync[s].listed
             w == sync[s]
             Page(p) == {<<i, StatusOf(i)>> : i \in p}
             Subs(p) == {d \in p \cap SubFolders : ~remote[d].trashed}
             R(p) == [sync[s] EXCEPT !.page = {<<i, StatusOf(i)>> : i \in p},
                        !.listed = @ \cup p,
                        !.queue = @ \cup {d \in p \cap SubFolders : ~remote[d].trashed},
                        !.current = IF p = rest THEN Nowhere ELSE f]
  <2>1. PICK p \in SUBSET rest : To(R(p))
    BY <1>10 DEF ListPage
  <2> DEFINE r == R(p)
  <2>2. /\ r.page = Page(p) /\ r.listed = w.listed \cup p /\ r.queue = w.queue \cup Subs(p)
        /\ r.current = (IF p = rest THEN Nowhere ELSE f) /\ r.visited = w.visited
        /\ r.folder = w.folder /\ r.seen = w.seen
        /\ r.steady = w.steady /\ r.absent = w.absent
    <3> HIDE DEF Page, Subs, rest
    <3>1. R(p) = [w EXCEPT !.page = Page(p), !.listed = @ \cup p, !.queue = @ \cup Subs(p),
                           !.current = IF p = rest THEN Nowhere ELSE f]
      BY DEF Page, Subs
    <3> QED
      BY <1>1, <3>1 DEF SyncRun
  <2>3. {e[1] : e \in Page(p)} = p
    <3>1. \A i \in p : <<i, StatusOf(i)>> \in Page(p) /\ <<i, StatusOf(i)>>[1] = i
      OBVIOUS
    <3>2. \A e \in Page(p) : e[1] \in p
      OBVIOUS
    <3>3. ASSUME NEW i \in p PROVE i \in {e[1] : e \in Page(p)}
      <4> HIDE DEF Page
      <4> QED
        BY <3>1
    <3> HIDE DEF Page
    <3> QED
      BY <3>2, <3>3
  <2>4. /\ w.pc = "walking" /\ f # Nowhere /\ w.page = {} /\ f \in w.visited /\ To(r)
        /\ w.visited \subseteq Folders /\ p \subseteq Objects
        /\ \A i \in p : remote[i].parent = f
        /\ p = rest => \A i \in Objects : remote[i].parent = f => i \in w.listed \cup p
        /\ f = w.current
    BY <1>1, <1>10, <2>1 DEF ListPage, SyncRun, SyncFits, Children
  <2>5. Subs(p) \subseteq SubFolders /\ \A d \in SubFolders : d \in Subs(p) <=> d \in p /\ ~remote[d].trashed
    OBVIOUS
  <2> HIDE DEF r, w, f, rest, Page, Subs
  <2>6. ASSUME WalkTracks(w, remote) PROVE WalkTracks(r, remote)
    <3> DEFINE F == FoldersFrom(remote, w.folder)
    <3>1. Noted(r) = Noted(w) \cup p
      BY <2>2, <2>3, <2>4 DEF Noted
    <3>2. f \in F
      BY <2>4, <2>6 DEF WalkTracks
    <3>3. Subs(p) \subseteq F
      BY <2>4, <2>5, <3>2, FoldersClosed
    <3>4. \A i \in Objects : HasRead(r, remote, i) => i \in p \/ HasRead(w, remote, i)
      BY <1>1, <2>2, <2>4 DEF HasRead
    <3>5. \A i \in p : i \notin r.absent
      BY <2>2, <2>4, <2>6, <3>2 DEF WalkTracks
    <3> HIDE DEF F
    <3>6. /\ r.folder \in r.queue \cup r.visited
          /\ r.queue \cup r.visited \subseteq FoldersFrom(remote, r.folder)
      BY <2>2, <2>6, <3>3 DEF WalkTracks, F
    <3>7. ASSUME NEW i \in Objects, HasRead(r, remote, i)
          PROVE /\ i \in r.steady => i \in Noted(r)
                /\ i \in SubFolders /\ ~remote[i].trashed => i \in r.queue \cup r.visited
      <4>1. CASE i \in p
        BY <2>2, <2>5, <3>1, <4>1
      <4>2. CASE HasRead(w, remote, i)
        BY <2>2, <2>6, <3>1, <4>2 DEF WalkTracks
      <4> QED
        BY <3>4, <3>7, <4>1, <4>2
    <3> QED
      BY <2>2, <2>6, <3>1, <3>5, <3>6, <3>7 DEF WalkTracks
  <2>7. w.pc = "walking" /\ w = sync[s]
    BY <2>4 DEF w
  <2> QED
    BY <1>4, <2>2, <2>4, <2>6, <2>7
<1>11. CASE UpsertEntry(s)
  <2>1. PICK e \in sync[s].page : sync' = [sync EXCEPT ![s].page = @ \ {e}, ![s].seen = @ \cup {e[1]}]
    BY <1>11 DEF UpsertEntry
  <2> DEFINE r == [sync[s] EXCEPT !.page = @ \ {e}, !.seen = @ \cup {e[1]}]
             w == sync[s]
  <2>2. To(r) /\ w.pc = "walking" /\ e \in w.page
    BY <1>1, <1>11, <2>1 DEF SyncRun, UpsertEntry
  <2>3. /\ r.page = w.page \ {e} /\ r.seen = w.seen \cup {e[1]} /\ r.listed = w.listed
        /\ r.queue = w.queue /\ r.current = w.current /\ r.visited = w.visited
        /\ r.folder = w.folder /\ r.steady = w.steady /\ r.absent = w.absent
    BY <1>1 DEF SyncRun
  <2> HIDE DEF r, w
  <2>4. ASSUME WalkTracks(w, remote) PROVE WalkTracks(r, remote)
    <3>1. Noted(r) = Noted(w)
      BY <2>2, <2>3 DEF Noted
    <3>2. \A i : HasRead(r, remote, i) <=> HasRead(w, remote, i)
      BY <2>3 DEF HasRead
    <3> QED
      BY <2>3, <2>4, <3>1, <3>2 DEF WalkTracks
  <2> QED
    BY <1>4, <2>2, <2>3, <2>4 DEF w
<1>12. CASE Sweep(s)
  <2>1. To([sync[s] EXCEPT !.pc = "swept"]) /\ [sync[s] EXCEPT !.pc = "swept"].pc # "walking"
    BY <1>1, <1>12 DEF Sweep, SyncRun
  <2> QED
    BY <1>3, <2>1
<1>13. CASE RevokeSync(s)
  <2>1. To([sync[s] EXCEPT !.pc = "revoking"]) /\ [sync[s] EXCEPT !.pc = "revoking"].pc # "walking"
    BY <1>1, <1>13 DEF RevokeSync, SyncRun
  <2> QED
    BY <1>3, <2>1
<1>14. CASE CompleteSync(s) \/ FailSync(s) \/ MarkRevoked(s) \/ LoseSync(s)
  <2>1. To([NoSync EXCEPT !.pc = "done"]) \/ To([NoSync EXCEPT !.pc = "lost"])
    BY <1>14 DEF CompleteSync, FailSync, MarkRevoked, LoseSync, EndSync
  <2> QED
    BY <1>5, <2>1
<1> QED
  BY <1>6, <1>7, <1>8, <1>9, <1>10, <1>11, <1>12, <1>13, <1>14 DEF SyncStep

LEMMA SweepStepFits == SweepInv /\ [CatalogNext]_catalogVars => SweepInv'
<1> SUFFICES ASSUME SweepInv, [CatalogNext]_catalogVars PROVE SweepInv'
  OBVIOUS
<1>1. CatalogInv'
  BY CatalogStepFits DEF SweepInv
<1>2. ASSUME NEW s \in Syncs, RequestSync(s) \/ SyncStep(s) \/ FailSync(s) \/ LoseSync(s)
      PROVE SweepInv'
  <2>1. PICK r : sync' = [sync EXCEPT ![s] = r] /\ SyncTracks(r, remote)
    BY <1>2, SweepOn
  <2>2. UNCHANGED remote
    BY <1>2 DEF RequestSync, SyncStep, FailSync, LoseSync, ClaimSync, OpenFolder, ListPage,
           UpsertEntry, Sweep, CompleteSync, RestartWalk, RevokeSync, MarkRevoked
  <2>3. \A t \in Syncs : SyncTracks(sync'[t], remote)
    BY <2>1 DEF SweepInv, CatalogInv
  <2> QED
    BY <1>1, <2>2, <2>3 DEF SweepInv
<1> QED
  BY <1>1, <1>2, SweepAround DEF CatalogNext

LEMMA SweepInitFits == CatalogInit => SweepInv
<1> SUFFICES ASSUME CatalogInit PROVE SweepInv
  OBVIOUS
<1>1. \A s \in Syncs : sync[s].pc = "idle"
  BY DEF CatalogInit, NoSync
<1> QED
  BY <1>1, CatalogInitFits DEF SweepInv, SyncTracks

\* At the sweep the walk has been in every folder it should enter, so it has noted
\* what stayed, and it has noted nothing that was elsewhere.
LEMMA SweepsExactly ==
    ASSUME SweepInv, NEW s \in Syncs, Sweep(s)
    PROVE /\ \A i \in sync[s].steady : catalog[i] # "UNAVAILABLE" => catalog'[i] # "UNAVAILABLE"
          /\ \A i \in sync[s].absent : catalog'[i] \notin {"CONNECTED", "STALE"}
<1> DEFINE w == sync[s]
<1>1. /\ w.pc = "walking" /\ w.current = Nowhere /\ w.queue = {} /\ w.page = {}
      /\ w.visited \subseteq Folders /\ w.steady \subseteq Objects /\ w.absent \subseteq Objects
      /\ Nowhere \notin Folders /\ SyncTracks(w, remote)
  BY CatalogConstants DEF Sweep, SweepInv, CatalogInv, SyncRun
<1>2. \A i \in Objects : catalog'[i] = IF i \in w.seen \/ catalog[i] \in {"none", "TRASHED"}
                                       THEN catalog[i] ELSE "UNAVAILABLE"
  BY DEF Sweep, SweptCatalog
<1> HIDE DEF w
<1>3. Noted(w) = w.seen
  BY <1>1 DEF Noted
<1>4. ASSUME w.steady \cup w.absent # {}
      PROVE (\A i \in w.steady : i \in w.seen) /\ (\A i \in w.absent : i \notin w.seen)
  <2>1. WalkTracks(w, remote)
    BY <1>1, <1>4 DEF SyncTracks
  <2>2. \A i \in Objects : remote[i].parent \in w.visited => HasRead(w, remote, i)
    BY <1>1 DEF HasRead
  <2>3. FoldersFrom(remote, w.folder) \subseteq w.visited
    <3>1. w.folder \in w.visited
      BY <1>1, <2>1 DEF WalkTracks
    <3>2. \A d \in SubFolders : remote[d].parent \in w.visited /\ ~remote[d].trashed => d \in w.visited
      BY <1>1, <2>1, <2>2 DEF WalkTracks, Objects
    <3> QED
      BY <3>1, <3>2, FoldersLeast
  <2> QED
    BY <1>1, <1>3, <2>1, <2>2, <2>3 DEF WalkTracks
<1> QED
  BY <1>1, <1>2, <1>4 DEF w

LEMMA SweepSteps ==
    SweepInv /\ [CatalogNext]_catalogVars =>
      [\A s \in Syncs : Sweep(s) =>
         /\ \A i \in sync[s].steady : catalog[i] # "UNAVAILABLE" => catalog'[i] # "UNAVAILABLE"
         /\ \A i \in sync[s].absent : catalog'[i] \notin {"CONNECTED", "STALE"}]_catalogVars
BY SweepsExactly

\* What a sync sweeps is what Drive no longer returns, for every tree of folders,
\* page size and number of syncs, and whatever moves, fails or is refused meanwhile.
THEOREM SweepsAreExact == CatalogSpec => SweepIsExact
BY SweepSteps, SweepInitFits, SweepStepFits, PTL DEF CatalogSpec, SweepIsExact

-----------------------------------------------------------------------------
(* The catalog: the claim.                                                 *)

Walking == {"walking", "swept"}
Walkers == {s \in Syncs : sync[s].pc \in Walking}

\* A disconnection frees the claim of a sync that goes on; every other way to
\* free it ends the sync that held it.
LockInv ==
    /\ CatalogInv /\ IsFiniteSet(Walkers)
    /\ connection.status = "SYNCING" => \E s \in Syncs : sync[s].pc \in Walking \cup {"lost"}
    /\ Cardinality(Walkers) <=
         connection.severed + (IF connection.status = "SYNCING" THEN 1 ELSE 0)

\* The claims that are taken, in numbers.
Claims == connection.severed + (IF connection.status = "SYNCING" THEN 1 ELSE 0)

LEMMA WalkersCounted ==
    ASSUME LockInv PROVE Cardinality(Walkers) \in Nat /\ connection.severed \in Nat
BY FS_CardinalityType DEF LockInv, CatalogInv, Integration

\* Nobody starts or stops to walk.
LEMMA LockStays ==
    ASSUME LockInv, CatalogInv',
           \A s \in Syncs : sync'[s].pc \in Walking <=> sync[s].pc \in Walking,
           \A s \in Syncs : sync[s].pc = "lost" => sync'[s].pc = "lost",
           \/ connection'.status = connection.status /\ connection'.severed = connection.severed
           \/ connection'.status = "FAILED" /\ connection'.severed = connection.severed + 1
    PROVE LockInv'
<1>1. Walkers' = Walkers
  BY DEF Walkers
<1>2. connection'.status = "SYNCING" =>
        \E s \in Syncs : sync'[s].pc \in Walking \cup {"lost"}
  BY DEF LockInv
<1>3. Cardinality(Walkers) <= Claims'
  BY WalkersCounted DEF LockInv, Claims
<1> QED
  BY <1>1, <1>2, <1>3 DEF LockInv, Claims

\* One stops, and the claim is not held any more or the sync is lost.
LEMMA LockFreed ==
    ASSUME LockInv, CatalogInv', NEW s \in Syncs,
           \A t \in Syncs \ {s} : sync'[t] = sync[t],
           sync'[s].pc \notin Walking,
           connection'.severed = connection.severed,
           \/ connection'.status # "SYNCING" /\ s \in Walkers
           \/ connection'.status = connection.status /\ sync'[s].pc = "lost"
    PROVE LockInv'
<1>1. Walkers' = Walkers \ {s}
  BY DEF Walkers
<1>2. /\ IsFiniteSet(Walkers \ {s})
      /\ Cardinality(Walkers \ {s}) = Cardinality(Walkers) - (IF s \in Walkers THEN 1 ELSE 0)
  BY FS_RemoveElement, WalkersCounted DEF LockInv
<1>3. connection'.status = "SYNCING" =>
        \E t \in Syncs : sync'[t].pc \in Walking \cup {"lost"}
  BY DEF LockInv
<1>4. Cardinality(Walkers) - (IF s \in Walkers THEN 1 ELSE 0) <= Claims'
  BY WalkersCounted DEF LockInv, Claims
<1> QED
  BY <1>1, <1>2, <1>3, <1>4 DEF LockInv, Claims

\* One starts.
LEMMA LockTaken ==
    ASSUME LockInv, CatalogInv', NEW s \in Syncs, ClaimSync(s), MayClaim PROVE LockInv'
<1>1. /\ connection.status # "SYNCING" /\ connection'.status = "SYNCING"
      /\ connection'.severed = connection.severed
  BY DEF ClaimSync, MayClaim, LockInv, CatalogInv, Integration
<1>2. sync' = [sync EXCEPT ![s] = Walk(s, FALSE)] /\ sync \in [Syncs -> SyncRun]
      /\ sync[s].pc = "requested"
  BY DEF ClaimSync, LockInv, CatalogInv
<1>3. Walk(s, FALSE).pc = "walking"
  BY <1>2, WalkFits DEF LockInv
<1>4. sync'[s].pc = "walking" /\ \A t \in Syncs \ {s} : sync'[t] = sync[t]
  BY <1>2, <1>3
<1>5. Walkers' = Walkers \cup {s} /\ s \notin Walkers
  BY <1>2, <1>4 DEF Walkers, Walking
<1>6. IsFiniteSet(Walkers \cup {s}) /\ Cardinality(Walkers \cup {s}) = Cardinality(Walkers) + 1
  BY <1>5, FS_AddElement, WalkersCounted DEF LockInv
<1>7. Cardinality(Walkers) + 1 <= Claims'
  BY <1>1, WalkersCounted DEF LockInv, Claims
<1> QED
  BY <1>4, <1>5, <1>6, <1>7 DEF LockInv, Claims, Walking

LEMMA LockInitFits == CatalogInit => LockInv
<1> SUFFICES ASSUME CatalogInit PROVE LockInv
  OBVIOUS
<1>1. Walkers = {}
  BY DEF CatalogInit, Walkers, NoSync, Walking
<1>2. connection.severed = 0 /\ connection.status # "SYNCING"
  BY DEF CatalogInit
<1> QED
  BY <1>1, <1>2, FS_EmptySet, CatalogInitFits DEF LockInv

LEMMA LockStepFits == LockInv /\ [CatalogNext]_catalogVars => LockInv'
<1> SUFFICES ASSUME LockInv, [CatalogNext]_catalogVars PROVE LockInv'
  OBVIOUS
<1>1. CatalogInv /\ CatalogInv'
  BY CatalogStepFits DEF LockInv
<1>2. ASSUME NEW s \in Syncs, RequestSync(s) \/ SyncStep(s) \/ FailSync(s) \/ LoseSync(s)
      PROVE LockInv'
  <2>1. \A t \in Syncs \ {s} : sync'[t] = sync[t]
    BY <1>1, <1>2, SyncFitsOn DEF CatalogInv
  <2>2. sync[s] \in SyncRun /\ sync \in [Syncs -> SyncRun]
        /\ SyncFits(sync'[s]) /\ connection \in Integration
    BY <1>1 DEF CatalogInv
  <2>3. CASE ClaimSync(s) /\ MayClaim
    BY <1>1, <2>3, LockTaken
  <2>4. CASE \/ CompleteSync(s) \/ FailSync(s) \/ RevokeSync(s)
    <3>1. connection'.status # "SYNCING" /\ connection'.severed = connection.severed
      BY <2>2, <2>4 DEF CompleteSync, FailSync, RevokeSync, EndSync, Integration
    <3>2. sync[s].pc \in Walking /\ sync'[s].pc \notin Walking
      BY <2>2, <2>4 DEF CompleteSync, FailSync, RevokeSync, EndSync, SyncRun, NoSync, Walking
    <3> QED
      BY <1>1, <2>1, <3>1, <3>2, LockFreed DEF Walkers
  <2>5. CASE LoseSync(s)
    <3>1. UNCHANGED connection /\ sync'[s].pc = "lost"
      BY <2>2, <2>5 DEF LoseSync, NoSync
    <3> QED
      BY <1>1, <2>1, <3>1, LockFreed DEF Walking
  <2>6. CASE \/ RequestSync(s) \/ (ClaimSync(s) /\ ~MayClaim) \/ OpenFolder(s) \/ ListPage(s)
             \/ UpsertEntry(s) \/ Sweep(s) \/ RestartWalk(s) \/ MarkRevoked(s)
    <3>1. UNCHANGED connection
      BY <2>6 DEF RequestSync, ClaimSync, OpenFolder, ListPage, UpsertEntry, Sweep, RestartWalk,
                  MarkRevoked
    <3>2. (sync'[s].pc \in Walking <=> sync[s].pc \in Walking) /\ sync[s].pc # "lost"
      <4>1. CASE RequestSync(s) \/ (ClaimSync(s) /\ ~MayClaim) \/ MarkRevoked(s)
        <5>1. sync[s].pc \in {"idle", "requested", "revoking"}
              /\ sync'[s].pc \in {"requested", "done"}
          <6>1. CASE RequestSync(s)
            BY <2>2, <6>1 DEF RequestSync, NoSync
          <6>2. CASE ClaimSync(s) /\ ~MayClaim
            BY <2>2, <6>2 DEF ClaimSync, NoSync
          <6>3. CASE MarkRevoked(s)
            BY <2>2, <6>3 DEF MarkRevoked, NoSync
          <6> QED
            BY <4>1, <6>1, <6>2, <6>3
        <5> QED
          BY <5>1 DEF Walking
      <4>2. CASE OpenFolder(s) \/ ListPage(s) \/ UpsertEntry(s) \/ Sweep(s)
        <5>1. sync[s].pc = "walking"
          BY <4>2 DEF OpenFolder, ListPage, UpsertEntry, Sweep
        <5>2. sync'[s].pc \in Walking
          <6>1. CASE OpenFolder(s)
            BY <2>2, <6>1 DEF OpenFolder, SyncRun, Walking
          <6>2. CASE ListPage(s)
            BY <2>2, <6>2 DEF ListPage, SyncRun, Walking
          <6>3. CASE UpsertEntry(s)
            BY <2>2, <6>3 DEF UpsertEntry, SyncRun, Walking
          <6>4. CASE Sweep(s)
            BY <2>2, <6>4 DEF Sweep, SyncRun, Walking
          <6> QED
            BY <4>2, <6>1, <6>2, <6>3, <6>4
        <5> QED
          BY <5>1, <5>2 DEF Walking
      <4>3. CASE RestartWalk(s)
        <5>1. sync[s].pc = "walking" /\ sync' = [sync EXCEPT ![s] = Walk(s, TRUE)]
          BY <4>3 DEF RestartWalk
        <5>2. Walk(s, TRUE).pc = "walking"
          BY <1>1, <5>1, WalkFits
        <5> QED
          BY <2>2, <5>1, <5>2 DEF Walking
      <4> QED
        BY <2>6, <4>1, <4>2, <4>3
    <3> QED
      BY <1>1, <2>1, <3>1, <3>2, LockStays
  <2> QED
    BY <1>2, <2>3, <2>4, <2>5, <2>6 DEF SyncStep
<1>3. CASE \/ \E i \in Objects : RemoteChange(i)
           \/ \E i \in DriveFiles : UploadToStorage(i) \/ ReadForImport(i) \/ RegisterFile(i)
           \/ RevokeGrant \/ CompleteAuthorization \/ Disconnect \/ MarkStale
           \/ \E f \in Targets : ConfigureStorageFolder(f)
           \/ UNCHANGED catalogVars
  BY <1>1, <1>3, AroundFits, LockStays
<1> QED
  BY <1>2, <1>3 DEF CatalogNext

LEMMA LocksAreSound == LockInv => LockIsSound
<1> SUFFICES ASSUME LockInv PROVE LockIsSound
  OBVIOUS
<1>1. Cardinality(Walkers) <= 1 + connection.severed
  BY WalkersCounted DEF LockInv
<1>2. Walkers = {s \in Syncs : sync[s].pc \in {"walking", "swept"}}
  BY DEF Walkers, Walking
<1>3. connection.status = "SYNCING" =>
        \E s \in Syncs : sync[s].pc \in {"walking", "swept", "lost"}
  BY DEF LockInv, Walking
<1> QED
  BY <1>1, <1>2, <1>3 DEF LockIsSound

\* A connection says SYNCING only while a sync runs or after one was lost, and no
\* more syncs run at once than one and one more for each disconnection: for any
\* number of requests, folders and files, and whatever Drive and Google answer.
THEOREM SyncLockSound == CatalogSpec => []LockIsSound
BY LocksAreSound, LockInitFits, LockStepFits, PTL DEF CatalogSpec

-----------------------------------------------------------------------------
(* The registration: the inductive invariant.                              *)

StoredBytes == {BytesOf[r] : r \in CreationRequests} \cup {NoBytes}
OperationRow == [status : Kinds, name : Names \cup {NoName}, bytes : StoredBytes, note : Notes]
DriveState == {"none", "present", "unknown", "deleted"}
Compensating == {"compensate", "removed", "orphaned"}
Active == {"put", "record", "register", "response", "fail"} \cup Compensating
RequestState == [pc : {"idle", "begin", "done", "crashed"} \cup Active,
                 answer : {"none", "ok", "refused", "failed"}]

\* A key has a node when its operation succeeded, and a name from its claim on.
KeyFits(o, n) ==
    /\ o \in OperationRow /\ n \in Names \cup {NoName}
    /\ n # NoName <=> o.status = "SUCCEEDED"
    /\ o.status # "none" => o.name # NoName

\* Request r, its object, and the row and node of its key.
RequestFits(r, q, obj, o, n) ==
    /\ q \in RequestState /\ obj \in DriveState
    /\ q.pc \in {"idle", "begin", "put"} => obj = "none"
    /\ q.pc \in {"put", "record", "register", "fail"} => o.status = "IN_PROGRESS"
    /\ q.pc = "response" => o.status = "SUCCEEDED" /\ ~IsUpload(r)
    /\ q.pc \in Compensating => o.status \in {"IN_PROGRESS", "SUCCEEDED"}
    /\ q.pc \in {"record", "register", "response", "compensate", "orphaned"} => obj = "present"
    /\ q.pc = "removed" => obj = "deleted"
    /\ q.pc = "fail" => obj \in {"none", "unknown"}
    /\ q.pc = "register" /\ IsUpload(r) => o.bytes = BytesOf[r]
    /\ obj = "present" /\ n = NoName => q.pc # "done" \/ o.note = "orphaned"
    /\ q.answer = "ok" => n # NoName /\ (IsUpload(r) => o.bytes = BytesOf[r])
    /\ o.status = "FAILED" /\ o.note = "removed" => obj \in {"none", "deleted"}

\* The request that claimed the key: it is under way or has made an object.
Owns(q, obj) == q.pc \in Active \/ obj # "none"
Owner(r) == Owns(request[r], object[r])

RegistrationInv ==
    /\ operation \in [Keys -> OperationRow] /\ node \in [Keys -> Names \cup {NoName}]
    /\ request \in [CreationRequests -> RequestState]
    /\ object \in [CreationRequests -> DriveState]
    /\ otherNames \subseteq Names /\ folderThere \in BOOLEAN
    /\ faults \in 0..MaxFaults /\ unacked \subseteq Keys
    /\ \A k \in Keys : KeyFits(operation[k], node[k])
    /\ \A r \in CreationRequests :
         /\ RequestFits(r, request[r], object[r], Row(r), node[KeyOf[r]])
         /\ Owner(r) => Row(r).status # "none"
    /\ \A p, r \in CreationRequests :
         KeyOf[p] = KeyOf[r] /\ Owner(p) /\ Owner(r) => p = r

LEMMA Smallest ==
    ASSUME NEW T \in SUBSET Nat, T # {} PROVE \E i \in T : \A j \in T : i <= j
<1> DEFINE R == {s \in Nat \X Nat : s[1] < s[2]}
<1>1. IsWellFoundedOn(R, Nat)
  BY NatLessThanWellFounded DEF OpToRel
<1>2. \A i, j \in Nat : <<j, i>> \in R <=> j < i
  OBVIOUS
<1> HIDE DEF R
<1>3. T \subseteq Nat
  OBVIOUS
<1>4. \E i \in T : \A j \in T : ~ (<<j, i>> \in R)
  BY <1>1, <1>3, WFMin, Zenon
<1>5. PICK i \in T : \A j \in T : ~ (<<j, i>> \in R)
  BY <1>4
<1>6. ASSUME NEW j \in T PROVE i <= j
  <2>1. i \in Nat /\ j \in Nat
    BY <1>3
  <2>2. ~(j < i)
    BY <1>2, <1>5, <2>1
  <2> QED
    BY <2>1, <2>2
<1> QED
  BY <1>6

\* The first free name is one of the candidates, or none is free.
LEMMA NextNameFits ==
    ASSUME NEW k \in Keys PROVE NextAvailableName(FileName[k]) \in Names \cup {NoName}
<1> DEFINE name == FileName[k]
           free == {i \in DOMAIN Candidates[name] : Candidates[name][i] \notin Taken}
<1>1. name \in DOMAIN Candidates /\ free \subseteq Nat
  BY RegistrationConstants
<1>2. CASE free = {}
  BY <1>2 DEF NextAvailableName
<1>3. CASE free # {}
  <2> DEFINE i == CHOOSE i \in free : \A j \in free : i <= j
  <2>1. i \in free
    BY <1>1, <1>3, Smallest
  <2>2. Candidates[name][i] \in Names
    <3> HIDE DEF i, name
    <3> QED
      BY <1>1, <2>1 DEF Names
  <2>3. NextAvailableName(name) = Candidates[name][i]
    BY <1>3 DEF NextAvailableName
  <2> QED
    BY <2>2, <2>3
<1> QED
  BY <1>2, <1>3

\* A request takes a step.  It writes the row and node of its key only if the key
\* is free or it owns the key and the operation is in progress.
LEMMA RequestMoves ==
    ASSUME RegistrationInv, NEW p \in CreationRequests, NEW q, NEW obj, NEW o, NEW n,
           request' = [request EXCEPT ![p] = q],
           object' = [object EXCEPT ![p] = obj],
           operation' = [operation EXCEPT ![KeyOf[p]] = o],
           node' = [node EXCEPT ![KeyOf[p]] = n],
           KeyFits(o, n), RequestFits(p, q, obj, o, n),
           Owns(q, obj) => o.status # "none" /\ (Owner(p) \/ Row(p).status = "none"),
           \/ o = Row(p) /\ n = node[KeyOf[p]]
           \/ Row(p).status = "none"
           \/ Row(p).status = "IN_PROGRESS" /\ Owner(p),
           o.status = "none" => Row(p).status = "none",
           otherNames' \subseteq Names, folderThere' \in BOOLEAN,
           faults' \in 0..MaxFaults, unacked' \subseteq Keys
    PROVE RegistrationInv'
<1> DEFINE k == KeyOf[p]
<1>1. k \in Keys /\ \A r \in CreationRequests : KeyOf[r] \in Keys
  BY RegistrationConstants
<1>2. /\ operation' \in [Keys -> OperationRow] /\ node' \in [Keys -> Names \cup {NoName}]
      /\ request' \in [CreationRequests -> RequestState]
      /\ object' \in [CreationRequests -> DriveState]
  BY DEF RegistrationInv, KeyFits, RequestFits
<1>3. /\ operation'[k] = o /\ node'[k] = n /\ request'[p] = q /\ object'[p] = obj
      /\ \A j \in Keys \ {k} : operation'[j] = operation[j] /\ node'[j] = node[j]
      /\ \A r \in CreationRequests \ {p} : request'[r] = request[r] /\ object'[r] = object[r]
  BY <1>1 DEF RegistrationInv
<1> HIDE DEF k
<1>4. \A j \in Keys : KeyFits(operation'[j], node'[j])
  BY <1>3 DEF RegistrationInv
<1>5. ASSUME NEW r \in CreationRequests
      PROVE /\ RequestFits(r, request'[r], object'[r], operation'[KeyOf[r]], node'[KeyOf[r]])
            /\ Owns(request'[r], object'[r]) => operation'[KeyOf[r]].status # "none"
  <2>1. CASE r = p
    BY <1>3, <2>1 DEF k
  <2>2. CASE r # p /\ KeyOf[r] # k
    BY <1>1, <1>3, <2>2 DEF RegistrationInv, Row, Owner
  <2>3. CASE r # p /\ KeyOf[r] = k
    <3>1. RequestFits(r, request[r], object[r], operation[k], node[k])
          /\ (Owner(r) => operation[k].status # "none") /\ KeyFits(operation[k], node[k])
      BY <1>1, <2>3 DEF RegistrationInv, Row
    <3>2. CASE o = operation[k] /\ n = node[k]
      BY <1>3, <2>3, <3>1, <3>2 DEF Owner
    <3>3. CASE ~(o = operation[k] /\ n = node[k])
      <4>1. ~Owner(r) /\ operation[k].status \in {"none", "IN_PROGRESS"}
        BY <2>3, <3>1, <3>3 DEF RegistrationInv, Row, k
      <4>2. request[r].answer # "ok"
        BY <3>1, <4>1 DEF RequestFits, KeyFits
      <4>3. request[r].pc \notin Active /\ object[r] = "none"
        BY <4>1 DEF Owner, Owns
      <4>4. RequestFits(r, request[r], object[r], o, n)
        BY <3>1, <4>2, <4>3 DEF RequestFits, Active, Compensating
      <4> QED
        BY <1>3, <2>3, <4>1, <4>4 DEF Owner
    <3> QED
      BY <3>2, <3>3
  <2> QED
    BY <2>1, <2>2, <2>3
<1>6. ASSUME NEW r \in CreationRequests, NEW s \in CreationRequests, KeyOf[r] = KeyOf[s],
             Owns(request'[r], object'[r]), Owns(request'[s], object'[s]), r # s
      PROVE FALSE
  <2>1. CASE r # p /\ s # p
    BY <1>3, <1>6, <2>1 DEF RegistrationInv, Owner
  <2>2. ASSUME NEW t \in CreationRequests, t # p, KeyOf[t] = KeyOf[p], Owns(q, obj),
               Owns(request'[t], object'[t])
        PROVE FALSE
    <3>1. Owner(t) /\ Row(t).status # "none" /\ Row(t) = Row(p)
      BY <1>3, <2>2 DEF RegistrationInv, Owner, Row
    <3> QED
      BY <2>2, <3>1 DEF RegistrationInv
  <2> QED
    BY <1>3, <1>6, <2>1, <2>2
<1> QED
  BY <1>2, <1>4, <1>5, <1>6 DEF RegistrationInv, Row, Owner

LEMMA RegistrationInitFits == RegistrationInit => RegistrationInv
<1> SUFFICES ASSUME RegistrationInit PROVE RegistrationInv
  OBVIOUS
<1>1. KeyFits(NoOperation, NoName)
  BY RegistrationConstants DEF KeyFits, NoOperation, OperationRow, Kinds, Notes, StoredBytes
<1>2. \A r : RequestFits(r, NoRequest, "none", NoOperation, NoName)
  BY DEF RequestFits, NoRequest, NoOperation, RequestState, Active, Compensating, DriveState
<1>3. ~Owns(NoRequest, "none")
  BY DEF Owns, NoRequest, Active, Compensating
<1>4. /\ operation \in [Keys -> OperationRow] /\ node \in [Keys -> Names \cup {NoName}]
      /\ \A k \in Keys : operation[k] = NoOperation /\ node[k] = NoName
  BY <1>1 DEF RegistrationInit, KeyFits
<1>5. /\ request \in [CreationRequests -> RequestState]
      /\ object \in [CreationRequests -> DriveState]
      /\ \A r \in CreationRequests : request[r] = NoRequest /\ object[r] = "none"
  BY DEF RegistrationInit, NoRequest, RequestState, DriveState
<1>6. \A r \in CreationRequests : KeyOf[r] \in Keys
  BY RegistrationConstants
<1>7. otherNames \subseteq Names /\ folderThere \in BOOLEAN /\ faults \in 0..MaxFaults
      /\ unacked \subseteq Keys
  BY RegistrationConstants DEF RegistrationInit
<1> QED
  BY <1>1, <1>2, <1>3, <1>4, <1>5, <1>6, <1>7 DEF RegistrationInv, Row, Owner

\* What is known of a request and of its key.
LEMMA RequestKnown ==
    ASSUME RegistrationInv, NEW p \in CreationRequests
    PROVE /\ KeyOf[p] \in Keys /\ request[p] \in RequestState /\ object[p] \in DriveState
          /\ Row(p) \in OperationRow /\ node[KeyOf[p]] \in Names \cup {NoName}
          /\ KeyFits(Row(p), node[KeyOf[p]])
          /\ RequestFits(p, request[p], object[p], Row(p), node[KeyOf[p]])
          /\ Owner(p) => Row(p).status # "none"
BY RegistrationConstants DEF RegistrationInv, Row

\* A request that touches neither its row nor its node.
LEMMA RequestGoes ==
    ASSUME RegistrationInv, NEW p \in CreationRequests, NEW q, NEW obj,
           request' = [request EXCEPT ![p] = q],
           object' = [object EXCEPT ![p] = obj],
           UNCHANGED <<operation, node>>,
           RequestFits(p, q, obj, Row(p), node[KeyOf[p]]),
           Owns(q, obj) => Owner(p),
           otherNames' \subseteq Names, folderThere' \in BOOLEAN,
           faults' \in 0..MaxFaults, unacked' \subseteq Keys
    PROVE RegistrationInv'
<1>1. /\ operation' = [operation EXCEPT ![KeyOf[p]] = Row(p)]
      /\ node' = [node EXCEPT ![KeyOf[p]] = node[KeyOf[p]]]
  BY RequestKnown DEF RegistrationInv, Row
<1> QED
  BY <1>1, RequestKnown, RequestMoves

LEMMA FaultFits == ASSUME RegistrationInv, Fault \/ UNCHANGED faults PROVE faults' \in 0..MaxFaults
BY RegistrationConstants DEF RegistrationInv, Fault

\* An answer of a request that owns nothing: a replay, or a refusal.
LEMMA ReplayFits ==
    ASSUME RegistrationInv, NEW p \in CreationRequests, request[p].pc \in {"idle", "begin"},
           NEW answer \in {"refused", ReplayAnswer(p)}, Answer(p, answer),
           UNCHANGED <<operation, object, node, otherNames, folderThere, faults, unacked>>
    PROVE RegistrationInv'
<1> DEFINE q == [pc |-> "done", answer |-> answer]
<1>1. request' = [request EXCEPT ![p] = q] /\ object' = [object EXCEPT ![p] = object[p]]
  BY DEF Answer, RegistrationInv
<1>2. answer \in {"ok", "refused"}
  BY DEF ReplayAnswer
<1>3. answer = "ok" => /\ node[KeyOf[p]] # NoName
                       /\ IsUpload(p) => Row(p).bytes = BytesOf[p]
  BY DEF ReplayAnswer, SameBytes
<1>4. object[p] = "none" /\ q \in RequestState
  BY <1>2, RequestKnown DEF RequestFits, RequestState
<1>5. RequestFits(p, q, object[p], Row(p), node[KeyOf[p]])
  BY <1>3, <1>4, RequestKnown DEF RequestFits, Compensating
<1>6. ~Owns(q, object[p])
  BY <1>4 DEF Owns, Active, Compensating
<1> HIDE DEF q
<1> QED
  BY <1>1, <1>5, <1>6, RequestGoes DEF RegistrationInv

LEMMA ClaimFits ==
    ASSUME RegistrationInv, NEW p \in CreationRequests, LookUp(p) \/ BeginOperation(p)
    PROVE RegistrationInv'
<1>1. request[p].pc \in {"idle", "begin"}
  BY DEF LookUp, BeginOperation
<1>2. UNCHANGED <<object, node, otherNames, folderThere, faults, unacked>>
  BY DEF LookUp, BeginOperation
<1>3. ASSUME NEW answer \in {"refused", ReplayAnswer(p)}, Answer(p, answer), UNCHANGED operation
      PROVE RegistrationInv'
  BY <1>1, <1>2, <1>3, ReplayFits
<1>4. CASE Goto(p, "begin") /\ UNCHANGED operation
  <2> DEFINE q == [request[p] EXCEPT !.pc = "begin"]
  <2>1. request' = [request EXCEPT ![p] = q] /\ object' = [object EXCEPT ![p] = object[p]]
    BY <1>2, <1>4 DEF Goto, RegistrationInv
  <2>2. q \in RequestState /\ q.pc = "begin" /\ q.answer = request[p].answer /\ object[p] = "none"
    BY <1>1, RequestKnown DEF RequestState, RequestFits
  <2> HIDE DEF q
  <2>3. RequestFits(p, q, object[p], Row(p), node[KeyOf[p]]) /\ ~Owns(q, object[p])
    BY <2>2, RequestKnown DEF RequestFits, Owns, Active, Compensating
  <2> QED
    BY <1>2, <1>4, <2>1, <2>3, RequestGoes DEF RegistrationInv
<1>5. ASSUME BeginOperation(p), Claimable(p), NEW name \in Names \cup {NoName}, name # NoName,
             operation' = [operation EXCEPT ![KeyOf[p]] =
                             [NoOperation EXCEPT !.status = "IN_PROGRESS", !.name = name]],
             Goto(p, "put")
      PROVE RegistrationInv'
  <2> DEFINE q == [request[p] EXCEPT !.pc = "put"]
             o == [NoOperation EXCEPT !.status = "IN_PROGRESS", !.name = name]
  <2>1. /\ request' = [request EXCEPT ![p] = q] /\ object' = [object EXCEPT ![p] = object[p]]
        /\ operation' = [operation EXCEPT ![KeyOf[p]] = o]
        /\ node' = [node EXCEPT ![KeyOf[p]] = node[KeyOf[p]]]
    BY <1>2, <1>5 DEF Goto, RegistrationInv
  <2>2. Row(p).status = "none" /\ node[KeyOf[p]] = NoName
    BY <1>5, RequestKnown DEF Claimable, KeyFits
  <2>3. q \in RequestState /\ q.pc = "put" /\ q.answer = request[p].answer /\ object[p] = "none"
        /\ request[p].answer # "ok"
    BY <1>1, <2>2, RequestKnown DEF RequestState, RequestFits, Active
  <2>4. /\ o.status = "IN_PROGRESS" /\ o.name = name /\ o.note = "none" /\ o \in OperationRow
    BY <1>5 DEF NoOperation, OperationRow, Kinds, StoredBytes, Notes
  <2> HIDE DEF q, o
  <2>5. KeyFits(o, node[KeyOf[p]])
    BY <1>5, <2>2, <2>4 DEF KeyFits
  <2>6. RequestFits(p, q, object[p], o, node[KeyOf[p]])
    BY <2>2, <2>3, <2>4 DEF RequestFits, Compensating, DriveState
  <2>7. /\ otherNames' \subseteq Names /\ folderThere' \in BOOLEAN
        /\ faults' \in 0..MaxFaults /\ unacked' \subseteq Keys
    BY <1>2 DEF RegistrationInv
  <2> QED
    BY <2>1, <2>2, <2>4, <2>5, <2>6, <2>7, RequestMoves
<1>6. CASE LookUp(p)
  BY <1>3, <1>4, <1>6 DEF LookUp
<1>7. CASE BeginOperation(p)
  <2>1. CASE ~Claimable(p)
    BY <1>3, <1>7, <2>1 DEF BeginOperation
  <2>2. CASE Claimable(p)
    <3> DEFINE name == NextAvailableName(FileName[KeyOf[p]])
    <3>1. name \in Names \cup {NoName}
      BY RequestKnown, NextNameFits
    <3>2. \/ Answer(p, "refused") /\ UNCHANGED operation
          \/ /\ name # NoName /\ Goto(p, "put")
             /\ operation' = [operation EXCEPT ![KeyOf[p]] =
                                [NoOperation EXCEPT !.status = "IN_PROGRESS", !.name = name]]
      BY <1>7, <2>2 DEF BeginOperation
    <3> HIDE DEF name
    <3> QED
      BY <1>3, <1>5, <1>7, <2>2, <3>1, <3>2
  <2> QED
    BY <2>1, <2>2
<1> QED
  BY <1>6, <1>7

\* A request goes on with its own object and leaves its row as it is.
LEMMA GoesOnFits ==
    ASSUME RegistrationInv, NEW p \in CreationRequests,
           Put(p) \/ ReadResponse(p) \/ FailRegistration(p) \/ DeleteObject(p) \/ Crash(p)
             \/ \E created \in BOOLEAN : FailPut(p, created)
    PROVE RegistrationInv'
<1>1. UNCHANGED <<operation, node, otherNames, folderThere>>
      /\ faults' \in 0..MaxFaults /\ unacked' \subseteq Keys
  BY FaultFits, RequestKnown
  DEF Put, ReadResponse, FailRegistration, DeleteObject, Crash, FailPut, RegistrationInv
<1>2. otherNames' \subseteq Names /\ folderThere' \in BOOLEAN
  BY <1>1 DEF RegistrationInv
<1>3. ASSUME NEW obj \in DriveState, NEW q \in RequestState,
             q.pc \in Active \cup {"done", "crashed"},
             RequestFits(p, q, obj, Row(p), node[KeyOf[p]]), Owns(q, obj) => Owner(p),
             request' = [request EXCEPT ![p] = q], object' = [object EXCEPT ![p] = obj]
      PROVE RegistrationInv'
  BY <1>1, <1>2, <1>3, RequestGoes
<1>4. ASSUME NEW obj \in DriveState, NEW pc \in Active \cup {"crashed"}, Goto(p, pc),
             object' = [object EXCEPT ![p] = obj],
             RequestFits(p, [pc |-> pc, answer |-> request[p].answer], obj, Row(p),
                         node[KeyOf[p]]),
             Owns([pc |-> pc, answer |-> request[p].answer], obj) => Owner(p)
      PROVE RegistrationInv'
  <2> DEFINE q == [pc |-> pc, answer |-> request[p].answer]
  <2>1. request' = [request EXCEPT ![p] = q] /\ q \in RequestState /\ q.pc = pc
    <3>1. [request[p] EXCEPT !.pc = pc] = q
      BY RequestKnown DEF RequestState
    <3>2. request' = [request EXCEPT ![p] = [request[p] EXCEPT !.pc = pc]]
      BY <1>4 DEF Goto
    <3>3. q \in RequestState
      BY RequestKnown DEF RequestState
    <3> QED
      BY <3>1, <3>2, <3>3
  <2>2. RequestFits(p, q, obj, Row(p), node[KeyOf[p]]) /\ (Owns(q, obj) => Owner(p))
    BY <1>4
  <2> HIDE DEF q
  <2> QED
    BY <1>3, <1>4, <2>1, <2>2
<1>5. ASSUME NEW obj \in DriveState, NEW pc \in Active \cup {"crashed"}, Goto(p, pc),
             object' = [object EXCEPT ![p] = obj],
             request[p].pc \in Active \cup {"begin"},
             request[p].pc = "begin" => pc = "crashed" /\ obj = object[p],
             pc \in {"record", "register", "fail"} => Row(p).status = "IN_PROGRESS",
             pc # "response",
             pc \in Compensating => Row(p).status \in {"IN_PROGRESS", "SUCCEEDED"},
             pc \in {"record", "register", "compensate", "orphaned"} => obj = "present",
             pc = "removed" => obj = "deleted",
             pc = "fail" => obj \in {"none", "unknown"},
             pc = "register" => ~IsUpload(p),
             pc # "put",
             Row(p).status = "FAILED" => obj = "none"
      PROVE RegistrationInv'
  <2> DEFINE q == [pc |-> pc, answer |-> request[p].answer]
  <2>1. q \in RequestState /\ q.pc = pc /\ q.answer = request[p].answer
    BY RequestKnown DEF RequestState
  <2>2. Owns(q, obj) => Owner(p)
    BY <1>5, <2>1, RequestKnown DEF Owner, Owns, RequestFits, Active, Compensating
  <2> HIDE DEF q
  <2>3. RequestFits(p, q, obj, Row(p), node[KeyOf[p]])
    BY <1>5, <2>1, RequestKnown DEF RequestFits, Active, Compensating
  <2> USE DEF q
  <2> QED
    BY <1>4, <1>5, <2>2, <2>3
<1>6. /\ request[p].pc \in {"put", "record", "register", "fail"} => Row(p).status = "IN_PROGRESS"
      /\ request[p].pc \in {"response"} \cup Compensating =>
           Row(p).status \in {"IN_PROGRESS", "SUCCEEDED"}
      /\ request[p].pc = "response" => Row(p).status = "SUCCEEDED" /\ ~IsUpload(p)
      /\ request[p].pc \in {"begin", "put"} => object[p] = "none"
      /\ request[p].pc \in {"record", "register", "response", "compensate", "orphaned"} =>
           object[p] = "present"
      /\ object[p] \in DriveState /\ object = [object EXCEPT ![p] = object[p]]
  BY RequestKnown DEF RequestFits, RegistrationInv
<1>7. CASE Put(p)
  BY <1>5, <1>6, <1>7 DEF Put, DriveState, Active, Compensating
<1>8. CASE \E created \in BOOLEAN : FailPut(p, created)
  <2> PICK created \in BOOLEAN : FailPut(p, created)
    BY <1>8
  <2> DEFINE obj == IF created THEN "unknown" ELSE object[p]
  <2>1. object' = [object EXCEPT ![p] = obj] /\ request[p].pc = "put" /\ Goto(p, "fail")
        /\ obj \in {"none", "unknown"}
    BY <1>6 DEF FailPut
  <2> HIDE DEF obj
  <2> QED
    BY <1>5, <1>6, <2>1 DEF DriveState, Active, Compensating
<1>9. CASE ReadResponse(p)
  <2>1. CASE Goto(p, "compensate")
    BY <1>5, <1>6, <1>9, <2>1 DEF ReadResponse, Active, Compensating
  <2>2. CASE Answer(p, "ok")
    <3> DEFINE q == [pc |-> "done", answer |-> "ok"]
    <3>1. request' = [request EXCEPT ![p] = q] /\ object' = [object EXCEPT ![p] = object[p]]
      BY <1>6, <1>9, <2>2 DEF ReadResponse, Answer
    <3>2. q \in RequestState /\ q.pc = "done" /\ q.answer = "ok"
      BY DEF RequestState
    <3> HIDE DEF q
    <3>3. request[p].pc = "response" /\ node[KeyOf[p]] # NoName /\ Row(p).status = "SUCCEEDED"
          /\ ~IsUpload(p) /\ object[p] = "present"
      BY <1>6, <1>9, RequestKnown DEF ReadResponse, KeyFits
    <3>4. RequestFits(p, q, object[p], Row(p), node[KeyOf[p]])
      BY <3>2, <3>3, RequestKnown DEF RequestFits, Compensating
    <3>5. Owner(p)
      BY <3>3 DEF Owner, Owns, Active
    <3> QED
      BY <1>3, <1>6, <3>1, <3>2, <3>4, <3>5
  <2> QED
    BY <1>9, <2>1, <2>2 DEF ReadResponse
<1>10. CASE FailRegistration(p)
  BY <1>5, <1>6, <1>10 DEF FailRegistration, Active, Compensating
<1>11. CASE DeleteObject(p)
  <2>1. CASE object' = [object EXCEPT ![p] = "deleted"] /\ Goto(p, "removed")
    BY <1>5, <1>6, <1>11, <2>1 DEF DeleteObject, Active, Compensating, DriveState
  <2>2. CASE UNCHANGED object /\ Goto(p, "orphaned")
    BY <1>5, <1>6, <1>11, <2>2 DEF DeleteObject, Active, Compensating
  <2> QED
    BY <1>11, <2>1, <2>2 DEF DeleteObject
<1>12. CASE Crash(p)
  <2>1. request[p].pc \in Active \cup {"begin"}
    BY <1>12, RequestKnown DEF Crash, RequestState
  <2>2. Row(p).status = "FAILED" => object[p] = "none"
    BY <1>6, <2>1 DEF Active
  <2> QED
    BY <1>5, <1>6, <1>12, <2>1, <2>2 DEF Crash, Active, Compensating
<1> QED
  BY <1>7, <1>8, <1>9, <1>10, <1>11, <1>12

\* A request writes the row of the key it owns, and the node.
LEMMA OwnerWrites ==
    ASSUME RegistrationInv, NEW p \in CreationRequests, NEW q, NEW o, NEW n,
           Row(p).status = "IN_PROGRESS", Owner(p),
           request' = [request EXCEPT ![p] = q],
           operation' = [operation EXCEPT ![KeyOf[p]] = o],
           node' = [node EXCEPT ![KeyOf[p]] = n],
           KeyFits(o, n), RequestFits(p, q, object[p], o, n), o.status # "none",
           UNCHANGED <<object, otherNames, folderThere>>,
           faults' \in 0..MaxFaults, unacked' \subseteq Keys
    PROVE RegistrationInv'
<1>1. object' = [object EXCEPT ![p] = object[p]] /\ otherNames' \subseteq Names
      /\ folderThere' \in BOOLEAN
  BY DEF RegistrationInv
<1> QED
  BY <1>1, RequestMoves

LEMMA RecordFits ==
    ASSUME RegistrationInv, NEW p \in CreationRequests, RecordUpload(p) PROVE RegistrationInv'
<1> DEFINE q == [request[p] EXCEPT !.pc = "register"]
           o == [Row(p) EXCEPT !.bytes = BytesOf[p]]
<1>1. /\ request' = [request EXCEPT ![p] = q] /\ operation' = [operation EXCEPT ![KeyOf[p]] = o]
      /\ node' = [node EXCEPT ![KeyOf[p]] = node[KeyOf[p]]]
      /\ UNCHANGED <<object, otherNames, folderThere, faults, unacked>>
  BY DEF RecordUpload, Goto, Row, RegistrationInv
<1>2. request[p].pc = "record" /\ Row(p).status = "IN_PROGRESS" /\ object[p] = "present"
  BY RequestKnown DEF RecordUpload, RequestFits
<1>3. q \in RequestState /\ q.pc = "register" /\ q.answer = request[p].answer
  BY RequestKnown DEF RequestState, Active
<1>4. BytesOf[p] \in StoredBytes
  BY DEF StoredBytes
<1>5. o \in OperationRow /\ o.status = "IN_PROGRESS" /\ o.name = Row(p).name
      /\ o.bytes = BytesOf[p] /\ o.note = Row(p).note
  BY <1>2, <1>4, RequestKnown DEF OperationRow
<1> HIDE DEF q, o
<1>6. KeyFits(o, node[KeyOf[p]])
  BY <1>2, <1>5, RequestKnown DEF KeyFits
<1>7. RequestFits(p, q, object[p], o, node[KeyOf[p]])
  BY <1>2, <1>3, <1>5, RequestKnown DEF RequestFits, Compensating
<1>8. Owner(p)
  BY <1>2 DEF Owner, Owns
<1>9. faults' \in 0..MaxFaults /\ unacked' \subseteq Keys
  BY <1>1 DEF RegistrationInv
<1> QED
  BY <1>1, <1>2, <1>5, <1>6, <1>7, <1>8, <1>9, OwnerWrites

LEMMA RegisterFits ==
    ASSUME RegistrationInv, NEW p \in CreationRequests, NEW acknowledged \in BOOLEAN,
           Register(p, acknowledged)
    PROVE RegistrationInv'
<1> DEFINE q == IF ~acknowledged THEN [request[p] EXCEPT !.pc = "compensate"]
                ELSE IF IsUpload(p) THEN [pc |-> "done", answer |-> "ok"]
                ELSE [request[p] EXCEPT !.pc = "response"]
           o == [Row(p) EXCEPT !.status = "SUCCEEDED"]
<1>1. /\ operation' = [operation EXCEPT ![KeyOf[p]] = o]
      /\ node' = [node EXCEPT ![KeyOf[p]] = Row(p).name]
      /\ UNCHANGED <<object, otherNames, folderThere>>
  BY DEF Register, Row
<1>2. request' = [request EXCEPT ![p] = q]
  BY DEF Register, Goto, Answer
<1>3. request[p].pc = "register" /\ Row(p).status = "IN_PROGRESS" /\ object[p] = "present"
      /\ (IsUpload(p) => Row(p).bytes = BytesOf[p]) /\ node[KeyOf[p]] = NoName
      /\ Row(p).name # NoName /\ Row(p).name \in Names \cup {NoName}
      /\ request[p].answer # "ok"
  BY RequestKnown DEF Register, RequestFits, KeyFits, OperationRow
<1>4. /\ q \in RequestState
      /\ q.pc \in {"compensate", "response", "done"}
      /\ q.pc = "response" => ~IsUpload(p)
  BY RequestKnown DEF RequestState, Active, Compensating
<1>5. o \in OperationRow /\ o.status = "SUCCEEDED" /\ o.name = Row(p).name
      /\ o.bytes = Row(p).bytes
  BY RequestKnown DEF OperationRow, Kinds
<1> HIDE DEF q, o
<1>6. KeyFits(o, Row(p).name)
  BY <1>3, <1>5 DEF KeyFits
<1>7. RequestFits(p, q, object[p], o, Row(p).name)
  BY <1>3, <1>4, <1>5 DEF RequestFits, Compensating, DriveState
<1>8. Owner(p)
  BY <1>3 DEF Owner, Owns
<1>9. faults' \in 0..MaxFaults /\ unacked' \subseteq Keys
  BY FaultFits, RequestKnown DEF Register, RegistrationInv
<1> QED
  BY <1>1, <1>2, <1>3, <1>5, <1>6, <1>7, <1>8, <1>9, OwnerWrites

LEMMA EndFits ==
    ASSUME RegistrationInv, NEW p \in CreationRequests, Fail(p) \/ EndCompensation(p)
    PROVE RegistrationInv'
<1> DEFINE q == [pc |-> "done", answer |-> "failed"]
           note == IF request[p].pc = "fail" THEN "failed" ELSE request[p].pc
           o == [Row(p) EXCEPT !.status = "FAILED", !.note = note]
<1>1. /\ request' = [request EXCEPT ![p] = q] /\ MarkFailed(p, note)
      /\ UNCHANGED <<object, node, otherNames, folderThere, faults, unacked>>
      /\ request[p].pc \in {"fail", "removed", "orphaned"}
  BY DEF Fail, EndCompensation, Answer
<1>2. q \in RequestState /\ q.pc = "done" /\ q.answer = "failed"
  BY DEF RequestState
<1>3. /\ Row(p).status \in {"IN_PROGRESS", "SUCCEEDED"}
      /\ note = "failed" => object[p] \in {"none", "unknown"}
      /\ note = "removed" => object[p] = "deleted"
      /\ note = "orphaned" => object[p] = "present"
      /\ note \in {"failed", "removed", "orphaned"}
      /\ Row(p).status # "none"
  BY <1>1, RequestKnown DEF RequestFits, Compensating
<1>4. /\ o \in OperationRow /\ o.status = "FAILED" /\ o.name = Row(p).name /\ o.note = note
  <2>1. note \in Notes
    BY <1>3 DEF Notes
  <2> HIDE DEF note
  <2> QED
    BY <2>1, RequestKnown DEF OperationRow, Kinds
<1>5. Owner(p)
  BY <1>1 DEF Owner, Owns, Active, Compensating
<1>6. faults' \in 0..MaxFaults /\ unacked' \subseteq Keys
  BY <1>1 DEF RegistrationInv
<1>7. CASE Row(p).status = "IN_PROGRESS"
  <2>1. operation' = [operation EXCEPT ![KeyOf[p]] = o]
        /\ node' = [node EXCEPT ![KeyOf[p]] = node[KeyOf[p]]]
    BY <1>1, <1>7 DEF MarkFailed, Row, RegistrationInv
  <2> HIDE DEF q, o, note
  <2>2. KeyFits(o, node[KeyOf[p]]) /\ node[KeyOf[p]] = NoName
    BY <1>4, <1>7, RequestKnown DEF KeyFits
  <2>3. RequestFits(p, q, object[p], o, node[KeyOf[p]])
    BY <1>2, <1>3, <1>4, <2>2, RequestKnown DEF RequestFits, Compensating
  <2> QED
    BY <1>1, <1>4, <1>5, <1>6, <1>7, <2>1, <2>2, <2>3, OwnerWrites
<1>8. CASE Row(p).status = "SUCCEEDED"
  <2>1. UNCHANGED operation /\ object' = [object EXCEPT ![p] = object[p]]
    BY <1>1, <1>8 DEF MarkFailed, RegistrationInv
  <2> HIDE DEF q, o, note
  <2>2. RequestFits(p, q, object[p], Row(p), node[KeyOf[p]])
    BY <1>2, <1>8, RequestKnown DEF RequestFits, KeyFits, Compensating
  <2> QED
    BY <1>1, <1>5, <1>6, <2>1, <2>2, RequestGoes DEF RegistrationInv
<1> QED
  BY <1>3, <1>7, <1>8

LEMMA RegistrationStepFits ==
    RegistrationInv /\ [RegistrationNext]_registrationVars => RegistrationInv'
<1> SUFFICES ASSUME RegistrationInv, [RegistrationNext]_registrationVars
             PROVE RegistrationInv'
  OBVIOUS
<1>1. ASSUME NEW p \in CreationRequests,
             \/ RequestStep(p) \/ Register(p, FALSE) \/ Crash(p)
             \/ \E created \in BOOLEAN : FailPut(p, created)
      PROVE RegistrationInv'
  BY <1>1, ClaimFits, GoesOnFits, RecordFits, RegisterFits, EndFits DEF RequestStep
<1>2. ASSUME UNCHANGED <<operation, object, node, request, unacked>>,
             otherNames' \subseteq Names, folderThere' \in BOOLEAN, faults' \in 0..MaxFaults
      PROVE RegistrationInv'
  BY <1>2 DEF RegistrationInv, Owner, Row
<1>3. CASE \E n \in Names : TakeName(n)
  BY <1>2, <1>3, FaultFits DEF TakeName, RegistrationInv
<1>4. CASE TrashFolder
  BY <1>2, <1>4, FaultFits DEF TrashFolder, RegistrationInv
<1>5. CASE UNCHANGED registrationVars
  BY <1>2, <1>5 DEF registrationVars, RegistrationInv
<1> QED
  BY <1>1, <1>3, <1>4, <1>5 DEF RegistrationNext

LEMMA RegistrationTyped == RegistrationInv => RegistrationTypeOK
<1> SUFFICES ASSUME RegistrationInv PROVE RegistrationTypeOK
  OBVIOUS
<1>1. \A r \in CreationRequests :
        request[r].pc \in {"record", "register", "response", "compensate", "removed",
                           "orphaned"} =>
          object[r] \in {"present", "deleted"} /\ Row(r).name # NoName
  BY RequestKnown DEF RequestFits, KeyFits, Compensating
<1> QED
  BY <1>1 DEF RegistrationInv, RegistrationTypeOK, OperationRow, StoredBytes, DriveState,
              RequestState, Active, Compensating

\* The rows of operations, the objects in Drive and the requests have their types.
THEOREM RegistrationTypes == RegistrationSpec => []RegistrationTypeOK
BY RegistrationTyped, RegistrationInitFits, RegistrationStepFits, PTL DEF RegistrationSpec

LEMMA ObjectsAreSole == RegistrationInv => OneObjectPerKey
BY DEF RegistrationInv, OneObjectPerKey, Owner, Owns

\* Requests that repeat an idempotency key, at once, after a failure or after a
\* crash, put one object in Drive between them.
THEOREM OneObject == RegistrationSpec => []OneObjectPerKey
BY ObjectsAreSole, RegistrationInitFits, RegistrationStepFits, PTL DEF RegistrationSpec

LEMMA OutcomesAreTrue == RegistrationInv => OutcomeIsTrue
<1> SUFFICES ASSUME RegistrationInv PROVE OutcomeIsTrue
  OBVIOUS
<1>1. FailedLeavesNoNode
  BY RequestKnown DEF RegistrationInv, FailedLeavesNoNode, KeyFits, RequestFits, Row
<1>2. \A r \in CreationRequests :
        /\ object[r] = "present" /\ node[KeyOf[r]] = NoName =>
             request[r].pc # "done" \/ Row(r).note = "orphaned"
        /\ request[r].answer = "ok" =>
             node[KeyOf[r]] # NoName /\ (IsUpload(r) => Row(r).bytes = BytesOf[r])
  BY RequestKnown DEF RequestFits
<1> QED
  BY <1>1, <1>2 DEF OutcomeIsTrue

\* A failed operation left no node, one that says its object was removed left no
\* object, an object nobody registered is under way or said to be orphaned, and a
\* request that was answered with success has a node and its own bytes.
THEOREM OutcomesTrue == RegistrationSpec => []OutcomeIsTrue
BY OutcomesAreTrue, RegistrationInitFits, RegistrationStepFits, PTL DEF RegistrationSpec

\* Both at once: one object for each key, and the truth about it.
THEOREM RegistrationExact == RegistrationSpec => []RegistrationIsExact
BY OneObject, OutcomesTrue, PTL DEF RegistrationIsExact

-----------------------------------------------------------------------------
(* The chunked upload: what Drive holds is a prefix of the source.         *)

USE UploadConstants

---------------------------------------------------------------------------
(* The first k positions of the source, in order.                          *)
Prefix(k) == [j \in 1..k |-> j]

LEMMA PrefixLength == \A k \in Nat : Prefix(k) \in Seq(Nat) /\ Len(Prefix(k)) = k
BY DEF Prefix

LEMMA PrefixGrows ==
    ASSUME NEW k \in Nat, NEW n \in Nat
    PROVE  Prefix(k) \o [j \in 1..n |-> k + j] = Prefix(k + n)
<1>. DEFINE tail == [j \in 1..n |-> k + j]
<1>1. tail \in Seq(Nat) /\ Len(tail) = n /\ \A j \in 1..n : tail[j] = k + j
  OBVIOUS
<1>. HIDE DEF tail
<1>2. Prefix(k) \in Seq(Nat) /\ Len(Prefix(k)) = k
      /\ Prefix(k + n) \in Seq(Nat) /\ Len(Prefix(k + n)) = k + n
  BY PrefixLength
<1>3. /\ Prefix(k) \o tail \in Seq(Nat)
      /\ Len(Prefix(k) \o tail) = k + n
      /\ \A j \in 1 .. k + n : (Prefix(k) \o tail)[j] =
                               IF j <= k THEN Prefix(k)[j] ELSE tail[j - k]
  <2>. HIDE DEF Prefix
  <2>1. /\ Prefix(k) \o tail \in Seq(Nat)
        /\ Len(Prefix(k) \o tail) = Len(Prefix(k)) + Len(tail)
        /\ \A j \in 1 .. Len(Prefix(k)) + Len(tail) :
              (Prefix(k) \o tail)[j] =
                IF j <= Len(Prefix(k)) THEN Prefix(k)[j] ELSE tail[j - Len(Prefix(k))]
    BY <1>1, <1>2, ConcatProperties, Zenon
  <2>2. Len(Prefix(k)) = k /\ Len(tail) = n
    BY <1>1, <1>2
  <2>3. QED BY <2>1, <2>2, Zenon
<1>4. ASSUME NEW j \in 1 .. k + n
      PROVE  (Prefix(k) \o tail)[j] = Prefix(k + n)[j]
  <2>1. CASE j <= k
    <3>1. j \in 1..k /\ j \in 1 .. k + n
      BY <2>1
    <3>2. Prefix(k)[j] = j /\ Prefix(k + n)[j] = j
      BY <3>1 DEF Prefix
    <3>3. QED BY <1>3, <2>1, <3>2
  <2>2. CASE j > k
    <3>1. j - k \in 1..n
      BY <2>2
    <3>2. tail[j - k] = j
      BY <1>1, <2>2, <3>1
    <3>3. Prefix(k + n)[j] = j
      BY DEF Prefix
    <3>4. ~(j <= k)
      BY <2>2
    <3>5. QED BY <1>3, <3>2, <3>3, <3>4
  <2>3. j <= k \/ j > k
    OBVIOUS
  <2>4. QED BY <2>1, <2>2, <2>3, Zenon
<1>5. QED
  <2>1. Prefix(k) \o tail = Prefix(k + n)
    BY <1>2, <1>3, <1>4, SeqEqual
  <2>2. QED BY <2>1 DEF tail

---------------------------------------------------------------------------
(* The inductive invariant                                                 *)

Waiting == {"chunk", "send", "query", "final query"}

\* The result belongs to the client's place: none while it works, a failure
\* when it gives up, and a success only with the complete file.
ResultFits ==
    /\ uploadPc \in Waiting \cup {"aborting", "ended"}
    /\ uploadPc \in Waiting => uploadResult = "none"
    /\ uploadPc = "aborting" => uploadResult = "failed"
    /\ uploadResult = "ok" => uploadPc = "ended" /\ session.state = "complete"

\* What Drive holds is a prefix of the source; complete, all of it.
SessionFits ==
    /\ session \in [bytes : Seq(Nat), state : {"open", "complete", "deleted"}]
    /\ session.bytes = Prefix(Received)
    /\ session.state = "complete" => Received = length

UploadInv == UploadTypeOK /\ ResultFits /\ SessionFits

LEMMA Numbers ==
    ASSUME UploadTypeOK
    PROVE  /\ length \in Nat /\ taken \in Nat /\ offset \in Nat /\ cursor \in Nat
           /\ ChunkBytes \in Nat /\ taken + ChunkBytes \in 0 .. length
           /\ ChunkEnd = taken + ChunkBytes
           /\ IsLast => ChunkEnd = length
BY DEF UploadTypeOK, ChunkBytes, Rest, ChunkEnd, IsLast

\* Bytes that follow those Drive has make a longer prefix.
LEMMA KeepFits ==
    ASSUME UploadInv, Received = cursor, NEW n \in 0 .. ChunkEnd - cursor,
           session' = Keep(n), UNCHANGED length
    PROVE  /\ SessionFits'
           /\ session'.state \in {"open", "complete"}
<1>1. cursor \in Nat /\ ChunkEnd \in Nat /\ n \in Nat
  BY Numbers DEF UploadInv
<1>2. Carried(n) = [j \in 1..n |-> cursor + j]
  BY Numbers DEF UploadInv, UploadTypeOK, Carried
<1>3. session.bytes \o Carried(n) = Prefix(cursor + n)
  BY <1>1, <1>2, PrefixGrows DEF UploadInv, SessionFits
<1>4. session' = [bytes |-> Prefix(cursor + n),
                  state |-> IF IsLast /\ Len(Prefix(cursor + n)) = ChunkEnd
                              THEN "complete" ELSE "open"]
  BY <1>3 DEF Keep
<1>5. /\ Prefix(cursor + n) \in Seq(Nat)
      /\ Len(Prefix(cursor + n)) = cursor + n
      /\ session'.bytes = Prefix(cursor + n)
      /\ Received' = cursor + n
  BY <1>1, <1>4, PrefixLength DEF Received
<1>6. session'.state = "complete" => cursor + n = length
  BY <1>4, <1>5, Numbers DEF UploadInv
<1>7. QED BY <1>4, <1>5, <1>6 DEF SessionFits

\* An accepted offset keeps the client's numbers within the source.
LEMMA TakeOffsetFits ==
    ASSUME UploadInv, uploadPc \in {"send", "query"}, NEW accepted \in Nat,
           TakeOffset(accepted), UNCHANGED length,
           session'.state \in {"open", "complete", "deleted"}
    PROVE  UploadTypeOK' /\ ResultFits'
<1>0. session'.state \in {"open", "complete", "deleted"} /\ uploadResult = "none"
  BY DEF UploadInv, ResultFits, Waiting
<1>1. CASE GiveUpUpload /\ UNCHANGED <<taken, offset, cursor, noProgress>>
  BY <1>0, <1>1 DEF UploadInv, UploadTypeOK, ResultFits, GiveUpUpload, Waiting
<1>2. CASE accepted = ChunkEnd /\ EndChunk /\ UNCHANGED <<cursor, noProgress, uploadResult>>
  BY <1>0, <1>2, Numbers DEF UploadInv, UploadTypeOK, ResultFits, EndChunk, Waiting
<1>3. CASE /\ cursor <= accepted /\ accepted <= ChunkEnd
           /\ ~(accepted = cursor /\ noProgress >= MaxNoProgress)
           /\ cursor' = accepted
           /\ noProgress' = noProgress + (IF accepted = cursor THEN 1 ELSE 0)
           /\ uploadPc' = "send"
           /\ UNCHANGED <<taken, offset, uploadResult>>
  <2>1. cursor' \in 0 .. length /\ noProgress' \in 0 .. MaxNoProgress
    BY <1>3, Numbers DEF UploadInv, UploadTypeOK
  <2>2. UploadTypeOK'
    BY <1>0, <1>3, <2>1 DEF UploadInv, UploadTypeOK
  <2>3. ResultFits'
    BY <1>0, <1>3 DEF ResultFits, Waiting
  <2>4. QED BY <2>2, <2>3
<1>4. QED
  <2>1. cursor \in Nat /\ ChunkEnd \in Nat /\ noProgress \in Nat
    BY Numbers DEF UploadInv, UploadTypeOK
  <2>2. QED BY <1>1, <1>2, <1>3, <2>1 DEF TakeOffset

LEMMA UploadInitFits == UploadInit => UploadInv
<1>. SUFFICES ASSUME UploadInit PROVE UploadInv
  OBVIOUS
<1>1. length \in Nat
  BY DEF UploadInit
<1>2. Prefix(0) = <<>>
  BY DEF Prefix
<1>3. QED
  BY <1>1, <1>2 DEF UploadInit, UploadInv, UploadTypeOK, ResultFits, SessionFits, Received, Waiting

LEMMA UploadStepFits == UploadInv /\ [UploadStep]_uploadVars => UploadInv'
<1>. SUFFICES ASSUME UploadInv, [UploadStep]_uploadVars PROVE UploadInv'
  OBVIOUS
<1>. USE DEF UploadInv
<1>1. ASSUME UNCHANGED <<length, session>> PROVE SessionFits'
  BY <1>1 DEF SessionFits, Received
<1>2. CASE StartChunk
  <2>1. SessionFits'
    BY <1>1, <1>2 DEF StartChunk
  <2>2. UploadTypeOK'
    <3>1. cursor' \in 0 .. length /\ noProgress' \in 0 .. MaxNoProgress
      <4>1. offset \in 0 .. length /\ 0 \in 0 .. MaxNoProgress
        BY Numbers DEF UploadTypeOK
      <4>2. cursor' = offset /\ noProgress' = 0
        BY <1>2 DEF StartChunk
      <4>3. QED BY <4>1, <4>2
    <3>2. QED BY <1>2, <3>1 DEF StartChunk, UploadTypeOK
  <2>3. ResultFits'
    BY <1>2 DEF StartChunk, ResultFits, Waiting
  <2>4. QED BY <2>1, <2>2, <2>3
<1>3. ASSUME NEW n \in 0 .. ChunkEnd - cursor, SendAnswered(n)
      PROVE  UploadInv'
  <2>1. SessionFits' /\ session'.state \in {"open", "complete"}
    BY <1>3, KeepFits DEF SendAnswered
  <2>2. CASE session'.state = "complete"
    <3>1. UploadTypeOK'
      BY <1>3, <2>2 DEF SendAnswered, Succeed, UploadTypeOK
    <3>2. ResultFits'
      BY <1>3, <2>2 DEF SendAnswered, Succeed, ResultFits, Waiting
    <3>3. QED BY <2>1, <3>1, <3>2
  <2>3. CASE session'.state # "complete"
    <3>1. cursor + n \in Nat
      BY Numbers
    <3>2. TakeOffset(cursor + n) /\ UNCHANGED length /\ uploadPc = "send"
      BY <1>3, <2>3 DEF SendAnswered
    <3>3. UploadTypeOK' /\ ResultFits'
      BY <2>1, <3>1, <3>2, TakeOffsetFits
    <3>4. QED BY <2>1, <3>3
  <2>4. QED BY <2>2, <2>3
<1>4. ASSUME NEW n \in 0 .. ChunkEnd - cursor, SendLost(n)
      PROVE  UploadInv'
  <2>1. SessionFits' /\ session'.state \in {"open", "complete"}
    BY <1>4, KeepFits DEF SendLost
  <2>2. UploadTypeOK'
    BY <1>4, <2>1 DEF SendLost, UploadTypeOK
  <2>3. ResultFits'
    BY <1>4 DEF SendLost, ResultFits, Waiting
  <2>4. QED BY <2>1, <2>2, <2>3
<1>5. CASE SendRefused
  BY <1>1, <1>5 DEF SendRefused, GiveUpUpload, UploadTypeOK, ResultFits, Waiting
<1>6. CASE Query
  <2>1. SessionFits'
    BY <1>1, <1>6 DEF Query
  <2>2. CASE session.state = "complete"
    <3>1. UploadTypeOK'
      BY <1>6, <2>2 DEF Query, Succeed, UploadTypeOK
    <3>2. ResultFits'
      BY <1>6, <2>2 DEF Query, Succeed, ResultFits, Waiting
    <3>3. QED BY <2>1, <3>1, <3>2
  <2>3. CASE session.state # "complete"
    <3>1. Received \in Nat
      BY DEF SessionFits, Received
    <3>2. TakeOffset(Received) /\ UNCHANGED length /\ uploadPc = "query"
          /\ session'.state \in {"open", "complete", "deleted"}
      BY <1>6, <2>1, <2>3 DEF Query, SessionFits
    <3>3. UploadTypeOK' /\ ResultFits'
      BY <3>1, <3>2, TakeOffsetFits
    <3>4. QED BY <2>1, <3>3
  <2>4. QED BY <2>2, <2>3
<1>7. CASE FinalQuery
  <2>1. SessionFits'
    BY <1>1, <1>7 DEF FinalQuery
  <2>2. UploadTypeOK'
    BY <1>7 DEF FinalQuery, Succeed, GiveUpUpload, UploadTypeOK
  <2>3. ResultFits'
    BY <1>7 DEF FinalQuery, Succeed, GiveUpUpload, ResultFits, Waiting
  <2>4. QED BY <2>1, <2>2, <2>3
<1>8. CASE UploadError
  BY <1>1, <1>8 DEF UploadError, GiveUpUpload, UploadTypeOK, ResultFits, Waiting
<1>9. CASE Abort
  <2>1. /\ session'.bytes = session.bytes
        /\ session' \in [bytes : Seq(Nat), state : {"open", "complete", "deleted"}]
        /\ session'.state = "complete" <=> session.state = "complete"
    BY <1>9 DEF Abort, SessionFits
  <2>2. SessionFits'
    BY <1>9, <2>1 DEF Abort, SessionFits, Received
  <2>3. UploadTypeOK'
    BY <1>9, <2>1 DEF Abort, UploadTypeOK
  <2>4. ResultFits'
    BY <1>9, <2>1 DEF Abort, ResultFits, Waiting
  <2>5. QED BY <2>2, <2>3, <2>4
<1>10. CASE UNCHANGED uploadVars
  BY <1>1, <1>10 DEF uploadVars, UploadTypeOK, ResultFits, SessionFits, Received
<1>11. QED
  BY <1>2, <1>3, <1>4, <1>5, <1>6, <1>7, <1>8, <1>9, <1>10 DEF UploadStep

LEMMA UploadsAreSource == UploadInv => FileIsSource
BY DEF UploadInv, SessionFits, ResultFits, FileIsSource, Prefix

\* Whatever part of a chunk Drive keeps and whichever answers are lost, what it
\* holds is the source from its start, without a gap or a repetition, and an
\* upload that is reported as done left a file of the source's length.
THEOREM UploadIsSource == UploadSpec => []FileIsSource
BY UploadInitFits, UploadStepFits, UploadsAreSource, PTL DEF UploadSpec

-----------------------------------------------------------------------------
(* The migration of a local file to Drive. *)
USE MigrationConstants DEF NoObject

-----------------------------------------------------------------------------
(* The types, and what refers to an object of Drive.                       *)

RunSteps == {"rest", "loaded", "blocking", "checked", "claim", "rollback"}
              \cup Working \cup Ending
Ids == {NoObject} \cup ObjectIds

FileRow == [current : Versions, backing : {"LOCAL", "DRIVE"}, linked : Ids]
VersionRow == [status : MigrationStatus, lease : Operators \cup {NoOperator}, live : BOOLEAN,
               remote : Ids, record : Ids]
DriveObject == [version : {0} \cup Versions, intact : BOOLEAN, there : BOOLEAN,
                registered : BOOLEAN, lost : BOOLEAN]
Run == [pc : RunSteps, version : {0} \cup Versions, known : BOOLEAN, claimed : Ids,
        remote : Ids, fresh : Ids, missing : BOOLEAN]

\* o is none of the objects, or one that was uploaded for version v.
ObjectIn(o, v, objects) == o = NoObject \/ (o \in ObjectIds /\ objects[o].version = v)

RowFits(r, v, objects) ==
    r \in VersionRow /\ ObjectIn(r.remote, v, objects) /\ ObjectIn(r.record, v, objects)

\* A run has a version unless it is at rest, and an object from its upload on.
Holding == {"uploaded", "fetch", "fetched", "verify", "cutover"}
RunFits(r, objects) ==
    /\ r \in Run
    /\ r.pc # "rest" => r.version \in Versions
    /\ r.version # 0 => ObjectIn(r.remote, r.version, objects)
                        /\ ObjectIn(r.fresh, r.version, objects)
    /\ r.pc \in Holding => r.remote # NoObject

FileOK == file \in FileRow /\ (file.backing = "LOCAL" <=> file.linked = NoObject)
RowsOK == row \in [Versions -> VersionRow] /\ \A v \in Versions : RowFits(row[v], v, driveObjects)
ObjectsOK == driveObjects \in [ObjectIds -> DriveObject]
RunsOK == op \in [Operators -> Run] /\ \A p \in Operators : RunFits(op[p], driveObjects)
RestOK == bytes \in {"intact", "changed", "missing"} /\ overlapped \in BOOLEAN

MigrationInv == FileOK /\ RowsOK /\ ObjectsOK /\ RunsOK /\ RestOK

SameVersions == \A o \in ObjectIds : driveObjects'[o].version = driveObjects[o].version

\* Objects are only marked: nothing that refers to one is disturbed.
LEMMA SameReferences ==
    ASSUME SameVersions, NEW o, NEW v
    PROVE ObjectIn(o, v, driveObjects) => ObjectIn(o, v, driveObjects')
BY DEF SameVersions, ObjectIn

LEMMA RunsStay == RunsOK /\ UNCHANGED op /\ SameVersions => RunsOK'
<1> SUFFICES ASSUME RunsOK, UNCHANGED op, SameVersions PROVE RunsOK'
  OBVIOUS
<1>1. op' \in [Operators -> Run]
  BY DEF RunsOK
<1>2. \A p \in Operators : RunFits(op'[p], driveObjects')
  BY SameReferences DEF RunsOK, RunFits
<1> QED
  BY <1>1, <1>2 DEF RunsOK

\* One run takes a step.
LEMMA RunMoves ==
    ASSUME RunsOK, SameVersions, NEW p \in Operators, NEW r,
           op' = [op EXCEPT ![p] = r], RunFits(r, driveObjects)
    PROVE RunsOK'
<1>1. op' \in [Operators -> Run]
  BY DEF RunsOK, RunFits
<1>2. ASSUME NEW q \in Operators PROVE RunFits(op'[q], driveObjects)
  BY <1>2 DEF RunsOK
<1>3. ASSUME NEW q \in Operators PROVE RunFits(op'[q], driveObjects')
  BY <1>2, SameReferences DEF RunFits
<1> QED
  BY <1>1, <1>3 DEF RunsOK

LEMMA RowsStay == RowsOK /\ UNCHANGED row /\ SameVersions => RowsOK'
<1> SUFFICES ASSUME RowsOK, UNCHANGED row, SameVersions PROVE RowsOK'
  OBVIOUS
<1>1. \A v \in Versions : RowFits(row'[v], v, driveObjects')
  BY SameReferences DEF RowsOK, RowFits
<1> QED
  BY <1>1 DEF RowsOK

\* One row is written.
LEMMA RowMoves ==
    ASSUME RowsOK, SameVersions, NEW v \in Versions, NEW r,
           row' = [row EXCEPT ![v] = r], RowFits(r, v, driveObjects)
    PROVE RowsOK'
<1>1. row' \in [Versions -> VersionRow]
  BY DEF RowsOK, RowFits
<1>2. ASSUME NEW w \in Versions PROVE RowFits(row'[w], w, driveObjects)
  BY <1>2 DEF RowsOK
<1>3. ASSUME NEW w \in Versions PROVE RowFits(row'[w], w, driveObjects')
  BY <1>2, SameReferences DEF RowFits
<1> QED
  BY <1>1, <1>3 DEF RowsOK

\* A run that moves on within its step's own version, keeping its objects.
LEMMA Goes ==
    ASSUME RunsOK, NEW p \in Operators, op[p].pc # "rest", NEW next \in RunSteps,
           next \in Holding => op[p].remote # NoObject
    PROVE RunFits([op[p] EXCEPT !.pc = next], driveObjects)
BY DEF RunsOK, RunFits, Run

LEMMA Rests == RunFits(AtRest, driveObjects)
BY DEF RunFits, Run, AtRest, RunSteps, Ids, Holding

LEMMA Same == UNCHANGED driveObjects => SameVersions
BY DEF SameVersions

LEMMA MigrationInitFits == MigrationInit => MigrationInv
<1> SUFFICES ASSUME MigrationInit PROVE MigrationInv
  OBVIOUS
<1>1. FileOK
  BY DEF MigrationInit, FileOK, FileRow, Versions, Ids
<1>2. NoRow \in VersionRow /\ \A v \in Versions : RowFits(NoRow, v, driveObjects)
  BY DEF NoRow, VersionRow, RowFits, ObjectIn, Ids, MigrationStatus
<1>3. RowsOK
  BY <1>2 DEF MigrationInit, RowsOK
<1>4. ObjectsOK
  BY DEF MigrationInit, ObjectsOK, Unused, DriveObject
<1>5. RunsOK
  BY Rests DEF MigrationInit, RunsOK, RunFits
<1> QED
  BY <1>1, <1>3, <1>4, <1>5 DEF MigrationInv, RestOK, MigrationInit

\* What the steps that only move a run leave alone.
Others == <<file, row, driveObjects, bytes, overlapped>>
LEMMA OnlyRuns == MigrationInv /\ UNCHANGED Others /\ RunsOK' => MigrationInv'
<1> SUFFICES ASSUME MigrationInv, UNCHANGED Others, RunsOK' PROVE MigrationInv'
  OBVIOUS
<1>1. RowsOK'
  BY Same, RowsStay DEF MigrationInv, Others
<1> QED
  BY <1>1 DEF MigrationInv, Others, FileOK, ObjectsOK, RestOK

LEMMA OnlyRunsAndRows ==
    MigrationInv /\ UNCHANGED <<file, driveObjects, bytes, overlapped>> /\ RunsOK' /\ RowsOK'
      => MigrationInv'
BY DEF MigrationInv, FileOK, ObjectsOK, RestOK

LEMMA MoveFits ==
    ASSUME MigrationInv, NEW p \in Operators,
           Load(p) \/ CheckSource(p) \/ ReadRow(p) \/ UploadNothing(p) \/ Fetch(p)
             \/ SkipDelete(p) \/ RunFails(p) \/ FailDelete(p) \/ RollbackRead(p)
    PROVE MigrationInv'
<1> DEFINE At(next) == op' = [op EXCEPT ![p] = [op[p] EXCEPT !.pc = next]]
<1>1. RunsOK /\ RunFits(op[p], driveObjects) /\ op[p] \in Run
  BY DEF MigrationInv, RunsOK, RunFits
<1>2. ASSUME NEW r, op' = [op EXCEPT ![p] = r], RunFits(r, driveObjects), UNCHANGED Others
      PROVE MigrationInv'
  <2>1. SameVersions
    BY <1>2, Same DEF Others
  <2>2. RunsOK'
    BY <1>1, <1>2, <2>1, RunMoves
  <2> QED
    BY <1>2, <2>2, OnlyRuns
<1>3. ASSUME op[p].pc # "rest", NEW next \in RunSteps \ Holding, At(next), UNCHANGED Others
      PROVE MigrationInv'
  <2>1. RunFits([op[p] EXCEPT !.pc = next], driveObjects)
    BY <1>1, <1>3, Goes
  <2> QED
    BY <1>2, <1>3, <2>1
<1>4. CASE Load(p)
  <2> DEFINE r == [AtRest EXCEPT !.pc = "loaded", !.version = file.current]
  <2>1. file.current \in Versions
    BY DEF MigrationInv, FileOK, FileRow
  <2>2. RunFits(r, driveObjects)
    BY <2>1 DEF RunFits, Run, AtRest, RunSteps, Ids, ObjectIn, Holding
  <2>3. op' = [op EXCEPT ![p] = r] /\ UNCHANGED Others
    BY <1>4 DEF Load, Others
  <2> HIDE DEF r
  <2> QED
    BY <1>2, <2>2, <2>3
<1>5. CASE CheckSource(p)
  <2>1. op[p].pc # "rest" /\ UNCHANGED Others /\ (At("blocking") \/ At("checked"))
    BY <1>5 DEF CheckSource, OpAt, OpGoto, Others
  <2> QED
    BY <1>3, <2>1 DEF RunSteps, Holding
<1>6. CASE ReadRow(p)
  <2>1. CASE op' = [op EXCEPT ![p] = AtRest]
    BY <1>2, <1>6, <2>1, Rests DEF ReadRow, Others
  <2>2. CASE op' # [op EXCEPT ![p] = AtRest]
    <3> DEFINE r == [op[p] EXCEPT !.pc = "claim", !.known = row[V(p)].status # "NONE"]
    <3>1. op' = [op EXCEPT ![p] = r] /\ UNCHANGED Others /\ op[p].pc = "checked"
      BY <1>1, <1>6, <2>2 DEF ReadRow, OpAt, Others, Run, MigrationInv, RunsOK
    <3>2. RunFits(r, driveObjects)
      BY <1>1, <3>1 DEF RunFits, Run, RunSteps, Holding
    <3> HIDE DEF r
    <3> QED
      BY <1>2, <3>1, <3>2
  <2> QED
    BY <2>1, <2>2
<1>7. CASE UploadNothing(p)
  <2>1. op[p].pc # "rest" /\ UNCHANGED Others /\ At("catch")
    BY <1>7 DEF UploadNothing, OpAt, OpGoto, Others
  <2> QED
    BY <1>3, <2>1 DEF RunSteps, Holding, Ending
<1>8. CASE Fetch(p)
  <2>1. CASE There(op[p].remote)
    <3>1. At("fetched") /\ UNCHANGED Others /\ op[p].pc = "fetch"
      BY <1>8, <2>1 DEF Fetch, OpAt, Others
    <3>2. RunFits([op[p] EXCEPT !.pc = "fetched"], driveObjects)
      BY <1>1, <3>1 DEF RunFits, Run, RunSteps, Holding, Working
    <3> QED
      BY <1>2, <3>1, <3>2
  <2>2. CASE ~There(op[p].remote)
    <3> DEFINE r == [op[p] EXCEPT !.pc = "catch", !.missing = TRUE]
    <3>1. op' = [op EXCEPT ![p] = r] /\ UNCHANGED Others /\ op[p].pc = "fetch"
      BY <1>1, <1>8, <2>2 DEF Fetch, OpAt, Others, Run, MigrationInv, RunsOK
    <3>2. RunFits(r, driveObjects)
      BY <1>1, <3>1 DEF RunFits, Run, RunSteps, Holding, Ending
    <3> HIDE DEF r
    <3> QED
      BY <1>2, <3>1, <3>2
  <2> QED
    BY <2>1, <2>2
<1>9. CASE SkipDelete(p)
  <2>1. op[p].pc # "rest" /\ UNCHANGED Others /\ (At("forget") \/ At("fail"))
    BY <1>9 DEF SkipDelete, Settle, OpAt, OpGoto, Others
  <2> QED
    BY <1>3, <2>1 DEF RunSteps, Holding, Ending
<1>10. CASE RunFails(p)
  <2>1. op[p].pc # "rest" /\ UNCHANGED Others /\ At("catch")
    BY <1>10 DEF RunFails, Working, OpGoto, Others
  <2> QED
    BY <1>3, <2>1 DEF RunSteps, Holding, Ending
<1>11. CASE FailDelete(p)
  <2>1. op[p].pc # "rest" /\ UNCHANGED Others /\ At("orphan")
    BY <1>11 DEF FailDelete, OpAt, OpGoto, Others
  <2> QED
    BY <1>3, <2>1 DEF RunSteps, Holding, Ending
<1>12. CASE RollbackRead(p)
  <2> DEFINE r == [AtRest EXCEPT !.pc = "rollback", !.version = file.current,
                                 !.remote = row[file.current].record]
  <2>1. file.current \in Versions /\ file.current # 0
    BY DEF MigrationInv, FileOK, FileRow, Versions
  <2>2. row[file.current].record \in Ids /\ ObjectIn(row[file.current].record, file.current, driveObjects)
    BY <2>1 DEF MigrationInv, RowsOK, RowFits, VersionRow
  <2>3. RunFits(r, driveObjects)
    BY <2>1, <2>2 DEF RunFits, Run, AtRest, RunSteps, Ids, ObjectIn, Holding
  <2>4. op' = [op EXCEPT ![p] = r] /\ UNCHANGED Others
    BY <1>12 DEF RollbackRead, Others
  <2> HIDE DEF r
  <2> QED
    BY <1>2, <2>3, <2>4
<1> QED
  BY <1>4, <1>5, <1>6, <1>7, <1>8, <1>9, <1>10, <1>11, <1>12


\* A run writes a row of its version and moves; objects are at most marked.
LEMMA Writes ==
    ASSUME MigrationInv, NEW p \in Operators, NEW v \in Versions, NEW w, NEW r,
           row' = [row EXCEPT ![v] = w], RowFits(w, v, driveObjects),
           op' = [op EXCEPT ![p] = r], RunFits(r, driveObjects),
           ObjectsOK', SameVersions, FileOK', RestOK'
    PROVE MigrationInv'
<1>1. RowsOK' /\ RunsOK'
  BY RowMoves, RunMoves DEF MigrationInv
<1> QED
  BY <1>1 DEF MigrationInv

LEMMA WriteFits ==
    ASSUME MigrationInv, NEW p \in Operators,
           RecordBlocked(p) \/ ClaimRow(p) \/ MarkUploaded(p) \/ RecordVerifying(p)
             \/ RegisterVerified(p) \/ RecordOrphan(p) \/ ForgetMissing(p) \/ RecordFailure(p)
    PROVE MigrationInv'
<1> DEFINE R == op[p]
<1>1. RunsOK /\ RunFits(R, driveObjects) /\ R \in Run /\ op \in [Operators -> Run]
  BY DEF MigrationInv, RunsOK, RunFits
<1>2. R.pc # "rest"
  BY DEF RecordBlocked, ClaimRow, MarkUploaded, RecordVerifying, RegisterVerified,
         RecordOrphan, ForgetMissing, RecordFailure, OpAt
<1>3. V(p) \in Versions /\ V(p) # 0
  BY <1>1, <1>2 DEF RunFits, V, Versions
<1>4. /\ R.remote \in Ids /\ ObjectIn(R.remote, V(p), driveObjects)
      /\ R.fresh \in Ids /\ ObjectIn(R.fresh, V(p), driveObjects)
  BY <1>1, <1>3 DEF RunFits, Run, V
<1>5. row[V(p)] \in VersionRow /\ RowFits(row[V(p)], V(p), driveObjects)
  BY <1>3 DEF MigrationInv, RowsOK, RowFits
<1>6. FileOK' /\ RestOK'
  BY DEF MigrationInv, FileOK, RestOK, RecordBlocked, ClaimRow, MarkUploaded, RecordVerifying,
         RegisterVerified, RecordOrphan, ForgetMissing, RecordFailure
<1>7. ASSUME NEW next \in RunSteps \ Holding
      PROVE RunFits([R EXCEPT !.pc = next], driveObjects)
  BY <1>1, <1>2, <1>7, Goes
<1>8. ASSUME NEW w, row' = [row EXCEPT ![V(p)] = w], RowFits(w, V(p), driveObjects),
             NEW r, op' = [op EXCEPT ![p] = r], RunFits(r, driveObjects),
             UNCHANGED driveObjects
      PROVE MigrationInv'
  <2>1. ObjectsOK' /\ SameVersions
    BY <1>8, Same DEF MigrationInv, ObjectsOK
  <2> QED
    BY <1>3, <1>6, <1>8, <2>1, Writes
<1>9. CASE RecordBlocked(p)
  <2> DEFINE w == [row[V(p)] EXCEPT !.status = "BLOCKED", !.lease = NoOperator, !.live = FALSE]
  <2>1. RowFits(w, V(p), driveObjects)
    BY <1>5 DEF RowFits, VersionRow, MigrationStatus
  <2>2. row' = [row EXCEPT ![V(p)] = w] /\ op' = [op EXCEPT ![p] = AtRest]
        /\ UNCHANGED driveObjects
    BY <1>9 DEF RecordBlocked
  <2> HIDE DEF w
  <2> QED
    BY <1>8, <2>1, <2>2, Rests
<1>10. CASE ClaimRow(p)
  <2>1. CASE op' = [op EXCEPT ![p] = AtRest] /\ UNCHANGED row
    <3>1. row' = [row EXCEPT ![V(p)] = row[V(p)]]
      BY <1>3, <2>1 DEF MigrationInv, RowsOK
    <3> QED
      BY <1>5, <1>8, <1>10, <2>1, <3>1, Rests DEF ClaimRow
  <2>2. CASE ~(op' = [op EXCEPT ![p] = AtRest] /\ UNCHANGED row)
    <3> DEFINE w == [row[V(p)] EXCEPT !.status = "UPLOADING", !.lease = p, !.live = TRUE]
               target == row[V(p)].remote
               next == IF target = NoObject THEN "upload" ELSE "fetch"
               r == [R EXCEPT !.pc = next, !.claimed = target, !.remote = target]
    <3>1. row' = [row EXCEPT ![V(p)] = w] /\ UNCHANGED driveObjects /\ R.pc = "claim"
      BY <1>10, <2>2 DEF ClaimRow, OpAt
    <3>2. op' = [op EXCEPT ![p] = r]
      BY <1>1, <1>10, <2>2 DEF ClaimRow, Run
    <3>3. RowFits(w, V(p), driveObjects)
      BY <1>5 DEF RowFits, VersionRow, MigrationStatus
    <3>4. target \in Ids /\ ObjectIn(target, V(p), driveObjects)
      BY <1>5 DEF RowFits, VersionRow
    <3>5. r \in Run /\ r.version = V(p) /\ r.remote = target /\ r.fresh = R.fresh /\ r.pc = next
      BY <1>1, <3>4 DEF Run, RunSteps, Working, V
    <3> HIDE DEF w
    <3>6. next \in Holding => target # NoObject
      BY DEF Holding
    <3>7. RunFits(r, driveObjects)
      <4> HIDE DEF r, target, next
      <4> QED
        BY <1>3, <1>4, <3>4, <3>5, <3>6 DEF RunFits
    <3> HIDE DEF r
    <3> QED
      BY <1>8, <3>1, <3>2, <3>3, <3>7
  <2> QED
    BY <2>1, <2>2
<1>11. ASSUME NEW s \in MigrationStatus
       PROVE RowFits(Renewed(p, s), V(p), driveObjects)
  BY <1>4, <1>5, <1>11 DEF RowFits, VersionRow, Renewed
<1>12. ASSUME NEW next \in RunSteps, NEW fresh \in {R.fresh, NoObject},
              next \in Holding => R.remote # NoObject,
              Proceed(p, [R EXCEPT !.pc = next, !.fresh = fresh])
       PROVE \E r : op' = [op EXCEPT ![p] = r] /\ RunFits(r, driveObjects)
  <2>1. CASE op' = [op EXCEPT ![p] = [R EXCEPT !.pc = next, !.fresh = fresh]]
    <3>1. fresh \in Ids /\ ObjectIn(fresh, V(p), driveObjects)
      BY <1>4, <1>12 DEF ObjectIn, Ids
    <3> DEFINE r == [R EXCEPT !.pc = next, !.fresh = fresh]
    <3>2. r \in Run /\ r.version = V(p) /\ r.remote = R.remote /\ r.fresh = fresh /\ r.pc = next
      BY <1>1, <3>1 DEF Run, V
    <3>3. RunFits(r, driveObjects)
      <4> HIDE DEF r
      <4> QED
        BY <1>3, <1>4, <1>12, <3>1, <3>2 DEF RunFits
    <3> QED
      BY <2>1, <3>3
  <2>2. CASE OpGoto(p, "catch")
    BY <1>7, <2>2 DEF OpGoto, RunSteps, Ending, Holding
  <2> QED
    BY <1>12, <2>1, <2>2 DEF Proceed
<1>13. CASE MarkUploaded(p)
  <2>1. R.pc = "uploaded" /\ Proceed(p, [R EXCEPT !.pc = "fetch"])
        /\ row' = [row EXCEPT ![V(p)] = Renewed(p, "UPLOADED")] /\ UNCHANGED driveObjects
    BY <1>13 DEF MarkUploaded, OpAt
  <2>2. [R EXCEPT !.pc = "fetch"] = [R EXCEPT !.pc = "fetch", !.fresh = R.fresh]
    BY <1>1 DEF Run
  <2>3. R.remote # NoObject
    BY <1>1, <2>1 DEF RunFits, Holding
  <2>4. PICK r : op' = [op EXCEPT ![p] = r] /\ RunFits(r, driveObjects)
    BY <1>12, <2>1, <2>2, <2>3 DEF RunSteps, Working
  <2> QED
    BY <1>8, <1>11, <2>1, <2>4 DEF MigrationStatus
<1>14. CASE RecordVerifying(p)
  <2>1. R.pc = "fetched" /\ Proceed(p, [R EXCEPT !.pc = "verify"])
        /\ row' = [row EXCEPT ![V(p)] = Renewed(p, "VERIFYING")] /\ UNCHANGED driveObjects
    BY <1>14 DEF RecordVerifying, OpAt
  <2>2. [R EXCEPT !.pc = "verify"] = [R EXCEPT !.pc = "verify", !.fresh = R.fresh]
    BY <1>1 DEF Run
  <2>3. R.remote # NoObject
    BY <1>1, <2>1 DEF RunFits, Holding
  <2>4. PICK r : op' = [op EXCEPT ![p] = r] /\ RunFits(r, driveObjects)
    BY <1>12, <2>1, <2>2, <2>3 DEF RunSteps, Working
  <2> QED
    BY <1>8, <1>11, <2>1, <2>4 DEF MigrationStatus
<1>15. CASE RegisterVerified(p)
  <2> DEFINE w == [Renewed(p, "VERIFIED") EXCEPT !.record = R.remote]
  <2>1. R.pc = "verify" /\ Proceed(p, [R EXCEPT !.pc = "cutover", !.fresh = NoObject])
        /\ row' = [row EXCEPT ![V(p)] = w]
        /\ driveObjects' = [driveObjects EXCEPT ![R.remote].registered = TRUE]
    BY <1>15 DEF RegisterVerified, OpAt
  <2>2. R.remote # NoObject
    BY <1>1, <2>1 DEF RunFits, Holding
  <2>3. PICK r : op' = [op EXCEPT ![p] = r] /\ RunFits(r, driveObjects)
    BY <1>12, <2>1, <2>2 DEF RunSteps, Working
  <2>4. RowFits(w, V(p), driveObjects)
    BY <1>4, <1>5 DEF RowFits, VersionRow, Renewed, MigrationStatus
  <2>5. ObjectsOK' /\ SameVersions
    BY <1>4, <2>1, <2>2 DEF MigrationInv, ObjectsOK, SameVersions, DriveObject, Ids
  <2> HIDE DEF w
  <2> QED
    BY <1>3, <1>6, <2>1, <2>3, <2>4, <2>5, Writes
<1>16. CASE RecordOrphan(p)
  <2> DEFINE w == [Failed(row[V(p)]) EXCEPT !.remote = R.fresh]
  <2>1. row' = [row EXCEPT ![V(p)] = w] /\ op' = [op EXCEPT ![p] = AtRest]
        /\ UNCHANGED driveObjects
    BY <1>16 DEF RecordOrphan
  <2>2. RowFits(w, V(p), driveObjects)
    BY <1>4, <1>5 DEF RowFits, VersionRow, Failed, MigrationStatus
  <2> HIDE DEF w
  <2> QED
    BY <1>8, <2>1, <2>2, Rests
<1>17. CASE ForgetMissing(p)
  <2> DEFINE w == [row[V(p)] EXCEPT !.remote = NoObject, !.record = NoObject]
  <2>1. row' = [row EXCEPT ![V(p)] = w] /\ op' = [op EXCEPT ![p] = [R EXCEPT !.pc = "fail"]]
        /\ UNCHANGED driveObjects
    BY <1>17 DEF ForgetMissing, OpGoto
  <2>2. RowFits(w, V(p), driveObjects)
    BY <1>5 DEF RowFits, VersionRow, ObjectIn, Ids
  <2>3. RunFits([R EXCEPT !.pc = "fail"], driveObjects)
    BY <1>7 DEF RunSteps, Ending, Holding
  <2> HIDE DEF w
  <2> QED
    BY <1>8, <2>1, <2>2, <2>3
<1>18. CASE RecordFailure(p)
  <2>1. row' = [row EXCEPT ![V(p)] = Failed(row[V(p)])] /\ op' = [op EXCEPT ![p] = AtRest]
        /\ UNCHANGED driveObjects
    BY <1>18 DEF RecordFailure
  <2>2. RowFits(Failed(row[V(p)]), V(p), driveObjects)
    BY <1>5 DEF RowFits, VersionRow, Failed, MigrationStatus
  <2> QED
    BY <1>8, <2>1, <2>2, Rests
<1> QED
  BY <1>9, <1>10, <1>13, <1>14, <1>15, <1>16, <1>17, <1>18

LEMMA CutoverFits == ASSUME MigrationInv, NEW p \in Operators, Cutover(p) PROVE MigrationInv'
<1>1. /\ RunsOK /\ op[p] \in Run /\ op[p].pc = "cutover"
      /\ V(p) \in Versions /\ row[V(p)] \in VersionRow /\ RowFits(row[V(p)], V(p), driveObjects)
      /\ SameVersions /\ ObjectsOK' /\ RestOK'
  <2>1. op[p] \in Run /\ op[p].pc = "cutover" /\ V(p) \in Versions /\ RunsOK
    BY DEF MigrationInv, RunsOK, RunFits, Cutover, OpAt, V
  <2> QED
    BY <2>1, Same DEF MigrationInv, RowsOK, RowFits, ObjectsOK, RestOK, Cutover
<1>2. RunFits([op[p] EXCEPT !.pc = "catch"], driveObjects)
  BY <1>1, Goes DEF RunSteps, Ending, Holding
<1>3. CASE CutoverResult(p) = "FAILED"
  <2>1. op' = [op EXCEPT ![p] = [op[p] EXCEPT !.pc = "catch"]] /\ UNCHANGED Others
    BY <1>3 DEF Cutover, OpGoto, Others
  <2> QED
    BY <1>1, <1>2, <2>1, RunMoves, OnlyRuns
<1>4. CASE CutoverResult(p) # "FAILED"
  <2> DEFINE w == [row[V(p)] EXCEPT !.status = CutoverResult(p),
                                    !.lease = NoOperator, !.live = FALSE]
  <2>1. row' = [row EXCEPT ![V(p)] = w] /\ Proceed(p, AtRest)
    BY <1>4 DEF Cutover
  <2>2. CutoverResult(p) \in {"STALE", "BLOCKED", "COMPLETED"}
    BY <1>4 DEF CutoverResult, Outcome
  <2>3. RowFits(w, V(p), driveObjects)
    BY <1>1, <2>2 DEF RowFits, VersionRow, MigrationStatus
  <2>4. \E r : op' = [op EXCEPT ![p] = r] /\ RunFits(r, driveObjects)
    BY <1>2, <2>1, Rests DEF Proceed, OpGoto
  <2>5. FileOK'
    <3>1. CASE CutoverResult(p) = "COMPLETED"
      <4>1. MayCutOver(p) /\ file' = [file EXCEPT !.backing = "DRIVE", !.linked = row[V(p)].record]
        BY <1>4, <3>1 DEF Cutover, CutoverResult
      <4> QED
        BY <1>1, <4>1 DEF MigrationInv, FileOK, FileRow, VersionRow, MayCutOver
    <3>2. CASE CutoverResult(p) # "COMPLETED"
      BY <1>4, <3>2 DEF Cutover, MigrationInv, FileOK
    <3> QED
      BY <3>1, <3>2
  <2> HIDE DEF w
  <2> QED
    BY <1>1, <2>1, <2>3, <2>4, <2>5, Writes
<1> QED
  BY <1>3, <1>4

LEMMA RollbackFits == ASSUME MigrationInv, NEW p \in Operators, Rollback(p) PROVE MigrationInv'
<1>1. /\ V(p) \in Versions /\ row \in [Versions -> VersionRow] /\ row[V(p)] \in VersionRow
      /\ RowFits(row[V(p)], V(p), driveObjects)
      /\ SameVersions /\ ObjectsOK' /\ RestOK'
  <2>1. V(p) \in Versions
    BY DEF MigrationInv, RunsOK, RunFits, Rollback, OpAt, V
  <2> QED
    BY <2>1, Same DEF MigrationInv, RowsOK, RowFits, ObjectsOK, RestOK, Rollback
<1>2. op' = [op EXCEPT ![p] = AtRest]
  BY DEF Rollback
<1>3. CASE MayRollBack(p)
  <2> DEFINE w == [row[V(p)] EXCEPT !.status = "ROLLED_BACK", !.lease = NoOperator, !.live = FALSE]
  <2>1. row' = [row EXCEPT ![V(p)] = w]
    BY <1>3 DEF Rollback
  <2>2. RowFits(w, V(p), driveObjects)
    BY <1>1 DEF RowFits, VersionRow, MigrationStatus
  <2>3. FileOK'
    BY <1>3 DEF Rollback, MigrationInv, FileOK, FileRow, Ids
  <2> HIDE DEF w
  <2> QED
    BY <1>1, <1>2, <2>1, <2>2, <2>3, Rests, Writes
<1>4. CASE ~MayRollBack(p)
  <2>1. UNCHANGED Others
    BY <1>4 DEF Rollback, Others
  <2>2. RunsOK'
    BY <1>1, <1>2, Rests, RunMoves DEF MigrationInv
  <2> QED
    BY <2>1, <2>2, OnlyRuns
<1> QED
  BY <1>3, <1>4

\* The steps that only mark objects, and the run that deletes or loses one.
LEMMA MarkFits ==
    ASSUME MigrationInv, NEW p \in Operators, DeleteFresh(p) \/ RunDies(p)
    PROVE MigrationInv'
<1>1. /\ RunsOK /\ op[p] \in Run /\ op[p].pc # "rest" /\ RunFits(op[p], driveObjects)
      /\ op[p].fresh \in Ids
  BY DEF MigrationInv, RunsOK, RunFits, Run, DeleteFresh, RunDies, OpAt
<1>2. ObjectsOK' /\ SameVersions
  <2>1. CASE DeleteFresh(p)
    BY <1>1, <2>1 DEF DeleteFresh, MigrationInv, ObjectsOK, SameVersions, DriveObject, Ids
  <2>2. CASE RunDies(p)
    BY <2>2 DEF RunDies, MigrationInv, ObjectsOK, SameVersions, DriveObject
  <2> QED
    BY <2>1, <2>2
<1>3. \E r : op' = [op EXCEPT ![p] = r] /\ RunFits(r, driveObjects)
  <2>1. CASE DeleteFresh(p)
    <3> DEFINE r == [op[p] EXCEPT !.pc = Settle(p), !.fresh = NoObject]
    <3>1. op' = [op EXCEPT ![p] = r]
      BY <1>1, <2>1 DEF DeleteFresh, MigrationInv, RunsOK, Run
    <3>2. RunFits(r, driveObjects)
      BY <1>1 DEF RunFits, Run, Settle, RunSteps, Ending, Holding, ObjectIn, Ids
    <3> HIDE DEF r
    <3> QED
      BY <3>1, <3>2
  <2>2. CASE RunDies(p)
    BY <2>2, Rests DEF RunDies
  <2> QED
    BY <2>1, <2>2
<1>4. RunsOK' /\ RowsOK'
  <2>1. UNCHANGED row
    BY DEF DeleteFresh, RunDies
  <2> QED
    BY <1>1, <1>2, <1>3, <2>1, RunMoves, RowsStay DEF MigrationInv
<1>5. FileOK' /\ RestOK'
  BY DEF DeleteFresh, RunDies, MigrationInv, FileOK, RestOK
<1> QED
  BY <1>2, <1>4, <1>5 DEF MigrationInv

\* An upload gives a new version only to an object nothing refers to.
LEMMA NewIsFree == (\E o \in ObjectIds : Free(o)) => NewObject \in ObjectIds /\ Free(NewObject)
BY DEF NewObject

LEMMA UploadFits == ASSUME MigrationInv, NEW p \in Operators, Upload(p) PROVE MigrationInv'
<1> DEFINE n == NewObject
           r == [op[p] EXCEPT !.pc = IF bytes = "intact" THEN "uploaded" ELSE "catch",
                              !.remote = n, !.fresh = n]
<1>1. n \in ObjectIds /\ Free(n) /\ n # NoObject /\ n \in Ids
  BY NewIsFree DEF Upload, ObjectIds, Ids
<1>2. /\ op \in [Operators -> Run] /\ op[p] \in Run /\ op[p].pc = "upload"
      /\ V(p) \in Versions /\ V(p) # 0
  BY DEF MigrationInv, RunsOK, RunFits, Upload, OpAt, V, Versions
<1>3. driveObjects' = [driveObjects EXCEPT ![n] = Uploaded(V(p))] /\ Uploaded(V(p)) \in DriveObject
  BY <1>2 DEF Upload, Uploaded, DriveObject
<1>4. op' = [op EXCEPT ![p] = r]
  BY <1>2 DEF Upload, Run
<1> HIDE DEF n
<1>5. ObjectsOK' /\ driveObjects'[n].version = V(p)
      /\ \A o \in ObjectIds \ {n} : driveObjects'[o].version = driveObjects[o].version
  BY <1>1, <1>3 DEF MigrationInv, ObjectsOK, Uploaded
<1>6. ASSUME NEW o, NEW v, o # n, ObjectIn(o, v, driveObjects)
      PROVE ObjectIn(o, v, driveObjects')
  BY <1>5, <1>6 DEF ObjectIn
<1>7. RowsOK'
  <2>1. UNCHANGED row
    BY DEF Upload
  <2>2. ASSUME NEW v \in Versions PROVE RowFits(row[v], v, driveObjects')
    <3>1. row[v].remote # n /\ row[v].record # n
      BY <1>1 DEF Free
    <3> QED
      BY <1>6, <3>1 DEF RowFits, MigrationInv, RowsOK
  <2> QED
    BY <2>1, <2>2 DEF MigrationInv, RowsOK
<1>8. RunsOK'
  <2>1. r \in Run /\ r.version = V(p) /\ r.remote = n /\ r.fresh = n /\ r.pc # "rest"
    BY <1>1, <1>2 DEF Run, RunSteps, Working, Ending, V
  <2>2. RunFits(r, driveObjects')
    <3> HIDE DEF r
    <3> QED
      BY <1>1, <1>2, <1>5, <2>1 DEF RunFits, ObjectIn
  <2> HIDE DEF r
  <2>3. ASSUME NEW q \in Operators PROVE RunFits(op'[q], driveObjects')
    <3>1. CASE q = p
      BY <1>2, <1>4, <2>2, <3>1
    <3>2. CASE q # p
      <4>1. op'[q] = op[q] /\ op[q].remote # n /\ op[q].fresh # n
        BY <1>1, <1>2, <1>4, <3>2 DEF Free
      <4> QED
        BY <1>6, <4>1 DEF MigrationInv, RunsOK, RunFits
    <3> QED
      BY <3>1, <3>2
  <2> QED
    BY <1>2, <1>4, <2>1, <2>3 DEF RunsOK
<1>9. FileOK' /\ RestOK'
  BY DEF Upload, MigrationInv, FileOK, RestOK
<1> QED
  BY <1>5, <1>7, <1>8, <1>9 DEF MigrationInv

\* An upload whose answer is lost does the same to Drive, and the run holds nothing.
LEMMA LostUploadFits ==
    ASSUME MigrationInv, NEW p \in Operators, LoseUploadAnswer(p) PROVE MigrationInv'
<1> DEFINE n == NewObject
           r == [op[p] EXCEPT !.pc = "catch"]
           o1 == [Uploaded(V(p)) EXCEPT !.lost = TRUE]
<1>1. n \in ObjectIds /\ Free(n) /\ n # NoObject /\ n \in Ids
  BY NewIsFree DEF LoseUploadAnswer, ObjectIds, Ids
<1>2. /\ op \in [Operators -> Run] /\ op[p] \in Run /\ op[p].pc = "upload"
      /\ RunFits(op[p], driveObjects) /\ V(p) \in Versions /\ V(p) # 0
  BY DEF MigrationInv, RunsOK, RunFits, LoseUploadAnswer, OpAt, V, Versions
<1>3. driveObjects' = [driveObjects EXCEPT ![n] = o1] /\ o1 \in DriveObject /\ o1.version = V(p)
  BY <1>2 DEF LoseUploadAnswer, Uploaded, DriveObject
<1>4. op' = [op EXCEPT ![p] = r]
  BY <1>2 DEF LoseUploadAnswer, OpGoto, Run
<1> HIDE DEF n, o1
<1>5. ObjectsOK'
      /\ \A o \in ObjectIds \ {n} : driveObjects'[o].version = driveObjects[o].version
  BY <1>1, <1>3 DEF MigrationInv, ObjectsOK
<1>6. ASSUME NEW o, NEW v, o # n, ObjectIn(o, v, driveObjects)
      PROVE ObjectIn(o, v, driveObjects')
  BY <1>5, <1>6 DEF ObjectIn
<1>7. RowsOK'
  <2>1. UNCHANGED row
    BY DEF LoseUploadAnswer
  <2>2. ASSUME NEW v \in Versions PROVE RowFits(row[v], v, driveObjects')
    <3>1. row[v].remote # n /\ row[v].record # n
      BY <1>1 DEF Free
    <3> QED
      BY <1>6, <3>1 DEF RowFits, MigrationInv, RowsOK
  <2> QED
    BY <2>1, <2>2 DEF MigrationInv, RowsOK
<1>8. RunsOK'
  <2>1. /\ r \in Run /\ r.version = op[p].version /\ r.remote = op[p].remote
        /\ r.fresh = op[p].fresh /\ r.pc = "catch"
    BY <1>2 DEF Run, RunSteps, Ending
  <2>2. RunFits(r, driveObjects)
    <3> HIDE DEF r
    <3> QED
      BY <1>2, <2>1 DEF RunFits, Holding
  <2> HIDE DEF r
  <2>3. ASSUME NEW q \in Operators PROVE RunFits(op'[q], driveObjects')
    <3>1. RunFits(op'[q], driveObjects) /\ op'[q].remote # n /\ op'[q].fresh # n
      BY <1>1, <1>2, <1>4, <2>1, <2>2 DEF Free, MigrationInv, RunsOK
    <3> QED
      BY <1>6, <3>1 DEF RunFits
  <2> QED
    BY <1>2, <1>4, <2>1, <2>3 DEF RunsOK
<1>9. FileOK' /\ RestOK'
  BY DEF LoseUploadAnswer, MigrationInv, FileOK, RestOK
<1> QED
  BY <1>5, <1>7, <1>8, <1>9 DEF MigrationInv

LEMMA SurroundingsFit ==
    ASSUME MigrationInv,
           (\E v \in Versions : LateLease(v) \/ DeadLease(v))
             \/ CreateVersion \/ Damage \/ Repair \/ ResolveEditing
    PROVE MigrationInv'
<1>1. ASSUME NEW v \in Versions, LateLease(v) \/ DeadLease(v) PROVE MigrationInv'
  <2> DEFINE w == [row[v] EXCEPT !.live = FALSE]
  <2>1. row' = [row EXCEPT ![v] = w] /\ UNCHANGED <<file, driveObjects, bytes, overlapped, op>>
    BY <1>1 DEF LateLease, DeadLease
  <2>2. RowFits(w, v, driveObjects)
    BY DEF MigrationInv, RowsOK, RowFits, VersionRow
  <2> HIDE DEF w
  <2> QED
    BY <2>1, <2>2, Same, RowMoves, RunsStay, OnlyRunsAndRows DEF MigrationInv
<1>2. ASSUME CreateVersion \/ Damage \/ Repair \/ ResolveEditing PROVE MigrationInv'
  <2>1. UNCHANGED <<row, driveObjects, op, overlapped>>
    BY <1>2 DEF CreateVersion, Damage, Repair, ResolveEditing
  <2>2. RowsOK' /\ RunsOK' /\ ObjectsOK'
    BY <2>1, Same, RowsStay, RunsStay DEF MigrationInv, ObjectsOK
  <2>3. FileOK'
    <3>1. CASE CreateVersion
      BY <3>1 DEF CreateVersion, MigrationInv, FileOK, FileRow, Versions
    <3>2. CASE ~CreateVersion
      BY <1>2, <3>2 DEF Damage, Repair, ResolveEditing, MigrationInv, FileOK
    <3> QED
      BY <3>1, <3>2
  <2>4. RestOK'
    BY <1>2, <2>1 DEF CreateVersion, Damage, Repair, ResolveEditing, MigrationInv, RestOK
  <2> QED
    BY <2>2, <2>3, <2>4 DEF MigrationInv
<1> QED
  BY <1>1, <1>2

LEMMA MigrationStepFits == MigrationInv /\ [MigrationNext]_migrationVars => MigrationInv'
<1> SUFFICES ASSUME MigrationInv, [MigrationNext]_migrationVars PROVE MigrationInv'
  OBVIOUS
<1>1. ASSUME NEW p \in Operators,
             MigrateStep(p) \/ LoseUploadAnswer(p) \/ FailDelete(p) \/ RunFails(p)
               \/ RunDies(p) \/ RollbackRead(p)
      PROVE MigrationInv'
  BY <1>1, MoveFits, WriteFits, CutoverFits, RollbackFits, MarkFits, UploadFits,
     LostUploadFits DEF MigrateStep
<1>2. CASE UNCHANGED migrationVars
  BY <1>2, Same, RowsStay, RunsStay, OnlyRunsAndRows DEF migrationVars, MigrationInv
<1> QED
  BY <1>1, <1>2, SurroundingsFit DEF MigrationNext

LEMMA MigrationTyped == MigrationInv => MigrationTypeOK
BY DEF MigrationInv, FileOK, RowsOK, RunsOK, RestOK, RowFits, RunFits, ObjectIn, Object,
       FileRow, VersionRow, MigrationTypeOK, V

\* Every table, every object of Drive and every run keeps its type, and what
\* refers to an object refers to one that was uploaded for the same version:
\* however runs overlap, leases run out, steps fail and processes die.
THEOREM MigrationTypes == MigrationSpec => []MigrationTypeOK
BY MigrationTyped, MigrationInitFits, MigrationStepFits, PTL DEF MigrationSpec

Forward == file.backing = "LOCAL" /\ file'.backing = "DRIVE" =>
             driveObjects[file'.linked].version = file.current
Back == file.backing = "DRIVE" /\ file'.backing = "LOCAL" =>
             /\ driveObjects[file.linked].version = file.current
             /\ row'[file.current].status = "ROLLED_BACK"

LEMMA BackingMoves == MigrationInv /\ [MigrationNext]_migrationVars => Forward /\ Back
<1> USE DEF Forward, Back
<1>1. ASSUME MigrationInv, NEW p \in Operators, Cutover(p) PROVE Forward /\ Back
  <2>1. CASE CutoverResult(p) = "COMPLETED"
    <3>1. MayCutOver(p) /\ file.current = V(p)
      BY <2>1 DEF CutoverResult, Outcome
    <3>2. file' = [file EXCEPT !.backing = "DRIVE", !.linked = row[V(p)].record]
      BY <1>1, <2>1 DEF Cutover
    <3>3. V(p) \in Versions /\ file \in FileRow
      BY <1>1, <3>1 DEF MigrationInv, FileOK, FileRow
    <3>4. driveObjects[row[V(p)].record].version = V(p)
      BY <1>1, <3>1, <3>3 DEF MigrationInv, RowsOK, RowFits, ObjectIn, MayCutOver
    <3> QED
      BY <3>1, <3>2, <3>3, <3>4 DEF FileRow
  <2>2. CASE CutoverResult(p) # "COMPLETED"
    BY <1>1, <2>2 DEF Cutover
  <2> QED
    BY <2>1, <2>2
<1>2. ASSUME MigrationInv, NEW p \in Operators, Rollback(p) PROVE Forward /\ Back
  <2>1. CASE MayRollBack(p)
    <3>1. /\ file' = [file EXCEPT !.backing = "LOCAL", !.linked = NoObject]
          /\ row' = [row EXCEPT ![V(p)] = [row[V(p)] EXCEPT !.status = "ROLLED_BACK",
                                          !.lease = NoOperator, !.live = FALSE]]
      BY <1>2, <2>1 DEF Rollback
    <3>2. file \in FileRow /\ file.current = V(p) /\ V(p) \in Versions /\ V(p) # 0
          /\ file.linked # NoObject /\ file.linked = op[p].remote
          /\ row \in [Versions -> VersionRow] /\ row[V(p)] \in VersionRow
      BY <1>2, <2>1 DEF MayRollBack, MigrationInv, FileOK, FileRow, RowsOK, Versions
    <3>3. driveObjects[file.linked].version = V(p)
      BY <1>2, <3>2 DEF MigrationInv, RunsOK, RunFits, ObjectIn, V
    <3>4. row'[V(p)].status = "ROLLED_BACK"
      BY <3>1, <3>2 DEF VersionRow
    <3> QED
      BY <3>1, <3>2, <3>3, <3>4 DEF FileRow
  <2>2. CASE ~MayRollBack(p)
    BY <1>2, <2>2 DEF Rollback
  <2> QED
    BY <2>1, <2>2
<1>3. ASSUME MigrationInv, CreateVersion PROVE Forward /\ Back
  BY <1>3 DEF CreateVersion, MigrationInv, FileOK, FileRow
<1>4. ASSUME MigrationInv, [MigrationNext]_migrationVars PROVE Forward /\ Back
  <2>1. ASSUME UNCHANGED file PROVE Forward /\ Back
    BY <2>1
  <2>2. ASSUME NEW p \in Operators,
               MigrateStep(p) \/ LoseUploadAnswer(p) \/ FailDelete(p) \/ RunFails(p)
               \/ RunDies(p) \/ RollbackRead(p)
        PROVE UNCHANGED file \/ Cutover(p) \/ Rollback(p)
    BY <2>2 DEF MigrateStep, Load, CheckSource, RecordBlocked, ReadRow, ClaimRow, Upload,
           LoseUploadAnswer, UploadNothing, MarkUploaded, Fetch, RecordVerifying, RegisterVerified, SkipDelete,
           DeleteFresh, RecordOrphan, ForgetMissing, RecordFailure, FailDelete, RunFails,
           RunDies, RollbackRead
  <2>3. ASSUME (\E v \in Versions : LateLease(v) \/ DeadLease(v))
                 \/ Damage \/ Repair \/ ResolveEditing \/ UNCHANGED migrationVars
        PROVE UNCHANGED file
    BY <2>3 DEF LateLease, DeadLease, Damage, Repair, ResolveEditing, migrationVars
  <2> HIDE DEF Forward, Back
  <2> QED
    BY <1>1, <1>2, <1>3, <1>4, <2>1, <2>2, <2>3 DEF MigrationNext
<1> QED
  BY <1>4

LEMMA BackingSteps ==
    MigrationInv /\ [MigrationNext]_migrationVars =>
      [/\ file.backing = "LOCAL" /\ file'.backing = "DRIVE" =>
            driveObjects[file'.linked].version = file.current
       /\ file.backing = "DRIVE" /\ file'.backing = "LOCAL" =>
            /\ driveObjects[file.linked].version = file.current
            /\ row'[file.current].status = "ROLLED_BACK"]_migrationVars
BY BackingMoves DEF Forward, Back

\* A file moves to the object of its current version or not at all, and back to
\* its local bytes only while the migrated version is the current one.
THEOREM MigrationFollowsVersion == MigrationSpec => BackingFollowsVersion
BY BackingSteps, MigrationInitFits, MigrationStepFits, PTL DEF MigrationSpec, BackingFollowsVersion

-----------------------------------------------------------------------------
(* No object is left behind.                                               *)

\* A run holds a fresh object from its upload until it is registered or its error
\* path is over, and knows no vanished object while it works.
FreshFits(r) ==
    /\ r.fresh # NoObject => r.pc \in {"uploaded", "fetch", "fetched", "verify",
                                       "catch", "orphan"}
    /\ r.pc \in Working \ {"upload"} => r.fresh \in {NoObject, r.remote}
    /\ r.pc = "orphan" => r.fresh # NoObject
    /\ r.pc \notin Ending => ~r.missing

ThereIn(o, objects) == o \in ObjectIds /\ objects[o].there

\* What the row of a run's version refers to: nothing before the upload is
\* recorded, the run's object after it, one that is gone before it is forgotten.
LinkFits(r, target, objects) ==
    /\ r.pc \in {"upload", "uploaded"} => target = NoObject
    /\ r.pc = "uploaded" => r.fresh = r.remote
    /\ r.pc \in Holding \ {"uploaded"} => target = r.remote
    /\ r.pc \in {"catch", "orphan"} /\ r.fresh # NoObject => target \in {NoObject, r.fresh}
    /\ r.pc = "forget" \/ (r.pc = "catch" /\ r.missing) => ~ThereIn(target, objects)

Moving(r) == r.pc \in Working \cup Ending
SoleRun == \A p, q \in Operators :
             p # q /\ Moving(op[p]) /\ Moving(op[q]) => V(p) # V(q)

TrackedInv ==
    /\ MigrationInv
    /\ \A p \in Operators : FreshFits(op[p])
    /\ ~overlapped => /\ SoleRun
                      /\ \A p \in Operators :
                           LinkFits(op[p], row[V(p)].remote, driveObjects)
                      /\ \A o \in ObjectIds : driveObjects[o].there =>
                           driveObjects[o].version \in Versions
    /\ ObjectsAreTracked

\* What a step of run p to r keeps: the rows it does not own, every object and its
\* marks, and somebody who knows of each.
RemotesKept(p) == \A v \in Versions :
    row'[v].remote = row[v].remote \/ (v = V(p) /\ Moving(op[p]))
Kept(o) ==
    /\ driveObjects[o].there /\ driveObjects'[o].version = driveObjects[o].version
    /\ driveObjects[o].registered => driveObjects'[o].registered
    /\ driveObjects[o].lost => driveObjects'[o].lost
ObjectsKept(r) == \A o \in ObjectIds :
    driveObjects'[o].there =>
      \/ Kept(o)
      \/ /\ o = r.fresh \/ driveObjects'[o].lost
         /\ driveObjects'[o].version \in Versions
         /\ \A v \in Versions : row[v].remote # o
Handed(p, r) == \A o \in ObjectIds :
    /\ driveObjects'[o].there /\ op[p].fresh = o =>
         \/ r.fresh = o \/ driveObjects'[o].registered \/ driveObjects'[o].lost
         \/ row'[driveObjects[o].version].remote = o
    /\ driveObjects'[o].there /\ Kept(o) /\ row[driveObjects[o].version].remote = o =>
         row'[driveObjects[o].version].remote = o
Enters(p, r) == Moving(r) =>
    /\ r.version = V(p)
    /\ Moving(op[p]) \/ \A q \in Operators \ {p} : ~Transfers(q, V(p))

LEMMA TrackedStep ==
    ASSUME TrackedInv, MigrationInv', NEW p \in Operators, NEW r,
           op' = [op EXCEPT ![p] = r], overlapped => overlapped', FreshFits(r),
           ~overlapped' => /\ LinkFits(r, row'[r.version].remote, driveObjects')
                           /\ Enters(p, r) /\ RemotesKept(p)
                           /\ ObjectsKept(r) /\ Handed(p, r)
    PROVE TrackedInv'
<1>1. /\ op \in [Operators -> Run] /\ op'[p] = r
      /\ \A q \in Operators \ {p} : op'[q] = op[q]
  BY DEF TrackedInv, MigrationInv, RunsOK
<1>2. \A q \in Operators : FreshFits(op'[q])
  BY <1>1 DEF TrackedInv
<1>3. ASSUME ~overlapped' PROVE SoleRun'
  <2> SUFFICES ASSUME NEW a \in Operators, NEW b \in Operators, a # b,
                      Moving(op'[a]), Moving(op'[b]), op'[a].version = op'[b].version
               PROVE FALSE
    BY DEF SoleRun, Moving, V
  <2>1. SoleRun /\ Enters(p, r)
    BY <1>3 DEF TrackedInv
  <2>2. CASE a # p /\ b # p
    BY <1>1, <2>1, <2>2 DEF SoleRun, V
  <2>3. ASSUME NEW q \in Operators, q # p, Moving(op'[q]), Moving(r), op'[q].version = r.version
        PROVE FALSE
    <3>1. Transfers(q, V(p))
      BY <1>1, <2>1, <2>3 DEF Enters, Transfers, Moving, V
    <3> QED
      BY <2>1, <2>3, <3>1 DEF Enters, Transfers, SoleRun, Moving
  <2> QED
    BY <1>1, <2>2, <2>3
<1>4. ASSUME ~overlapped', NEW q \in Operators
      PROVE LinkFits(op'[q], row'[op'[q].version].remote, driveObjects')
  <2>1. CASE q = p
    BY <1>1, <1>4, <2>1
  <2>2. CASE q # p /\ Moving(op[q])
    <3>1. op'[q] = op[q] /\ V(q) \in Versions
      BY <1>1, <2>2 DEF TrackedInv, MigrationInv, RunsOK, RunFits, Moving, Working, Ending, V
    <3>2. row'[V(q)].remote = row[V(q)].remote
      BY <1>4, <2>2, <3>1 DEF TrackedInv, SoleRun, RemotesKept
    <3>3. LinkFits(op[q], row[V(q)].remote, driveObjects)
      BY <1>4 DEF TrackedInv
    <3>4. ThereIn(row[V(q)].remote, driveObjects') => ThereIn(row[V(q)].remote, driveObjects)
      BY <1>4, <3>1 DEF ThereIn, ObjectsKept, Kept
    <3> QED
      BY <3>1, <3>2, <3>3, <3>4 DEF LinkFits, V
  <2>3. CASE q # p /\ ~Moving(op[q])
    BY <1>1, <2>3 DEF LinkFits, Moving, Working, Ending, Holding
  <2> QED
    BY <2>1, <2>2, <2>3
<1>5. ASSUME ~overlapped', NEW o \in ObjectIds, driveObjects'[o].there
      PROVE \/ driveObjects'[o].registered \/ driveObjects'[o].lost
            \/ row'[driveObjects'[o].version].remote = o
            \/ \E q \in Operators : op'[q].fresh = o
  <2>1. CASE r.fresh = o \/ driveObjects'[o].lost
    BY <1>1, <2>1
  <2>2. CASE r.fresh # o /\ ~driveObjects'[o].lost
    <3>1. Kept(o) /\ Handed(p, r)
      BY <1>5, <2>2 DEF ObjectsKept
    <3>2. \/ driveObjects[o].registered \/ driveObjects[o].lost
          \/ row[driveObjects[o].version].remote = o
          \/ \E q \in Operators : op[q].fresh = o
      BY <1>5, <3>1 DEF TrackedInv, ObjectsAreTracked, Kept
    <3>3. ASSUME NEW q \in Operators, op[q].fresh = o
          PROVE \/ driveObjects'[o].registered \/ driveObjects'[o].lost
                \/ row'[driveObjects'[o].version].remote = o
                \/ \E x \in Operators : op'[x].fresh = o
      BY <1>1, <1>5, <2>2, <3>1, <3>3 DEF Handed, Kept
    <3> QED
      BY <1>5, <3>1, <3>2, <3>3 DEF Handed, Kept
  <2> QED
    BY <2>1, <2>2
<1>6. ASSUME ~overlapped', NEW o \in ObjectIds, driveObjects'[o].there
      PROVE driveObjects'[o].version \in Versions
  BY <1>6 DEF TrackedInv, ObjectsKept, Kept
<1> QED
  BY <1>2, <1>3, <1>4, <1>5, <1>6 DEF TrackedInv, ObjectsAreTracked, V

\* Steps that write no remote object into a row and mark none.
LEMMA TrackedMove ==
    ASSUME TrackedInv, MigrationInv', NEW p \in Operators, NEW r,
           op' = [op EXCEPT ![p] = r], UNCHANGED driveObjects, overlapped => overlapped',
           \A v \in Versions : row'[v].remote = row[v].remote,
           FreshFits(r), r.fresh = op[p].fresh,
           ~overlapped' => /\ Moving(r) => LinkFits(r, row[V(p)].remote, driveObjects)
                           /\ Enters(p, r)
    PROVE TrackedInv'
<1>1. RemotesKept(p) /\ ObjectsKept(r)
  BY DEF RemotesKept, ObjectsKept, Kept
<1>2. ASSUME ~overlapped' PROVE Handed(p, r)
  BY <1>2 DEF Handed, Kept, TrackedInv
<1>3. ASSUME ~overlapped' PROVE LinkFits(r, row'[r.version].remote, driveObjects')
  <2>1. CASE Moving(r)
    <3>1. r.version = V(p) /\ LinkFits(r, row[V(p)].remote, driveObjects)
      BY <1>3, <2>1 DEF Enters
    <3>2. V(p) \in Versions
      <4>1. op'[p] = r /\ RunFits(op'[p], driveObjects')
        BY DEF TrackedInv, MigrationInv, RunsOK
      <4> QED
        BY <2>1, <3>1, <4>1 DEF RunFits, Moving, Working, Ending
    <3> QED
      BY <3>1, <3>2
  <2>2. CASE ~Moving(r)
    BY <2>2 DEF LinkFits, Moving, Working, Ending, Holding
  <2> QED
    BY <2>1, <2>2
<1> QED
  BY <1>1, <1>2, <1>3, TrackedStep

\* Before the upload, and outside the transfer, a run moves by itself.
LEMMA TrackedQuiet ==
    ASSUME TrackedInv, MigrationInv', NEW p \in Operators, NEW r \in Run,
           op' = [op EXCEPT ![p] = r], UNCHANGED driveObjects, overlapped => overlapped',
           \A v \in Versions : row'[v].remote = row[v].remote,
           ~Moving(r), r.fresh = NoObject, op[p].fresh = NoObject, ~r.missing
    PROVE TrackedInv'
<1>1. FreshFits(r)
  BY DEF FreshFits, Moving, Ending, Working
<1>2. Enters(p, r)
  BY DEF Enters
<1> QED
  BY <1>1, <1>2, TrackedMove

LEMMA TrackedRun ==
    ASSUME TrackedInv, NEW p \in Operators
    PROVE  /\ op \in [Operators -> Run] /\ op[p] \in Run /\ FreshFits(op[p])
           /\ op[p].pc # "rest" => V(p) \in Versions /\ row[V(p)] \in VersionRow
           /\ row \in [Versions -> VersionRow]
           /\ ~overlapped => LinkFits(op[p], row[V(p)].remote, driveObjects)
BY DEF TrackedInv, MigrationInv, RunsOK, RunFits, RowsOK, V

LEMMA TrackedOutside ==
    ASSUME TrackedInv, MigrationInv', NEW p \in Operators,
           Load(p) \/ CheckSource(p) \/ RecordBlocked(p) \/ ReadRow(p)
             \/ RollbackRead(p) \/ Rollback(p)
    PROVE TrackedInv'
<1>1. /\ op \in [Operators -> Run] /\ op[p] \in Run /\ FreshFits(op[p]) /\ ~Moving(op[p])
      /\ op[p].fresh = NoObject /\ ~op[p].missing /\ UNCHANGED <<driveObjects, overlapped>>
  BY TrackedRun DEF FreshFits, Moving, Working, Ending, OpAt,
     Load, CheckSource, RecordBlocked, ReadRow, RollbackRead, Rollback
<1>2. \A v \in Versions : row'[v].remote = row[v].remote
  <2>1. CASE UNCHANGED row
    BY <2>1
  <2>2. ASSUME NEW s, row' = [row EXCEPT ![V(p)] = [row[V(p)] EXCEPT
                 !.status = s, !.lease = NoOperator, !.live = FALSE]]
        PROVE \A v \in Versions : row'[v].remote = row[v].remote
    BY <2>2, TrackedRun DEF VersionRow
  <2> QED
    BY <2>1, <2>2 DEF Load, CheckSource, RecordBlocked, ReadRow, RollbackRead, Rollback
<1>3. ASSUME NEW r \in Run, op' = [op EXCEPT ![p] = r], ~Moving(r), r.fresh = NoObject, ~r.missing
      PROVE TrackedInv'
  BY <1>1, <1>2, <1>3, TrackedQuiet
<1>4. AtRest \in Run /\ ~Moving(AtRest) /\ AtRest.fresh = NoObject /\ ~AtRest.missing
  BY DEF AtRest, Run, RunSteps, Ids, Moving, Working, Ending
<1>5. /\ op'[p] \in Run /\ ~Moving(op'[p]) /\ op'[p].fresh = NoObject /\ ~op'[p].missing
      /\ op' = [op EXCEPT ![p] = op'[p]]
  <2>1. op'[p] \in Run
    BY DEF TrackedInv, MigrationInv, RunsOK
  <2>2. CASE Load(p)
    BY <1>1, <1>4, <2>1, <2>2 DEF Load, AtRest, Moving, Working, Ending
  <2>3. CASE CheckSource(p)
    BY <1>1, <2>1, <2>3 DEF CheckSource, OpGoto, Moving, Working, Ending, Run
  <2>4. CASE RecordBlocked(p)
    BY <1>1, <1>4, <2>1, <2>4 DEF RecordBlocked
  <2>5. CASE ReadRow(p)
    BY <1>1, <1>4, <2>1, <2>5 DEF ReadRow, Moving, Working, Ending, Run
  <2>6. CASE RollbackRead(p)
    BY <1>1, <1>4, <2>1, <2>6 DEF RollbackRead, AtRest, Moving, Working, Ending
  <2>7. CASE Rollback(p)
    BY <1>1, <1>4, <2>1, <2>7 DEF Rollback
  <2> QED
    BY <2>2, <2>3, <2>4, <2>5, <2>6, <2>7
<1> QED
  BY <1>3, <1>5

\* A claim takes a version nobody works on, or is counted as an overlap.
LEMMA TrackedClaim ==
    ASSUME TrackedInv, MigrationInv', NEW p \in Operators, ClaimRow(p) PROVE TrackedInv'
<1>1. /\ op \in [Operators -> Run] /\ op[p] \in Run /\ op[p].pc = "claim"
      /\ V(p) \in Versions /\ row[V(p)] \in VersionRow /\ row \in [Versions -> VersionRow]
      /\ op[p].fresh = NoObject /\ ~op[p].missing /\ UNCHANGED driveObjects
      /\ overlapped => overlapped'
  BY TrackedRun DEF FreshFits, Ending, OpAt, ClaimRow
<1>2. CASE UNCHANGED row /\ op' = [op EXCEPT ![p] = AtRest]
  <2>1. AtRest \in Run /\ ~Moving(AtRest) /\ AtRest.fresh = NoObject /\ ~AtRest.missing
    BY DEF AtRest, Run, RunSteps, Ids, Moving, Working, Ending
  <2> QED
    BY <1>1, <1>2, <2>1, TrackedQuiet
<1>3. CASE ~(UNCHANGED row /\ op' = [op EXCEPT ![p] = AtRest])
  <2> DEFINE target == row[V(p)].remote
             next == IF target = NoObject THEN "upload" ELSE "fetch"
             r == [op[p] EXCEPT !.pc = next, !.claimed = target, !.remote = target]
  <2>1. /\ row' = [row EXCEPT ![V(p)] = [row[V(p)] EXCEPT
                     !.status = "UPLOADING", !.lease = p, !.live = TRUE]]
        /\ op' = [op EXCEPT ![p].pc = next, ![p].claimed = target, ![p].remote = target]
    BY <1>3 DEF ClaimRow
  <2>2. \A v \in Versions : row'[v].remote = row[v].remote
    BY <1>1, <2>1 DEF VersionRow
  <2>3. op' = [op EXCEPT ![p] = r]
    BY <1>1, <2>1 DEF Run
  <2>4. /\ r.pc = next /\ r.version = V(p) /\ r.remote = target /\ r.fresh = NoObject
        /\ ~r.missing
    BY <1>1 DEF Run, V
  <2>5. op'[p].pc = next
    BY <1>1, <2>3, <2>4
  <2> HIDE DEF r
  <2>6. FreshFits(r)
    BY <2>4 DEF FreshFits, Working, Ending
  <2>7. LinkFits(r, target, driveObjects)
    BY <2>4 DEF LinkFits, Holding
  <2>8. ASSUME ~overlapped' PROVE Enters(p, r)
    <3>1. next \in Working
      BY DEF Working
    <3>2. \A q \in Operators \ {p} : ~Transfers(q, V(p))
      BY <1>1, <2>5, <2>8, <3>1 DEF ClaimRow, OpAt
    <3> QED
      BY <2>4, <3>2 DEF Enters
  <2> QED
    BY <1>1, <2>2, <2>3, <2>4, <2>6, <2>7, <2>8, TrackedMove
<1> QED
  BY <1>2, <1>3

LEMMA TrackedUpload ==
    ASSUME TrackedInv, MigrationInv', NEW p \in Operators, Upload(p) PROVE TrackedInv'
<1> DEFINE n == NewObject
           r == op'[p]
<1>1. /\ op \in [Operators -> Run] /\ op[p] \in Run /\ op[p].pc = "upload"
      /\ V(p) \in Versions /\ row[V(p)] \in VersionRow /\ op[p].fresh = NoObject /\ ~op[p].missing
      /\ ~overlapped => row[V(p)].remote = NoObject
      /\ UNCHANGED <<row, overlapped>>
  BY TrackedRun DEF FreshFits, LinkFits, Ending, OpAt, Upload
<1>2. n \in ObjectIds /\ n # NoObject /\ ~There(n) /\ \A v \in Versions : row[v].remote # n
  BY NewIsFree DEF Upload, ObjectIds, Free
<1>3. driveObjects' = [driveObjects EXCEPT ![n] = Uploaded(V(p))]
  BY DEF Upload
<1>4. /\ op' = [op EXCEPT ![p] = r] /\ r.pc \in {"uploaded", "catch"} /\ r.version = V(p)
      /\ r.remote = n /\ r.fresh = n /\ ~r.missing
  <2> HIDE DEF n
  <2> QED
    BY <1>1 DEF Upload, Run, V, n
<1> HIDE DEF n, r
<1>5. FreshFits(r)
  BY <1>2, <1>4 DEF FreshFits, Ending
<1>6. Enters(p, r) /\ RemotesKept(p)
  BY <1>1, <1>4 DEF Enters, RemotesKept, Moving, Working
<1>7. ASSUME ~overlapped' PROVE LinkFits(r, row'[r.version].remote, driveObjects')
  BY <1>1, <1>2, <1>4, <1>7 DEF LinkFits, Holding
<1>8. ObjectsKept(r)
  BY <1>1, <1>2, <1>3, <1>4 DEF ObjectsKept, Kept, Uploaded, TrackedInv, MigrationInv, ObjectsOK
<1>9. Handed(p, r)
  BY <1>1 DEF Handed, ObjectIds
<1> QED
  BY <1>1, <1>4, <1>5, <1>6, <1>7, <1>8, <1>9, TrackedStep

\* An object whose upload was not answered is nobody's from the start.
LEMMA TrackedLostUpload ==
    ASSUME TrackedInv, MigrationInv', NEW p \in Operators, LoseUploadAnswer(p) PROVE TrackedInv'
<1> DEFINE n == NewObject
           r == op'[p]
<1>1. /\ op \in [Operators -> Run] /\ op[p] \in Run /\ op[p].pc = "upload"
      /\ V(p) \in Versions /\ row[V(p)] \in VersionRow /\ op[p].fresh = NoObject /\ ~op[p].missing
      /\ UNCHANGED <<row, overlapped>>
  BY TrackedRun DEF FreshFits, Ending, OpAt, LoseUploadAnswer
<1>2. n \in ObjectIds /\ n # NoObject /\ ~There(n) /\ \A v \in Versions : row[v].remote # n
  BY NewIsFree DEF LoseUploadAnswer, ObjectIds, Free
<1>3. driveObjects' = [driveObjects EXCEPT ![n] = [Uploaded(V(p)) EXCEPT !.lost = TRUE]]
  BY DEF LoseUploadAnswer
<1>4. /\ op' = [op EXCEPT ![p] = r] /\ r.pc = "catch" /\ r.version = V(p)
      /\ r.fresh = NoObject /\ ~r.missing
  BY <1>1 DEF LoseUploadAnswer, OpGoto, Run, V
<1> HIDE DEF n, r
<1>5. FreshFits(r)
  BY <1>4 DEF FreshFits, Working, Ending
<1>6. Enters(p, r) /\ RemotesKept(p)
  BY <1>1, <1>4 DEF Enters, RemotesKept, Moving, Working
<1>7. LinkFits(r, row'[r.version].remote, driveObjects')
  BY <1>4 DEF LinkFits, Holding
<1>8. ObjectsKept(r)
  BY <1>1, <1>2, <1>3 DEF ObjectsKept, Kept, Uploaded, TrackedInv, MigrationInv, ObjectsOK
<1>9. Handed(p, r)
  BY <1>1 DEF Handed, ObjectIds
<1> QED
  BY <1>1, <1>4, <1>5, <1>6, <1>7, <1>8, <1>9, TrackedStep

\* The error path's own steps, and a transfer that stops.
LEMMA TrackedStops ==
    ASSUME TrackedInv, MigrationInv', NEW p \in Operators,
           UploadNothing(p) \/ Fetch(p) \/ SkipDelete(p) \/ FailDelete(p) \/ RunFails(p)
    PROVE TrackedInv'
<1> DEFINE r == op'[p]
           target == row[V(p)].remote
<1>1. /\ op \in [Operators -> Run] /\ op[p] \in Run /\ Moving(op[p])
      /\ UNCHANGED <<row, driveObjects, overlapped>>
  BY TrackedRun DEF Moving, Working, Ending, OpAt,
     UploadNothing, Fetch, SkipDelete, FailDelete, RunFails
<1>2. FreshFits(op[p]) /\ (~overlapped => LinkFits(op[p], target, driveObjects))
  BY TrackedRun
<1>3. /\ op' = [op EXCEPT ![p] = r] /\ r.version = V(p) /\ r.fresh = op[p].fresh
      /\ r.remote = op[p].remote
  BY <1>1 DEF Run, V, OpGoto, UploadNothing, Fetch, SkipDelete, FailDelete, RunFails
<1>4. \/ op[p].pc = "fetch" /\ r.pc = "fetched" /\ r.missing = op[p].missing
      \/ op[p].pc = "fetch" /\ ~There(op[p].remote) /\ r.pc = "catch" /\ r.missing
      \/ op[p].pc \in Working /\ r.pc = "catch" /\ r.missing = op[p].missing
      \/ op[p].pc = "catch" /\ r.pc = "orphan" /\ op[p].fresh # NoObject
      \/ op[p].pc = "catch" /\ r.pc = "fail" /\ op[p].fresh = NoObject
      \/ op[p].pc = "catch" /\ r.pc = "forget" /\ op[p].fresh = NoObject /\ op[p].missing
  BY <1>1 DEF Run, OpAt, OpGoto, Settle, Working, UploadNothing, Fetch, SkipDelete,
     FailDelete, RunFails
<1> HIDE DEF r, target
<1>5. FreshFits(r)
  BY <1>2, <1>3, <1>4 DEF FreshFits, Working, Ending
<1>6. ASSUME ~overlapped PROVE LinkFits(r, target, driveObjects)
  BY <1>2, <1>3, <1>4, <1>6 DEF FreshFits, LinkFits, Working, Ending, Holding, There, ThereIn
<1>7. Enters(p, r)
  BY <1>1, <1>3 DEF Enters
<1> QED
  BY <1>1, <1>3, <1>5, <1>6, <1>7, TrackedMove DEF target

\* The transfer's records: the row names the object the run works on.
LEMMA TrackedRecord ==
    ASSUME TrackedInv, MigrationInv', NEW p \in Operators,
           MarkUploaded(p) \/ RecordVerifying(p) \/ RegisterVerified(p)
    PROVE TrackedInv'
<1> DEFINE r == op'[p]
           target == op[p].remote
<1>1. /\ op \in [Operators -> Run] /\ op[p] \in Run
      /\ op[p].pc \in {"uploaded", "fetched", "verify"} /\ FreshFits(op[p])
      /\ V(p) \in Versions /\ row[V(p)] \in VersionRow /\ row \in [Versions -> VersionRow]
      /\ ~overlapped => LinkFits(op[p], row[V(p)].remote, driveObjects)
      /\ UNCHANGED overlapped
  BY TrackedRun DEF OpAt, MarkUploaded, RecordVerifying, RegisterVerified
<1>2. target \in ObjectIds /\ op[p].fresh \in {NoObject, target} /\ ~op[p].missing
  BY <1>1 DEF TrackedInv, MigrationInv, RunsOK, RunFits, Holding, Run, Ids, FreshFits,
              Working, Ending
<1>3. row'[V(p)].remote = target
      /\ \A v \in Versions \ {V(p)} : row'[v] = row[v]
  <2>1. ASSUME NEW s \in MigrationStatus, NEW record,
               row' = [row EXCEPT ![V(p)] = [Renewed(p, s) EXCEPT !.record = record]]
        PROVE row'[V(p)].remote = target /\ \A v \in Versions \ {V(p)} : row'[v] = row[v]
    BY <1>1, <2>1 DEF Renewed, VersionRow
  <2>2. ASSUME NEW s \in MigrationStatus, row' = [row EXCEPT ![V(p)] = Renewed(p, s)]
        PROVE row'[V(p)].remote = target /\ \A v \in Versions \ {V(p)} : row'[v] = row[v]
    BY <1>1, <2>2 DEF Renewed, VersionRow
  <2> HIDE DEF target
  <2>3. CASE MarkUploaded(p)
    BY <2>2, <2>3 DEF MarkUploaded, MigrationStatus
  <2>4. CASE RecordVerifying(p)
    BY <2>2, <2>4 DEF RecordVerifying, MigrationStatus
  <2>5. CASE RegisterVerified(p)
    BY <2>1, <2>5 DEF RegisterVerified, MigrationStatus
  <2> QED
    BY <2>3, <2>4, <2>5
<1>4. /\ op' = [op EXCEPT ![p] = r] /\ r.version = V(p) /\ r.remote = target
      /\ r.missing = op[p].missing
      /\ \/ r.pc = "catch" /\ r.fresh = op[p].fresh
         \/ r.pc \in {"fetch", "verify"} /\ r.fresh = op[p].fresh
         \/ r.pc = "cutover" /\ r.fresh = NoObject /\ RegisterVerified(p)
  <2>1. ASSUME NEW next, NEW fresh, Proceed(p, [op[p] EXCEPT !.pc = next, !.fresh = fresh])
        PROVE /\ op' = [op EXCEPT ![p] = r] /\ r.version = V(p) /\ r.remote = target
              /\ r.missing = op[p].missing
              /\ (r.pc = "catch" /\ r.fresh = op[p].fresh) \/ (r.pc = next /\ r.fresh = fresh)
    <3>1. CASE op' = [op EXCEPT ![p] = [op[p] EXCEPT !.pc = next, !.fresh = fresh]]
      BY <1>1, <3>1 DEF Run, V
    <3>2. CASE op' = [op EXCEPT ![p] = [op[p] EXCEPT !.pc = "catch"]]
      BY <1>1, <3>2 DEF Run, V
    <3> QED
      BY <2>1, <3>1, <3>2 DEF Proceed, OpGoto
  <2>2. ASSUME NEW next, Proceed(p, [op[p] EXCEPT !.pc = next])
        PROVE Proceed(p, [op[p] EXCEPT !.pc = next, !.fresh = op[p].fresh])
    <3>1. [op[p] EXCEPT !.pc = next] = [op[p] EXCEPT !.pc = next, !.fresh = op[p].fresh]
      BY <1>1 DEF Run
    <3> QED
      BY <2>2, <3>1
  <2> HIDE DEF r, target
  <2>3. CASE MarkUploaded(p)
    <3>1. Proceed(p, [op[p] EXCEPT !.pc = "fetch"])
      BY <2>3 DEF MarkUploaded
    <3> QED
      BY <2>1, <2>2, <3>1
  <2>4. CASE RecordVerifying(p)
    <3>1. Proceed(p, [op[p] EXCEPT !.pc = "verify"])
      BY <2>4 DEF RecordVerifying
    <3> QED
      BY <2>1, <2>2, <3>1
  <2>5. CASE RegisterVerified(p)
    <3>1. Proceed(p, [op[p] EXCEPT !.pc = "cutover", !.fresh = NoObject])
      BY <2>5 DEF RegisterVerified
    <3> QED
      BY <2>1, <2>5, <3>1
  <2> QED
    BY <2>3, <2>4, <2>5
<1>5. \A o \in ObjectIds : /\ driveObjects'[o].there = driveObjects[o].there
                           /\ driveObjects[o].registered => driveObjects'[o].registered
                           /\ driveObjects'[o].lost = driveObjects[o].lost
                           /\ driveObjects'[o].version = driveObjects[o].version
                           /\ RegisterVerified(p) /\ o = target => driveObjects'[o].registered
  BY <1>2 DEF MarkUploaded, RecordVerifying, RegisterVerified, TrackedInv, MigrationInv,
              ObjectsOK, DriveObject
<1> HIDE DEF r, target
<1>6. FreshFits(r)
  BY <1>2, <1>4 DEF FreshFits, Working, Ending
<1>7. Enters(p, r) /\ RemotesKept(p)
  BY <1>1, <1>3, <1>4 DEF Enters, RemotesKept, Moving, Working
<1>8. LinkFits(r, row'[r.version].remote, driveObjects')
  BY <1>2, <1>3, <1>4 DEF LinkFits, Holding
<1>9. ObjectsKept(r)
  BY <1>5 DEF ObjectsKept, Kept
<1>10. ASSUME ~overlapped PROVE Handed(p, r)
  <2>1. row[V(p)].remote \in {NoObject, target}
    BY <1>1, <1>10 DEF LinkFits, Holding, target
  <2>2. ASSUME NEW o \in ObjectIds, driveObjects'[o].there, op[p].fresh = o
        PROVE r.fresh = o \/ driveObjects'[o].registered
    BY <1>2, <1>4, <1>5, <2>2 DEF ObjectIds
  <2>3. ASSUME NEW o \in ObjectIds, driveObjects'[o].there, Kept(o),
               row[driveObjects[o].version].remote = o
        PROVE row'[driveObjects[o].version].remote = o
    <3>1. driveObjects[o].version \in Versions
      BY <1>10, <2>3 DEF TrackedInv, Kept
    <3> QED
      BY <1>3, <2>1, <2>3, <3>1 DEF ObjectIds
  <2> QED
    BY <2>2, <2>3 DEF Handed
<1> QED
  BY <1>1, <1>4, <1>6, <1>7, <1>8, <1>9, <1>10, TrackedStep

LEMMA TrackedCutover ==
    ASSUME TrackedInv, MigrationInv', NEW p \in Operators, Cutover(p) PROVE TrackedInv'
<1> DEFINE r == op'[p]
<1>1. /\ op \in [Operators -> Run] /\ op[p] \in Run /\ op[p].pc = "cutover" /\ FreshFits(op[p])
      /\ V(p) \in Versions /\ row[V(p)] \in VersionRow /\ row \in [Versions -> VersionRow]
      /\ UNCHANGED <<driveObjects, overlapped>>
  BY TrackedRun DEF OpAt, Cutover
<1>2. op[p].fresh = NoObject /\ ~op[p].missing
  BY <1>1 DEF FreshFits, Ending
<1>3. \A v \in Versions : row'[v].remote = row[v].remote
  <2>1. ASSUME NEW s, row' = [row EXCEPT ![V(p)] = [row[V(p)] EXCEPT
                 !.status = s, !.lease = NoOperator, !.live = FALSE]]
        PROVE \A v \in Versions : row'[v].remote = row[v].remote
    BY <1>1, <2>1 DEF VersionRow
  <2>2. CASE UNCHANGED row
    BY <2>2
  <2> QED
    BY <2>1, <2>2 DEF Cutover
<1>4. op' = [op EXCEPT ![p] = r] /\ r.fresh = NoObject /\ ~r.missing
      /\ (r = AtRest \/ (r.pc = "catch" /\ r.version = V(p)))
  <2>1. CASE op' = [op EXCEPT ![p] = AtRest]
    BY <1>1, <2>1 DEF AtRest
  <2>2. CASE op' = [op EXCEPT ![p] = [op[p] EXCEPT !.pc = "catch"]]
    BY <1>1, <1>2, <2>2 DEF Run, V
  <2> QED
    BY <2>1, <2>2 DEF Cutover, Proceed, OpGoto
<1> HIDE DEF r
<1>5. FreshFits(r)
  BY <1>4 DEF FreshFits, Working, Ending, AtRest
<1>6. Enters(p, r)
  BY <1>1, <1>4 DEF Enters, Moving, Working, Ending, AtRest
<1>7. LinkFits(r, row[V(p)].remote, driveObjects)
  BY <1>4 DEF LinkFits, Holding, AtRest
<1> QED
  BY <1>1, <1>2, <1>3, <1>4, <1>5, <1>6, <1>7, TrackedMove

\* The error path: what it deletes is gone, what it cannot delete the row names.
LEMMA TrackedEnds ==
    ASSUME TrackedInv, MigrationInv', NEW p \in Operators,
           RecordOrphan(p) \/ ForgetMissing(p) \/ RecordFailure(p)
    PROVE TrackedInv'
<1> DEFINE r == op'[p]
<1>1. /\ op \in [Operators -> Run] /\ op[p] \in Run /\ op[p].pc \in Ending /\ FreshFits(op[p])
      /\ V(p) \in Versions /\ row[V(p)] \in VersionRow /\ row \in [Versions -> VersionRow]
      /\ ~overlapped => LinkFits(op[p], row[V(p)].remote, driveObjects)
      /\ UNCHANGED <<driveObjects, overlapped>>
  BY TrackedRun DEF OpAt, RecordOrphan, ForgetMissing, RecordFailure, Ending
<1>2. /\ op' = [op EXCEPT ![p] = r]
      /\ \/ r.pc = "rest" /\ r.fresh = NoObject /\ ~r.missing
         \/ /\ r.pc = "fail" /\ r.fresh = op[p].fresh /\ r.version = V(p)
            /\ op[p].pc = "forget"
  <2>1. CASE ForgetMissing(p)
    BY <1>1, <2>1 DEF ForgetMissing, OpAt, OpGoto, Run, V
  <2>2. CASE RecordOrphan(p) \/ RecordFailure(p)
    BY <1>1, <2>2 DEF RecordOrphan, RecordFailure, AtRest
  <2> QED
    BY <2>1, <2>2
<1>3. \A v \in Versions \ {V(p)} : row'[v] = row[v]
  BY <1>1 DEF RecordOrphan, ForgetMissing, RecordFailure
<1>4. /\ RecordOrphan(p) => row'[V(p)].remote = op[p].fresh /\ op[p].pc = "orphan"
      /\ ForgetMissing(p) => row'[V(p)].remote = NoObject /\ op[p].pc = "forget"
      /\ RecordFailure(p) => row'[V(p)].remote = row[V(p)].remote /\ op[p].pc = "fail"
  <2>1. RecordOrphan(p) => row'[V(p)].remote = op[p].fresh /\ op[p].pc = "orphan"
    BY <1>1 DEF RecordOrphan, Failed, VersionRow, OpAt
  <2>2. ForgetMissing(p) => row'[V(p)].remote = NoObject /\ op[p].pc = "forget"
    BY <1>1 DEF ForgetMissing, VersionRow, OpAt
  <2>3. RecordFailure(p) => row'[V(p)].remote = row[V(p)].remote /\ op[p].pc = "fail"
    BY <1>1 DEF RecordFailure, Failed, VersionRow, OpAt
  <2> QED
    BY <2>1, <2>2, <2>3
<1> HIDE DEF r
<1>5. FreshFits(r)
  BY <1>1, <1>2, <1>4 DEF FreshFits, Working, Ending
<1>6. Enters(p, r) /\ RemotesKept(p) /\ ObjectsKept(r)
  BY <1>1, <1>2, <1>3 DEF Enters, Moving, Working, Ending, RemotesKept, ObjectsKept, Kept
<1>7. LinkFits(r, row'[r.version].remote, driveObjects')
  BY <1>2 DEF LinkFits, Holding
<1>8. ASSUME ~overlapped PROVE Handed(p, r)
  <2>1. ASSUME NEW o \in ObjectIds, driveObjects[o].there, op[p].fresh = o
        PROVE row'[driveObjects[o].version].remote = o
    <3>1. op[p].fresh # NoObject
      BY <2>1 DEF ObjectIds
    <3>2. RecordOrphan(p)
      BY <1>1, <1>4, <3>1 DEF FreshFits
    <3>3. driveObjects[o].version = V(p)
      <4>1. RunFits(op[p], driveObjects) /\ op[p].version = V(p) /\ V(p) # 0
        BY <1>1 DEF TrackedInv, MigrationInv, RunsOK, V, Versions
      <4> QED
        BY <2>1, <3>1, <4>1 DEF RunFits, ObjectIn
    <3> QED
      BY <1>4, <2>1, <3>2, <3>3
  <2>2. ASSUME NEW o \in ObjectIds, driveObjects[o].there, row[driveObjects[o].version].remote = o
        PROVE row'[driveObjects[o].version].remote = o
    <3>1. driveObjects[o].version \in Versions
      BY <1>8, <2>2 DEF TrackedInv
    <3>2. CASE driveObjects[o].version # V(p)
      BY <1>3, <2>2, <3>1, <3>2
    <3>3. CASE driveObjects[o].version = V(p)
      <4>1. ~ForgetMissing(p)
        BY <1>1, <1>4, <1>8, <2>2, <3>3 DEF LinkFits, ThereIn
      <4>2. CASE RecordOrphan(p)
        BY <1>1, <1>4, <1>8, <2>2, <3>3, <4>2 DEF LinkFits, FreshFits, ObjectIds
      <4>3. CASE RecordFailure(p)
        BY <1>4, <2>2, <3>3, <4>3
      <4> QED
        BY <4>1, <4>2, <4>3
    <3> QED
      BY <3>2, <3>3
  <2> QED
    BY <1>1, <2>1, <2>2 DEF Handed
<1> QED
  BY <1>1, <1>2, <1>5, <1>6, <1>7, <1>8, TrackedStep

LEMMA TrackedMarks ==
    ASSUME TrackedInv, MigrationInv', NEW p \in Operators, DeleteFresh(p) \/ RunDies(p)
    PROVE TrackedInv'
<1> DEFINE r == op'[p]
<1>1. /\ op \in [Operators -> Run] /\ op[p] \in Run /\ op[p].pc # "rest" /\ FreshFits(op[p])
      /\ V(p) \in Versions
      /\ ~overlapped => LinkFits(op[p], row[V(p)].remote, driveObjects)
      /\ UNCHANGED <<row, overlapped>>
  BY TrackedRun DEF OpAt, DeleteFresh, RunDies
<1>2. /\ op' = [op EXCEPT ![p] = r] /\ r.fresh = NoObject
      /\ \/ RunDies(p) /\ r.pc = "rest" /\ ~r.missing
         \/ DeleteFresh(p) /\ op[p].pc = "catch" /\ r.version = V(p) /\ r.missing = op[p].missing
            /\ \/ r.pc = "forget" /\ op[p].missing
               \/ r.pc = "fail"
  <2>1. CASE DeleteFresh(p)
    BY <1>1, <2>1 DEF DeleteFresh, OpAt, Settle, Run, V
  <2>2. CASE RunDies(p)
    BY <1>1, <2>2 DEF RunDies, AtRest
  <2> QED
    BY <2>1, <2>2
<1>3. \A o \in ObjectIds : /\ driveObjects'[o].there => driveObjects[o].there
                           /\ driveObjects'[o].registered = driveObjects[o].registered
                           /\ driveObjects[o].lost => driveObjects'[o].lost
                           /\ driveObjects'[o].version = driveObjects[o].version
                           /\ o = op[p].fresh => ~driveObjects'[o].there \/ driveObjects'[o].lost
  <2>1. driveObjects \in [ObjectIds -> DriveObject]
    BY DEF TrackedInv, MigrationInv, ObjectsOK
  <2>2. CASE DeleteFresh(p)
    BY <2>1, <2>2 DEF DeleteFresh, DriveObject
  <2>3. CASE RunDies(p)
    BY <2>1, <2>3 DEF RunDies, DriveObject
  <2> QED
    BY <2>2, <2>3
<1> HIDE DEF r
<1>4. FreshFits(r)
  BY <1>2 DEF FreshFits, Working, Ending
<1>5. Enters(p, r) /\ RemotesKept(p)
  BY <1>1, <1>2 DEF Enters, Moving, Working, Ending, RemotesKept
<1>6. ASSUME ~overlapped PROVE LinkFits(r, row'[r.version].remote, driveObjects')
  BY <1>1, <1>2, <1>3, <1>6 DEF LinkFits, Holding, ThereIn
<1>7. ObjectsKept(r) /\ Handed(p, r)
  BY <1>1, <1>3 DEF ObjectsKept, Kept, Handed
<1> QED
  BY <1>1, <1>2, <1>4, <1>5, <1>6, <1>7, TrackedStep

\* Time, users, the bytes: nothing that refers to an object changes.
LEMMA TrackedSurroundings ==
    ASSUME TrackedInv, MigrationInv',
           \/ \E v \in Versions : LateLease(v) \/ DeadLease(v)
           \/ CreateVersion \/ Damage \/ Repair \/ ResolveEditing
           \/ UNCHANGED migrationVars
    PROVE TrackedInv'
<1>1. UNCHANGED <<driveObjects, op, overlapped>>
  BY DEF LateLease, DeadLease, CreateVersion, Damage, Repair, ResolveEditing, migrationVars
<1>2. \A v \in Versions : row'[v].remote = row[v].remote
  BY DEF LateLease, DeadLease, CreateVersion, Damage, Repair, ResolveEditing, migrationVars,
         TrackedInv, MigrationInv, RowsOK, VersionRow
<1>3. ASSUME ~overlapped, NEW p \in Operators
      PROVE LinkFits(op[p], row'[V(p)].remote, driveObjects)
  <2>1. CASE op[p].pc = "rest"
    BY <2>1 DEF LinkFits, Holding
  <2>2. CASE op[p].pc # "rest"
    BY <1>2, <1>3, <2>2, TrackedRun
  <2> QED
    BY <2>1, <2>2
<1>4. ASSUME ~overlapped PROVE ObjectsAreTracked'
  <2>1. \A o \in ObjectIds : driveObjects[o].there => driveObjects[o].version \in Versions
    BY <1>4 DEF TrackedInv
  <2> QED
    BY <1>1, <1>2, <2>1 DEF TrackedInv, ObjectsAreTracked
<1>5. overlapped => ObjectsAreTracked'
  BY <1>1 DEF ObjectsAreTracked
<1> QED
  BY <1>1, <1>3, <1>4, <1>5 DEF TrackedInv, SoleRun, V

LEMMA TrackedInit == MigrationInit => TrackedInv
<1> SUFFICES ASSUME MigrationInit PROVE TrackedInv
  OBVIOUS
<1>1. \A p \in Operators : op[p] = AtRest
  BY DEF MigrationInit
<1>2. FreshFits(AtRest) /\ ~Moving(AtRest) /\ \A o : LinkFits(AtRest, o, driveObjects)
  BY DEF FreshFits, Moving, LinkFits, AtRest, Working, Ending, Holding
<1>3. \A o \in ObjectIds : ~driveObjects[o].there
  BY DEF MigrationInit, Unused
<1> QED
  BY <1>1, <1>2, <1>3, MigrationInitFits DEF TrackedInv, SoleRun, ObjectsAreTracked

LEMMA TrackedStepFits == TrackedInv /\ [MigrationNext]_migrationVars => TrackedInv'
<1> SUFFICES ASSUME TrackedInv, [MigrationNext]_migrationVars PROVE TrackedInv'
  OBVIOUS
<1>1. MigrationInv'
  BY MigrationStepFits DEF TrackedInv
<1>2. ASSUME NEW p \in Operators,
             MigrateStep(p) \/ LoseUploadAnswer(p) \/ FailDelete(p) \/ RunFails(p)
               \/ RunDies(p) \/ RollbackRead(p)
      PROVE TrackedInv'
  BY <1>1, <1>2, TrackedOutside, TrackedClaim, TrackedUpload, TrackedLostUpload, TrackedStops,
     TrackedRecord, TrackedCutover, TrackedEnds, TrackedMarks DEF MigrateStep
<1> QED
  BY <1>1, <1>2, TrackedSurroundings DEF MigrationNext

\* Unless two runs worked on one version, no object is left in Drive that neither
\* the file, nor its migration row, nor a run knows of, but for those of runs that
\* ended before their error path did and of uploads whose last answer and query
\* were lost: through the lost answers of all other steps, vanished objects, failed
\* deletions, rollbacks and leases that run out.
THEOREM MigrationLosesNothing == MigrationSpec => []ObjectsAreTracked
<1>1. TrackedInv => ObjectsAreTracked
  BY DEF TrackedInv
<1> QED
  BY <1>1, TrackedInit, TrackedStepFits, PTL DEF MigrationSpec

-----------------------------------------------------------------------------
(* The integration as a whole: one component moves, the others rest.       *)

DriveInv == LockInv /\ SweepInv /\ RegistrationInv /\ UploadInv /\ TrackedInv

LEMMA UploadRestFits == UploadAtRest => UploadInv
<1> SUFFICES ASSUME UploadAtRest PROVE UploadInv
  OBVIOUS
<1>1. Received = 0 /\ session.bytes = Prefix(0)
  BY DEF UploadAtRest, Received, Prefix
<1> QED
  BY <1>1, RestConstants, UploadConstants
     DEF UploadAtRest, UploadInv, UploadTypeOK, ResultFits, SessionFits, Waiting

\* A migrated file has one object: its version's, registered and linked.
LEMMA MigrationRestFits == MigrationAtRest => TrackedInv
<1> SUFFICES ASSUME MigrationAtRest PROVE TrackedInv
  OBVIOUS
<1>1. 1 \in Versions /\ 1 \in ObjectIds /\ 1 \in Ids /\ 1 # NoObject
  BY RestConstants DEF Versions, ObjectIds, Ids
<1>2. /\ driveObjects \in [ObjectIds -> DriveObject]
      /\ driveObjects[1].version = 1
      /\ \A o \in ObjectIds : driveObjects[o].there =>
           o = 1 /\ driveObjects[o].registered
  BY <1>1 DEF MigrationAtRest, Uploaded, Unused, DriveObject
<1>3. FileOK
  BY <1>1 DEF MigrationAtRest, FileOK, FileRow
<1>4. RowsOK
  <2>1. NoRow \in VersionRow /\ \A v \in Versions : RowFits(NoRow, v, driveObjects)
    BY DEF NoRow, VersionRow, RowFits, ObjectIn, Ids, MigrationStatus
  <2> DEFINE done == [NoRow EXCEPT !.status = "COMPLETED", !.remote = 1, !.record = 1]
  <2>2. done \in VersionRow /\ done.remote = 1 /\ done.record = 1
    BY <1>1 DEF NoRow, VersionRow, MigrationStatus
  <2>3. row = [v \in Versions |-> IF v = 1 THEN done ELSE NoRow]
    BY DEF MigrationAtRest
  <2> HIDE DEF done
  <2>4. RowFits(done, 1, driveObjects)
    BY <1>1, <1>2, <2>2 DEF RowFits, ObjectIn
  <2> QED
    BY <2>1, <2>2, <2>3, <2>4 DEF RowsOK
<1>5. op = [p \in Operators |-> AtRest] /\ RunsOK
  BY Rests DEF MigrationAtRest, RunsOK, RunFits
<1>6. FreshFits(AtRest) /\ ~Moving(AtRest) /\ \A o : LinkFits(AtRest, o, driveObjects)
  BY DEF FreshFits, Moving, LinkFits, AtRest, Working, Ending, Holding
<1>7. MigrationInv
  BY <1>2, <1>3, <1>4, <1>5 DEF MigrationInv, ObjectsOK, RestOK, MigrationAtRest
<1> QED
  BY <1>1, <1>2, <1>5, <1>6, <1>7 DEF TrackedInv, SoleRun, ObjectsAreTracked

LEMMA DriveInitFits == DriveInit => DriveInv
<1>1. CatalogAtRest => CatalogInit
  BY DEF CatalogAtRest
<1> QED
  BY <1>1, LockInitFits, SweepInitFits, RegistrationInitFits, UploadInitFits, UploadRestFits, TrackedInit,
     MigrationRestFits DEF DriveInit, DriveInv

LEMMA DriveStepFits == DriveInv /\ [DriveNext]_driveVars => DriveInv'
<1> SUFFICES ASSUME DriveInv, [DriveNext]_driveVars PROVE DriveInv'
  OBVIOUS
<1>1. /\ [CatalogNext]_catalogVars /\ [RegistrationNext]_registrationVars
      /\ [UploadStep]_uploadVars /\ [MigrationNext]_migrationVars
  BY DEF DriveNext, driveVars
<1> QED
  BY <1>1, LockStepFits, SweepStepFits, RegistrationStepFits, UploadStepFits, TrackedStepFits
     DEF DriveInv

\* Whichever part of the integration moves, every row, request, session and object
\* of all four has its type, and every reference an object.
THEOREM DriveTypesHold == DriveSpec => []DriveTypesOK
<1>1. DriveInv => DriveTypesOK
  BY CatalogTyped, RegistrationTyped, MigrationTyped
     DEF DriveInv, LockInv, UploadInv, TrackedInv, DriveTypesOK
<1> QED
  BY <1>1, DriveInitFits, DriveStepFits, PTL DEF DriveSpec

\* What each part promises by itself holds of the integration: a sync has its lock
\* and sweeps what is gone, a key has one object, an answer its effect, an upload its
\* source, an object its owner, and a file moves with its current version.
THEOREM DriveKeepsItsPromises ==
    DriveSpec => /\ [](LockIsSound /\ RegistrationIsExact /\ FileIsSource /\ ObjectsAreTracked)
                 /\ SweepIsExact /\ BackingFollowsVersion
<1>1. DriveInv => LockIsSound /\ RegistrationIsExact /\ FileIsSource /\ ObjectsAreTracked
  BY LocksAreSound, ObjectsAreSole, OutcomesAreTrue, UploadsAreSource
     DEF DriveInv, TrackedInv, RegistrationIsExact
<1>2. DriveInv => SweepInv /\ MigrationInv
  BY DEF DriveInv, TrackedInv
<1>3. [DriveNext]_driveVars => [CatalogNext]_catalogVars /\ [MigrationNext]_migrationVars
  BY DEF DriveNext, driveVars
<1> QED
  BY <1>1, <1>2, <1>3, DriveInitFits, DriveStepFits, SweepSteps, BackingSteps, PTL
     DEF DriveSpec, SweepIsExact, BackingFollowsVersion

=============================================================================
