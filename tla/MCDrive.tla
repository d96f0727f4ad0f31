------------------------------- MODULE MCDrive -------------------------------
(***************************************************************************)
(* The components of the Drive integration in one instance.  They share    *)
(* nothing that their models look at, so a behaviour moves one of them,    *)
(* its theme, and leaves the others at rest.                               *)
(***************************************************************************)
EXTENDS DriveCatalog, DriveRegistration, ResumableUpload, DriveMigration

CONSTANT Themes   \* components that move: "catalog", "registration", "upload", "migration"

\* A component at rest needs a source of no bytes and an object in Drive.
ASSUME RestConstants == 0 \in Lengths /\ MaxObjects # 0

VARIABLE theme

driveVars == <<theme, catalogVars, registrationVars, uploadVars, migrationVars>>

-----------------------------------------------------------------------------
(* The catalog: one folder in use and another to choose, a folder below    *)
(* the first, a file in that one, and a file that is uploaded later.  Two  *)
(* syncs, or a sync and a file registered beside it, with two disturbances. *)
MCPlace == [i \in Objects |-> CASE i = "sub" -> "main" [] i = "plan" -> "sub" [] OTHER -> "nowhere"]
MCBudgets == {[syncs |-> 2, files |-> 0, events |-> 2],
              [syncs |-> 1, files |-> 1, events |-> 1]}

(* The registration: a native creation and an upload of one name, each     *)
(* requested twice; the second request of the upload sends other bytes.    *)
MCKeys == {"native", "upload"}
MCRequests == {"n1", "n2", "u1", "u2"}
MCKeyOf == [r \in MCRequests |-> IF r \in {"n1", "n2"} THEN "native" ELSE "upload"]
MCBytesOf == [r \in MCRequests |-> IF r = "u2" THEN "other" ELSE "bytes"]
MCFileName == [k \in MCKeys |-> "plan"]
MCCandidates == [n \in {"plan"} |-> <<"plan", "plan (1)">>]

(* The migration: a failure and a late lease; damaged bytes and a rollback; *)
(* a version and a rollback.                                               *)
MCTroubles == {[versions |-> 0, late |-> 1, failures |-> 1, damage |-> 0, rollbacks |-> 0],
               [versions |-> 0, late |-> 0, failures |-> 0, damage |-> 1, rollbacks |-> 1],
               [versions |-> 1, late |-> 0, failures |-> 0, damage |-> 0, rollbacks |-> 1]}

-----------------------------------------------------------------------------
(* A component that does not move has nothing under way: no bound left to  *)
(* spend, the upload ended, the file migrated.                             *)
CatalogAtRest == CatalogInit /\ left = CHOOSE b \in Budgets : TRUE
UploadAtRest ==
  /\ length = 0 /\ taken = 0 /\ offset = 0 /\ cursor = 0 /\ noProgress = 0
  /\ uploadPc = "ended" /\ uploadResult = "ok"
  /\ session = [bytes |-> <<>>, state |-> "complete"]
MigrationAtRest ==
  /\ bytes = "intact"
  /\ file = [current |-> 1, backing |-> "DRIVE", linked |-> 1]
  /\ row = [v \in Versions |-> IF v = 1 THEN [NoRow EXCEPT !.status = "COMPLETED",
                                                !.remote = 1, !.record = 1] ELSE NoRow]
  /\ driveObjects = [o \in ObjectIds |->
       IF o = 1 THEN [Uploaded(1) EXCEPT !.registered = TRUE] ELSE Unused]
  /\ editing = FALSE /\ op = [p \in Operators |-> AtRest]
  /\ overlapped = FALSE /\ troubles = CHOOSE t \in Troubles : TRUE

DriveInit ==
  /\ theme \in Themes
  /\ RegistrationInit
  /\ IF theme = "catalog" THEN CatalogInit ELSE CatalogAtRest
  /\ IF theme = "upload" THEN UploadInit ELSE UploadAtRest
  /\ IF theme = "migration" THEN MigrationInit ELSE MigrationAtRest

DriveNext ==
  /\ UNCHANGED theme
  /\ \/ /\ theme = "catalog" /\ CatalogNext
        /\ UNCHANGED <<registrationVars, uploadVars, migrationVars>>
     \/ /\ theme = "registration" /\ RegistrationNext
        /\ UNCHANGED <<catalogVars, uploadVars, migrationVars>>
     \/ /\ theme = "upload" /\ UploadStep
        /\ UNCHANGED <<catalogVars, registrationVars, migrationVars>>
     \/ /\ theme = "migration" /\ MigrationNext
        /\ UNCHANGED <<catalogVars, registrationVars, uploadVars>>

(* The fairness each component states for itself, of the one that moves.   *)
DriveFairness ==
  /\ \A s \in Syncs : WF_catalogVars(theme = "catalog" /\ SyncStep(s))
  /\ \A r \in CreationRequests :
       WF_registrationVars(theme = "registration" /\ RequestStep(r))
  /\ WF_uploadVars(theme = "upload" /\ UploadStep)
  /\ \A p \in Operators : WF_migrationVars(theme = "migration" /\ MigrateStep(p))
  /\ \A v \in Versions : WF_migrationVars(theme = "migration" /\ DeadLease(v))
  /\ WF_migrationVars(theme = "migration" /\ Repair)
  /\ WF_migrationVars(theme = "migration" /\ ResolveEditing)

DriveSpec == DriveInit /\ [][DriveNext]_driveVars
FairDriveSpec == DriveSpec /\ DriveFairness

-----------------------------------------------------------------------------
(* The state of every component has its types, and every reference in it   *)
(* its object.                                                             *)
DriveTypesOK == CatalogTypeOK /\ RegistrationTypeOK /\ UploadTypeOK /\ MigrationTypeOK

(* What has begun comes to an end: a sync frees the connection, a creation *)
(* leaves IN_PROGRESS, an upload answers, a migration repeated by its      *)
(* operators gets its file to Drive.                                       *)
WorkEnds == SyncEnds /\ OperationResolves /\ UploadEnds /\ MigrationEnds

=============================================================================
