---------------------------- MODULE DriveMigration ----------------------------
(***************************************************************************)
(* The migration of one local file to the company's Drive, and its         *)
(* rollback: apps/api/src/drive/drive-file-migration.service.ts, run by    *)
(* operators through migration-cli.ts.                                     *)
(*                                                                         *)
(* A run captures the file's current version, claims the durable row of    *)
(* that version under a lease, uploads the bytes, verifies and registers   *)
(* the Drive object, and cuts the file over.  Two operators may run at     *)
(* once, a lease may run out while its holder still works, a call may fail *)
(* before or after it took effect, a process may die, users upload further *)
(* versions, and the local bytes may be damaged and repaired.              *)
(***************************************************************************)
EXTENDS Naturals

CONSTANTS Operators,    \* processes of the migration command
          MaxVersion,   \* bound on the versions of the file
          MaxObjects,   \* bound on the uploads in Drive at once
          NoOperator,   \* no lease token
          Troubles      \* bounds, one of which a behaviour keeps: new versions, leases
                        \* that run out under their holder, failures (errors, lost
                        \* answers, deaths), damages to the bytes, rollbacks

ASSUME MigrationConstants ==
  /\ MaxVersion \in Nat \ {0} /\ MaxObjects \in Nat
  /\ NoOperator \notin Operators
  /\ Troubles \subseteq [versions : Nat, late : Nat, failures : Nat, damage : Nat, rollbacks : Nat]

Versions == 1..MaxVersion
NoObject == 0
ObjectIds == 1..MaxObjects

MigrationStatus == {"NONE", "UPLOADING", "UPLOADED", "VERIFYING", "VERIFIED", "COMPLETED",
                    "FAILED", "BLOCKED", "STALE", "ROLLED_BACK"}
Leased == {"UPLOADING", "UPLOADED", "VERIFYING", "VERIFIED"}

VARIABLES
  file,      \* the File row: current version, backing, the Drive object linked
  row,       \* the DriveFileMigration row of each version, NONE if there is none
  driveObjects, \* Drive: the objects uploaded, of which version, whether their bytes
             \* are that version's, and whether they are there; registered is the
             \* DriveFile row; history: lost are objects of a run that ended before
             \* its error path did, or that was never told of them
  bytes,     \* the local bytes: intact, other bytes of the same size, or missing
  editing,   \* an unresolved historical editor session
  op,        \* the processes
  overlapped, \* history: a version was claimed while another run worked on it
  troubles   \* what is left of the bounds

migrationVars == <<file, row, driveObjects, bytes, editing, op, overlapped, troubles>>

NoRow == [status |-> "NONE", lease |-> NoOperator, live |-> FALSE,
          remote |-> NoObject, record |-> NoObject]
Unused == [version |-> 0, intact |-> FALSE, there |-> FALSE, registered |-> FALSE, lost |-> FALSE]
AtRest == [pc |-> "rest", version |-> 0, known |-> FALSE, claimed |-> NoObject,
           remote |-> NoObject, fresh |-> NoObject, missing |-> FALSE]

There(o) == o \in ObjectIds /\ driveObjects[o].there
V(p) == op[p].version

OpAt(p, step) == op[p].pc = step
OpGoto(p, step) == op' = [op EXCEPT ![p].pc = step]
Suffer(kind) == troubles[kind] > 0 /\ troubles' = [troubles EXCEPT ![kind] = @ - 1]

(* A statement takes effect; its answer may be lost, and the run then      *)
(* takes its error path.                                                   *)
Proceed(p, next) ==
  \/ op' = [op EXCEPT ![p] = next] /\ UNCHANGED troubles
  \/ Suffer("failures") /\ OpGoto(p, "catch")

-----------------------------------------------------------------------------
(* loadSource, and what refuses the file before the claim.                 *)

Load(p) ==
  /\ OpAt(p, "rest") /\ file.backing = "LOCAL"
  /\ op' = [op EXCEPT ![p] = [AtRest EXCEPT !.pc = "loaded", !.version = file.current]]
  /\ UNCHANGED <<overlapped, file, row, driveObjects, bytes, editing, troubles>>

CheckSource(p) ==
  /\ OpAt(p, "loaded")
  /\ OpGoto(p, IF editing \/ bytes = "missing" THEN "blocking" ELSE "checked")
  /\ UNCHANGED <<overlapped, file, row, driveObjects, bytes, editing, troubles>>

RecordBlocked(p) ==
  /\ OpAt(p, "blocking")
  /\ row' = [row EXCEPT ![V(p)] =
               [@ EXCEPT !.status = "BLOCKED", !.lease = NoOperator, !.live = FALSE]]
  /\ op' = [op EXCEPT ![p] = AtRest]
  /\ UNCHANGED <<overlapped, file, driveObjects, bytes, editing, troubles>>

(* claim: the row is read, and then taken by an update with a condition of *)
(* its own, which looks at the lease but takes a COMPLETED row.            *)
RowTaken(v) == row[v].status \in Leased /\ row[v].live

ReadRow(p) ==
  /\ OpAt(p, "checked")
  /\ op' = IF row[V(p)].status = "COMPLETED" \/ RowTaken(V(p)) THEN [op EXCEPT ![p] = AtRest]
           ELSE [op EXCEPT ![p].pc = "claim", ![p].known = row[V(p)].status # "NONE"]
  /\ UNCHANGED <<overlapped, file, row, driveObjects, bytes, editing, troubles>>

Working == {"upload", "uploaded", "fetch", "fetched", "verify", "cutover"}
Ending == {"catch", "orphan", "forget", "fail"}
Transfers(q, v) == op[q].pc \in Working \cup Ending /\ V(q) = v

ClaimRow(p) ==
  /\ OpAt(p, "claim")
  /\ IF RowTaken(V(p)) \/ (~op[p].known /\ row[V(p)].status # "NONE")
     THEN op' = [op EXCEPT ![p] = AtRest] /\ UNCHANGED row
     ELSE /\ row' = [row EXCEPT ![V(p)] =
                       [@ EXCEPT !.status = "UPLOADING", !.lease = p, !.live = TRUE]]
          /\ op' = [op EXCEPT ![p].pc = IF row[V(p)].remote = NoObject THEN "upload" ELSE "fetch",
                              ![p].claimed = row[V(p)].remote,
                              ![p].remote = row[V(p)].remote]
  /\ overlapped' = (overlapped \/ (OpAt(p, "claim") /\ op'[p].pc \in Working
                                    /\ \E q \in Operators \ {p} : Transfers(q, V(p))))
  /\ UNCHANGED <<file, driveObjects, bytes, editing, troubles>>

-----------------------------------------------------------------------------
(* The upload, its record, and the registration of the object.  No update  *)
(* of the row looks at the lease it overwrites.                            *)

(* A new object; the name of one that is gone and referred to by nothing is *)
(* used again.                                                             *)
Free(o) ==
  /\ ~There(o) /\ file.linked # o
  /\ \A v \in Versions : row[v].remote # o /\ row[v].record # o
  /\ \A p \in Operators : op[p].remote # o /\ op[p].fresh # o
NewObject == CHOOSE o \in ObjectIds : Free(o)

Uploaded(v) == [version |-> v, intact |-> bytes = "intact", there |-> TRUE,
                registered |-> FALSE, lost |-> FALSE]

Upload(p) ==
  /\ OpAt(p, "upload") /\ bytes # "missing" /\ \E o \in ObjectIds : Free(o)
  /\ driveObjects' = [driveObjects EXCEPT ![NewObject] = Uploaded(V(p))]
  /\ op' = [op EXCEPT ![p].pc = IF bytes = "intact" THEN "uploaded" ELSE "catch",
                      ![p].remote = NewObject, ![p].fresh = NewObject]
  /\ UNCHANGED <<overlapped, file, row, bytes, editing, troubles>>

(* The last chunk takes effect, and neither its answer nor that to the      *)
(* query of the session arrives: the object is there, uploadBinary throws,  *)
(* and freshRemoteId was never set.                                         *)
LoseUploadAnswer(p) ==
  /\ OpAt(p, "upload") /\ bytes # "missing" /\ \E o \in ObjectIds : Free(o)
  /\ Suffer("failures")
  /\ driveObjects' = [driveObjects EXCEPT ![NewObject] = [Uploaded(V(p)) EXCEPT !.lost = TRUE]]
  /\ OpGoto(p, "catch")
  /\ UNCHANGED <<overlapped, file, row, bytes, editing>>

(* The bytes cannot be read. *)
UploadNothing(p) ==
  /\ OpAt(p, "upload") /\ bytes = "missing"
  /\ OpGoto(p, "catch")
  /\ UNCHANGED <<overlapped, file, row, driveObjects, bytes, editing, troubles>>

Renewed(p, status) ==
  [row[V(p)] EXCEPT !.status = status, !.remote = op[p].remote, !.lease = p, !.live = TRUE]

MarkUploaded(p) ==
  /\ OpAt(p, "uploaded")
  /\ row' = [row EXCEPT ![V(p)] = Renewed(p, "UPLOADED")]
  /\ Proceed(p, [op[p] EXCEPT !.pc = "fetch"])
  /\ UNCHANGED <<overlapped, file, driveObjects, bytes, editing>>

(* getFileWithContext: 404 if the object is gone. *)
Fetch(p) ==
  /\ OpAt(p, "fetch")
  /\ op' = IF There(op[p].remote) THEN [op EXCEPT ![p].pc = "fetched"]
           ELSE [op EXCEPT ![p].pc = "catch", ![p].missing = TRUE]
  /\ UNCHANGED <<overlapped, file, row, driveObjects, bytes, editing, troubles>>

RecordVerifying(p) ==
  /\ OpAt(p, "fetched")
  /\ row' = [row EXCEPT ![V(p)] = Renewed(p, "VERIFYING")]
  /\ Proceed(p, [op[p] EXCEPT !.pc = "verify"])
  /\ UNCHANGED <<overlapped, file, driveObjects, bytes, editing>>

RegisterVerified(p) ==
  /\ OpAt(p, "verify")
  /\ driveObjects' = [driveObjects EXCEPT ![op[p].remote].registered = TRUE]
  /\ row' = [row EXCEPT ![V(p)] = [Renewed(p, "VERIFIED") EXCEPT !.record = op[p].remote]]
  /\ Proceed(p, [op[p] EXCEPT !.pc = "cutover", !.fresh = NoObject])
  /\ UNCHANGED <<overlapped, file, bytes, editing>>

-----------------------------------------------------------------------------
(* cutover, in one transaction that locks both rows.                       *)

MayCutOver(p) == row[V(p)].lease = p /\ row[V(p)].status = "VERIFIED"
              /\ row[V(p)].record # NoObject

(* What becomes of the migration and of the file. *)
Outcome(p) ==
  CASE file.current # V(p) -> "STALE"
    [] editing -> "BLOCKED"
    [] file.backing = "DRIVE" /\ file.linked # row[V(p)].record -> "FAILED"
    [] OTHER -> "COMPLETED"

CutoverResult(p) == IF MayCutOver(p) THEN Outcome(p) ELSE "FAILED"

Cutover(p) ==
  /\ OpAt(p, "cutover")
  /\ IF CutoverResult(p) = "FAILED"
     THEN OpGoto(p, "catch") /\ UNCHANGED <<file, row, troubles>>
     ELSE /\ row' = [row EXCEPT ![V(p)] = [@ EXCEPT !.status = CutoverResult(p),
                                          !.lease = NoOperator, !.live = FALSE]]
          /\ file' = IF CutoverResult(p) = "COMPLETED"
                     THEN [file EXCEPT !.backing = "DRIVE", !.linked = row[V(p)].record]
                     ELSE file
          /\ Proceed(p, AtRest)
  /\ UNCHANGED <<overlapped, driveObjects, bytes, editing>>

-----------------------------------------------------------------------------
(* The error path: delete an object that is not registered, forget one     *)
(* that is gone, record the failure.                                       *)

Settle(p) == IF op[p].missing /\ op[p].claimed # NoObject THEN "forget" ELSE "fail"

SkipDelete(p) ==
  /\ OpAt(p, "catch") /\ op[p].fresh = NoObject
  /\ OpGoto(p, Settle(p))
  /\ UNCHANGED <<overlapped, file, row, driveObjects, bytes, editing, troubles>>

\* Mutant: the object is not deleted.
AbandonFresh(p) ==
  /\ OpAt(p, "catch") /\ op[p].fresh # NoObject
  /\ op' = [op EXCEPT ![p].pc = Settle(p), ![p].fresh = NoObject]
  /\ UNCHANGED <<overlapped, file, row, driveObjects, bytes, editing, troubles>>
DeleteFresh(p) ==
  /\ OpAt(p, "catch") /\ op[p].fresh # NoObject
  /\ driveObjects' = [driveObjects EXCEPT ![op[p].fresh].there = FALSE]
  /\ op' = [op EXCEPT ![p].pc = Settle(p), ![p].fresh = NoObject]
  /\ UNCHANGED <<overlapped, file, row, bytes, editing, troubles>>

FailDelete(p) ==
  /\ OpAt(p, "catch") /\ op[p].fresh # NoObject
  /\ Suffer("failures")
  /\ OpGoto(p, "orphan")
  /\ UNCHANGED <<overlapped, file, row, driveObjects, bytes, editing>>

Failed(r) == [r EXCEPT !.status = "FAILED", !.lease = NoOperator, !.live = FALSE]

(* REMOTE_ORPHAN *)
RecordOrphan(p) ==
  /\ OpAt(p, "orphan")
  /\ row' = [row EXCEPT ![V(p)] = [Failed(@) EXCEPT !.remote = op[p].fresh]]
  /\ op' = [op EXCEPT ![p] = AtRest]
  /\ UNCHANGED <<overlapped, file, driveObjects, bytes, editing, troubles>>

ForgetMissing(p) ==
  /\ OpAt(p, "forget")
  /\ row' = [row EXCEPT ![V(p)] = [@ EXCEPT !.remote = NoObject, !.record = NoObject]]
  /\ OpGoto(p, "fail")
  /\ UNCHANGED <<overlapped, file, driveObjects, bytes, editing, troubles>>

RecordFailure(p) ==
  /\ OpAt(p, "fail")
  /\ row' = [row EXCEPT ![V(p)] = Failed(@)]
  /\ op' = [op EXCEPT ![p] = AtRest]
  /\ UNCHANGED <<overlapped, file, driveObjects, bytes, editing, troubles>>

(* An error before a statement took effect; a death, or a statement of the *)
(* error path that fails itself.                                            *)
RunFails(p) ==
  /\ op[p].pc \in Working /\ Suffer("failures")
  /\ OpGoto(p, "catch")
  /\ UNCHANGED <<overlapped, file, row, driveObjects, bytes, editing>>

RunDies(p) ==
  /\ op[p].pc # "rest" /\ Suffer("failures")
  /\ driveObjects' = [o \in ObjectIds |->
                        [driveObjects[o] EXCEPT !.lost = @ \/ o = op[p].fresh]]
  /\ op' = [op EXCEPT ![p] = AtRest]
  /\ UNCHANGED <<overlapped, file, row, bytes, editing>>

-----------------------------------------------------------------------------
(* rollback: the preserved bytes are checked, then the file is locked.     *)

RollbackRead(p) ==
  /\ OpAt(p, "rest") /\ Suffer("rollbacks")
  /\ row[file.current].status = "COMPLETED" /\ bytes = "intact"
  /\ op' = [op EXCEPT ![p] = [AtRest EXCEPT !.pc = "rollback", !.version = file.current,
                                !.remote = row[file.current].record]]
  /\ UNCHANGED <<overlapped, file, row, driveObjects, bytes, editing>>

\* Mutant: a version that came after the migration is not looked for.
RollsBackAny(p) == file.backing = "DRIVE" /\ file.linked = op[p].remote
MayRollBack(p) == /\ file.backing = "DRIVE" /\ file.linked = op[p].remote
                  /\ file.current = V(p)

Rollback(p) ==
  /\ OpAt(p, "rollback")
  /\ IF MayRollBack(p)
     THEN /\ file' = [file EXCEPT !.backing = "LOCAL", !.linked = NoObject]
          /\ row' = [row EXCEPT ![V(p)] = [@ EXCEPT !.status = "ROLLED_BACK",
                                          !.lease = NoOperator, !.live = FALSE]]
     ELSE UNCHANGED <<file, row>>
  /\ op' = [op EXCEPT ![p] = AtRest]
  /\ UNCHANGED <<overlapped, driveObjects, bytes, editing, troubles>>

-----------------------------------------------------------------------------
(* The surroundings: a user's new version, which FilesService.createVersion *)
(* appends whatever the backing; time; the bytes; the operator who closes   *)
(* an old editor session.                                                   *)

CreateVersion ==
  /\ file.current < MaxVersion /\ Suffer("versions")
  /\ file' = [file EXCEPT !.current = @ + 1]
  /\ UNCHANGED <<overlapped, row, driveObjects, bytes, editing, op>>

Held(v) == \E p \in Operators : Transfers(p, v) /\ row[v].lease = p

(* A lease runs out under its holder: an upload may take longer than its   *)
(* fifteen minutes.                                                        *)
LateLease(v) ==
  /\ row[v].live /\ Held(v) /\ Suffer("late")
  /\ row' = [row EXCEPT ![v].live = FALSE]
  /\ UNCHANGED <<overlapped, file, driveObjects, bytes, editing, op>>

DeadLease(v) ==
  /\ row[v].live /\ ~Held(v)
  /\ row' = [row EXCEPT ![v].live = FALSE]
  /\ UNCHANGED <<overlapped, file, driveObjects, bytes, editing, op, troubles>>

Damage ==
  /\ bytes = "intact" /\ Suffer("damage")
  /\ bytes' \in {"changed", "missing"}
  /\ UNCHANGED <<overlapped, file, row, driveObjects, editing, op>>

Repair ==
  /\ bytes # "intact" /\ bytes' = "intact"
  /\ UNCHANGED <<overlapped, file, row, driveObjects, editing, op, troubles>>

ResolveEditing ==
  /\ editing /\ editing' = FALSE
  /\ UNCHANGED <<overlapped, file, row, driveObjects, bytes, op, troubles>>

-----------------------------------------------------------------------------
MigrationInit ==
  /\ file = [current |-> 1, backing |-> "LOCAL", linked |-> NoObject]
  /\ row = [v \in Versions |-> NoRow]
  /\ driveObjects = [o \in ObjectIds |-> Unused] /\ bytes = "intact"
  /\ editing \in BOOLEAN
  /\ op = [p \in Operators |-> AtRest]
  /\ overlapped = FALSE /\ troubles \in Troubles

MigrateStep(p) ==
  \/ Load(p) \/ CheckSource(p) \/ RecordBlocked(p) \/ ReadRow(p) \/ ClaimRow(p)
  \/ Upload(p) \/ UploadNothing(p) \/ MarkUploaded(p) \/ Fetch(p) \/ RecordVerifying(p)
  \/ RegisterVerified(p) \/ Cutover(p) \/ SkipDelete(p) \/ DeleteFresh(p)
  \/ RecordOrphan(p) \/ ForgetMissing(p) \/ RecordFailure(p) \/ Rollback(p)

MigrationNext ==
  \/ \E p \in Operators : MigrateStep(p) \/ LoseUploadAnswer(p) \/ FailDelete(p)
                          \/ RunFails(p) \/ RunDies(p) \/ RollbackRead(p)
  \/ \E v \in Versions : LateLease(v) \/ DeadLease(v)
  \/ CreateVersion \/ Damage \/ Repair \/ ResolveEditing

MigrationSpec == MigrationInit /\ [][MigrationNext]_migrationVars

(* Operators repeat the command for what is not migrated (FAILED, BLOCKED  *)
(* and STALE are theirs to retry), repair the bytes and close old editor   *)
(* sessions; the lease of a dead process runs out.                         *)
FairMigrationSpec ==
  /\ MigrationSpec
  /\ \A p \in Operators : WF_migrationVars(MigrateStep(p))
  /\ \A v \in Versions : WF_migrationVars(DeadLease(v))
  /\ WF_migrationVars(Repair) /\ WF_migrationVars(ResolveEditing)

-----------------------------------------------------------------------------
(* The state has its types, and what refers to an object refers to one     *)
(* that was uploaded for the same version.                                 *)
Object(o, v) == o = NoObject \/ (o \in ObjectIds /\ driveObjects[o].version = v)

MigrationTypeOK ==
  /\ file.current \in Versions /\ file.backing \in {"LOCAL", "DRIVE"}
  /\ file.backing = "LOCAL" <=> file.linked = NoObject
  /\ \A v \in Versions : /\ row[v].status \in MigrationStatus
                         /\ row[v].lease \in Operators \cup {NoOperator}
                         /\ Object(row[v].remote, v) /\ Object(row[v].record, v)
  /\ \A p \in Operators : V(p) # 0 => Object(op[p].remote, V(p)) /\ Object(op[p].fresh, V(p))
  /\ bytes \in {"intact", "changed", "missing"}

(* The file never goes to Drive behind a newer version: at the cutover the *)
(* object linked was uploaded for the version that is current then, though *)
(* versions arrive and other runs overwrite the row in the meantime.  A    *)
(* rollback never hides anything either: the file returns to its local     *)
(* bytes only while the migrated version is the current one, and the row   *)
(* records it.                                                             *)
BackingFollowsVersion ==
  [][/\ file.backing = "LOCAL" /\ file'.backing = "DRIVE" =>
          driveObjects[file'.linked].version = file.current
     /\ file.backing = "DRIVE" /\ file'.backing = "LOCAL" =>
          /\ driveObjects[file.linked].version = file.current
          /\ row'[file.current].status = "ROLLED_BACK"]_migrationVars

(* No object is left behind: what is in Drive is linked or known to a row, *)
(* registered, or in the hands of a run.  Only a run that ended before its *)
(* error path did, an upload whose last answer and the query after it were *)
(* lost, or two runs on one version leave one that nobody knows.           *)
ObjectsAreTracked ==
  \A o \in ObjectIds :
    driveObjects[o].there /\ ~overlapped =>
      \/ driveObjects[o].registered \/ driveObjects[o].lost
      \/ row[driveObjects[o].version].remote = o
      \/ \E p \in Operators : op[p].fresh = o

(* With repetition, repair and finitely many failures the file gets to     *)
(* Drive, also past an object that has vanished or a row left by a death.  *)
MigrationEnds == []~overlapped => <>[](file.backing = "DRIVE")

=============================================================================
