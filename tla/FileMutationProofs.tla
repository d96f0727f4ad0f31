------------------------ MODULE FileMutationProofs ------------------------
(***************************************************************************)
(* Theorems about FileMutation, for any number of files, requests and       *)
(* operations, any history limit and any batch size: its invariants, and    *)
(* that it implements MutationOutcome.                                      *)
(***************************************************************************)
EXTENDS FileMutation, FiniteSetTheorems, TLAPS

USE ConstantsAssumption DEF Version, NoVersion

---------------------------------------------------------------------------
(* How the steps move the pieces of the state *)

LEMMA GotoType ==
    ASSUME TypeOK, NEW r \in Requests, NEW step \in Step, Goto(r, step)
    PROVE  req' \in [Requests -> Request]
<1>1. req[r] \in Request
  BY DEF TypeOK
<1>2. [req[r] EXCEPT !.pc = step] \in Request
  BY <1>1 DEF Request
<1>3. req' = [req EXCEPT ![r] = [req[r] EXCEPT !.pc = step]]
  BY DEF Goto
<1>4. QED BY <1>2, <1>3 DEF TypeOK

LEMMA GotoWithType ==
    ASSUME TypeOK, NEW r \in Requests, NEW step \in Step, NEW v \in Version,
           GotoWith(r, step, v)
    PROVE  req' \in [Requests -> Request]
<1>1. req[r] \in Request
  BY DEF TypeOK
<1>2. [req[r] EXCEPT !.pc = step, !.version = v] \in Request
  BY <1>1 DEF Request
<1>3. req' = [req EXCEPT ![r] = [req[r] EXCEPT !.pc = step, !.version = v]]
  BY DEF GotoWith
<1>4. QED BY <1>2, <1>3 DEF TypeOK

LEMMA NoRequestType == NoRequest \in Request
BY DEF NoRequest, Request, Step, Kind

LEMMA RefuseType ==
    ASSUME TypeOK, NEW r \in Requests, NEW answer \in Answered,
           Refuse(r, answer)
    PROVE  req' \in [Requests -> Request]
<1>1. [NoRequest EXCEPT !.pc = answer] \in Request
  BY NoRequestType DEF Request, Step
<1>2. QED BY <1>1 DEF TypeOK, Refuse

LEMMA UpdateOperationType ==
    ASSUME TypeOK, NEW o \in OpIds, NEW row \in Operation,
           UpdateOperation(o, row)
    PROVE  /\ ops' \in [OpIds -> Operation]
           /\ older' \subseteq OpIds \X OpIds
BY DEF TypeOK, UpdateOperation, Touched

LEMMA NewRevisionsType ==
    ASSUME TypeOK, NEW o \in OpIds
    PROVE  /\ Baseline(o) \subseteq Revision
           /\ ResultRevision(o) \in Revision
           /\ NewRevisions(o) \subseteq Revision
<1>1. ops[o] \in Operation /\ ops[o].file \in Files
      /\ revisionSequence[ops[o].file] \in Nat
  BY DEF TypeOK, Operation
<1>2. Baseline(o) \subseteq Revision
  BY <1>1 DEF Baseline, Revision, Operation, Source
<1>3. ResultRevision(o) \in Revision
  BY <1>1 DEF ResultRevision, Revision, Operation, Source
<1>4. QED BY <1>2, <1>3 DEF NewRevisions

LEMMA FinalizeType ==
    ASSUME TypeOK, NEW o \in OpIds, Finalize(o)
    PROVE  /\ ops' \in [OpIds -> Operation]
           /\ older' \subseteq OpIds \X OpIds
           /\ revisions' \subseteq Revision
           /\ revisionSequence' \in [Files -> Nat]
           /\ driveVersion' \in [Files -> Nat]
           /\ outbox' \subseteq Event
<1>1. ops[o] \in Operation /\ ops[o].file \in Files /\ ops[o].result \in Version
  BY DEF TypeOK, Operation
<1>2. [ops[o] EXCEPT !.status = "COMPLETED"] \in Operation
  BY <1>1 DEF Operation, Status
<1>3. UpdateOperation(o, [ops[o] EXCEPT !.status = "COMPLETED"])
  BY DEF Finalize
<1>4. ResultRevision(o).seq \in Nat
  BY NewRevisionsType DEF Revision
<1>5. ops' \in [OpIds -> Operation] /\ older' \subseteq OpIds \X OpIds
  BY <1>2, <1>3, UpdateOperationType
<1>6. revisions' \subseteq Revision
  BY NewRevisionsType DEF Finalize, TypeOK
<1>7. revisionSequence' \in [Files -> Nat]
  BY <1>1, <1>4 DEF Finalize, TypeOK
<1>8. driveVersion' \in [Files -> Nat]
  BY <1>1 DEF Finalize, TypeOK
<1>9. [op |-> o, file |-> ops[o].file, ver |-> ops[o].result.ver] \in Event
  BY <1>1 DEF Event
<1>10. outbox' \subseteq Event
  BY <1>9 DEF Finalize, TypeOK
<1>11. QED BY <1>5, <1>6, <1>7, <1>8, <1>10

---------------------------------------------------------------------------
(* Type correctness *)

LEMMA DriveType ==
    ASSUME TypeOK, NEW f \in Files
    PROVE  /\ drive[f] \in DriveObject
           /\ drive[f].ver \in Nat /\ drive[f].head \in Nat
           /\ CurrentVersion(f) \in Version
<1>1. drive[f] \in DriveObject
  BY DEF TypeOK
<1>2. QED BY <1>1 DEF DriveObject, CurrentVersion

LEMMA UploadToType ==
    ASSUME TypeOK, NEW f \in Files, UploadTo(f)
    PROVE  drive' \in [Files -> DriveObject]
<1>1. [drive[f] EXCEPT !.ver = @ + 1, !.head = @ + 1] \in DriveObject
  <2>1. drive[f].ver + 1 \in Nat /\ drive[f].head + 1 \in Nat
    BY DriveType
  <2>2. QED BY <2>1, DriveType DEF DriveObject
<1>2. drive' = [drive EXCEPT ![f] =
                  [drive[f] EXCEPT !.ver = @ + 1, !.head = @ + 1]]
  BY DEF UploadTo
<1>3. QED BY <1>1, <1>2 DEF TypeOK

LEMMA PreserveType ==
    ASSUME TypeOK, NEW f \in Files, NEW rev \in Nat, Preserve(f, rev)
    PROVE  drive' \in [Files -> DriveObject]
<1>1. PICK bump \in {0, 1} :
        drive' = [drive EXCEPT ![f].kept = @ \cup {rev}, ![f].ver = @ + bump]
  BY DEF Preserve
<1>2. [drive[f] EXCEPT !.kept = @ \cup {rev}, !.ver = @ + bump] \in DriveObject
  <2>1. drive[f].ver + bump \in Nat
    BY DriveType
  <2>2. drive[f].kept \cup {rev} \in SUBSET Nat
    BY DriveType DEF DriveObject
  <2>3. QED BY <2>1, <2>2, DriveType DEF DriveObject
<1>3. drive' = [drive EXCEPT ![f] =
                  [drive[f] EXCEPT !.kept = @ \cup {rev}, !.ver = @ + bump]]
  BY <1>1
<1>4. QED BY <1>2, <1>3 DEF TypeOK

LEMMA ReleaseType ==
    ASSUME TypeOK, NEW f \in Files, NEW rev \in Nat, Release(f, rev)
    PROVE  drive' \in [Files -> DriveObject]
<1>1. [drive[f] EXCEPT !.gone = @ \cup {rev}, !.kept = @ \ {rev}] \in DriveObject
  BY DriveType DEF DriveObject
<1>2. drive' = [drive EXCEPT ![f] =
                  [drive[f] EXCEPT !.gone = @ \cup {rev}, !.kept = @ \ {rev}]]
  BY DEF Release
<1>3. QED BY <1>1, <1>2 DEF TypeOK

LEMMA RequestType ==
    ASSUME TypeOK, NEW r \in Requests
    PROVE  /\ req[r] \in Request
           /\ req[r].pc \in Step /\ req[r].kind \in Kind
           /\ req[r].file \in Files /\ req[r].op \in OpIds
           /\ req[r].expected \in Nat /\ req[r].selected \in Nat
           /\ req[r].version \in Version
           /\ req[r].version.rev \in Nat
           /\ req[r].pruning \subseteq Revision
BY DEF TypeOK, Request

LEMMA OperationType ==
    ASSUME TypeOK, NEW o \in OpIds
    PROVE  /\ ops[o] \in Operation
           /\ ops[o].status \in Status /\ ops[o].result \in Version
           /\ \A status \in Status : [ops[o] EXCEPT !.status = status] \in Operation
<1>1. ops[o] \in Operation
  BY DEF TypeOK
<1>2. QED BY <1>1 DEF Operation

\* The requests' steps, first those that only move a program counter.
LEMMA ReadingStepType ==
    ASSUME TypeOK, NEW r \in Requests,
           \/ Start(r) \/ Replay(r) \/ ReplayAfterMismatch(r)
           \/ ReplayAfterCreate(r) \/ ReturnStored(r)
           \/ AssertNoUnresolvedMutation(r) \/ Stat(r) \/ ReadOldVersion(r)
           \/ OpenVersion(r) \/ CheckRevision(r) \/ ReadReplacedVersion(r)
           \/ ReadFinalVersion(r) \/ SelectPrunable(r) \/ Abandon(r)
    PROVE  TypeOK'
<1>. USE RequestType, OperationType
<1>1. CASE Start(r)
  <2>1. PICK k \in Kinds, f \in Files, o \in OpIds :
        \E v \in 1 .. drive[f].ver :
        \E x \in (IF k = "SAVE" THEN {0} ELSE {y.rev : y \in FileRevisions(f)}) :
           req' = [req EXCEPT ![r] =
                    [pc |-> "replay", kind |-> k, file |-> f, op |-> o,
                     expected |-> v, selected |-> x, version |-> NoVersion,
                     pruning |-> {}]]
    BY <1>1 DEF Start
  <2>2. PICK v \in 1 .. drive[f].ver,
             x \in (IF k = "SAVE" THEN {0} ELSE {y.rev : y \in FileRevisions(f)}) :
           req' = [req EXCEPT ![r] =
                    [pc |-> "replay", kind |-> k, file |-> f, op |-> o,
                     expected |-> v, selected |-> x, version |-> NoVersion,
                     pruning |-> {}]]
    BY <2>1
  <2>a. v \in Nat /\ k \in Kind
    BY DriveType DEF Kind
  <2>b. \A y \in FileRevisions(f) : y.rev \in Nat
    BY DEF TypeOK, FileRevisions, Revision
  <2>3. v \in Nat /\ x \in Nat /\ k \in Kind
    BY <2>a, <2>b
  <2>4. [pc |-> "replay", kind |-> k, file |-> f, op |-> o, expected |-> v,
         selected |-> x, version |-> NoVersion, pruning |-> {}] \in Request
    BY <2>3 DEF Request, Step
  <2>5. req' \in [Requests -> Request]
    BY <2>2, <2>4 DEF TypeOK
  <2>6. QED BY <1>1, <2>5 DEF Start, tables, worker, TypeOK
<1>2. ASSUME NEW step, NEW absent \in {"assert", "conflict", "error", "check"},
             ReplayFrom(r, step, absent)
      PROVE  TypeOK'
  <2>1. req' \in [Requests -> Request]
    BY <1>2, GotoType, GotoWithType, RefuseType DEF ReplayFrom, Step, Answered
  <2>2. QED BY <1>2, <2>1 DEF ReplayFrom, tables, worker, TypeOK
<1>3. CASE Replay(r) \/ ReplayAfterMismatch(r) \/ ReplayAfterCreate(r)
  BY <1>2, <1>3 DEF Replay, ReplayAfterMismatch, ReplayAfterCreate
<1>4. CASE ReturnStored(r)
  BY <1>4, GotoWithType DEF ReturnStored, Step, Answered, tables, worker, TypeOK
<1>5. CASE AssertNoUnresolvedMutation(r)
  <2>1. req' \in [Requests -> Request]
    BY <1>5, GotoType, RefuseType DEF AssertNoUnresolvedMutation, Step, Answered
  <2>2. QED BY <1>5, <2>1 DEF AssertNoUnresolvedMutation, tables, worker, TypeOK
<1>6. CASE Stat(r)
  BY <1>6, GotoType DEF Stat, Step, tables, worker, TypeOK
<1>7. CASE ReadOldVersion(r)
  <2>1. req' \in [Requests -> Request]
    BY <1>7, DriveType, GotoWithType, RefuseType
    DEF ReadOldVersion, Step, Answered
  <2>2. QED BY <1>7, <2>1 DEF ReadOldVersion, tables, worker, TypeOK
<1>8. CASE OpenVersion(r)
  <2>1. req' \in [Requests -> Request]
    BY <1>8, GotoType, RefuseType DEF OpenVersion, Step, Answered
  <2>2. QED BY <1>8, <2>1 DEF OpenVersion, tables, worker, TypeOK
<1>9. CASE CheckRevision(r)
  BY <1>9, GotoType DEF CheckRevision, Step, tables, worker, TypeOK
<1>10. CASE ReadReplacedVersion(r)
  BY <1>10, DriveType, GotoWithType
  DEF ReadReplacedVersion, Step, tables, worker, TypeOK
<1>11. CASE ReadFinalVersion(r)
  BY <1>11, DriveType, GotoWithType
  DEF ReadFinalVersion, Step, tables, worker, TypeOK
<1>12. CASE SelectPrunable(r)
  <2>1. BeyondLimit(req[r].file) \subseteq Revision
    BY DEF BeyondLimit, FileRevisions, TypeOK
  <2>2. [req[r] EXCEPT !.pc = "release",
                       !.pruning = BeyondLimit(req[r].file)] \in Request
    BY <2>1 DEF Request, Step
  <2>3. req' = [req EXCEPT ![r] = [req[r] EXCEPT !.pc = "release",
                       !.pruning = BeyondLimit(req[r].file)]]
    BY <1>12 DEF SelectPrunable
  <2>4. req' \in [Requests -> Request]
    BY <2>2, <2>3 DEF TypeOK
  <2>5. QED BY <1>12, <2>4 DEF SelectPrunable, tables, worker, TypeOK
<1>13. CASE Abandon(r)
  BY <1>13, RefuseType DEF Abandon, Answered, tables, worker, TypeOK
<1>14. QED
  BY <1>1, <1>3, <1>4, <1>5, <1>6, <1>7, <1>8, <1>9, <1>10, <1>11, <1>12, <1>13

\* Then those that write at the provider or in the database.
LEMMA WritingStepType ==
    ASSUME TypeOK, NEW r \in Requests,
           \/ ReplayFinalize(r) \/ PreserveOldVersion(r) \/ BeginOperation(r)
           \/ Upload(r) \/ RejectConflict(r) \/ PreserveNewVersion(r)
           \/ MarkProviderWritten(r) \/ FinalizeRequest(r)
           \/ ReleaseRow(r) \/ DeleteRow(r)
    PROVE  TypeOK'
<1>. USE RequestType
<1>1. CASE ReplayFinalize(r)
  <2>1. req' \in [Requests -> Request]
    BY <1>1, GotoType, RefuseType DEF ReplayFinalize, Step, Answered
  <2>2. CASE Finalize(req[r].op)
    BY <1>1, <2>1, <2>2, FinalizeType DEF ReplayFinalize, worker, TypeOK
  <2>3. CASE UNCHANGED tables
    BY <1>1, <2>1, <2>3 DEF ReplayFinalize, tables, worker, TypeOK
  <2>4. QED BY <1>1, <2>2, <2>3 DEF ReplayFinalize
<1>2. CASE PreserveOldVersion(r)
  BY <1>2, PreserveType, GotoType
  DEF PreserveOldVersion, Step, tables, worker, TypeOK
<1>3. CASE BeginOperation(r)
  <2>. DEFINE q == req[r]
              row == [status |-> "PENDING", file |-> q.file, kind |-> q.kind,
                expected |-> q.expected, selected |-> q.selected,
                previous |-> IF q.kind = "SAVE" THEN q.version ELSE NoVersion,
                result |-> NoVersion]
  <2>1. row \in Operation
    BY DEF Operation, Status
  <2>2. req' \in [Requests -> Request]
    BY <1>3, GotoType DEF BeginOperation, Step
  <2>3. UpdateOperation(q.op, row) \/ UNCHANGED <<ops, older>>
    BY <1>3 DEF BeginOperation
  <2>4. ops' \in [OpIds -> Operation] /\ older' \subseteq OpIds \X OpIds
    BY <2>1, <2>3, UpdateOperationType DEF TypeOK
  <2>5. QED BY <1>3, <2>2, <2>4 DEF BeginOperation, worker, TypeOK
<1>4. CASE Upload(r)
  <2>1. drive' \in [Files -> DriveObject] /\ req' \in [Requests -> Request]
    BY <1>4, UploadToType, GotoType DEF Upload, Step
  <2>2. drive[req[r].file].head + 1 \in Nat
    BY DriveType
  <2>3. writes' \subseteq Write
    BY <1>4, <2>2 DEF Upload, Write, TypeOK
  <2>4. QED BY <1>4, <2>1, <2>3 DEF Upload, tables, worker, TypeOK
<1>5. CASE RejectConflict(r)
  <2>1. req' \in [Requests -> Request]
    BY <1>5, RefuseType DEF RejectConflict, Answered
  <2>2. [ops[req[r].op] EXCEPT !.status = "FAILED"] \in Operation
    BY OperationType DEF Status
  <2>3. ops' \in [OpIds -> Operation] /\ older' \subseteq OpIds \X OpIds
    BY <1>5, <2>2, UpdateOperationType DEF RejectConflict, TypeOK
  <2>4. QED BY <1>5, <2>1, <2>3 DEF RejectConflict, worker, TypeOK
<1>6. CASE PreserveNewVersion(r)
  BY <1>6, PreserveType, GotoType
  DEF PreserveNewVersion, Step, tables, worker, TypeOK
<1>7. CASE MarkProviderWritten(r)
  <2>1. req' \in [Requests -> Request]
    BY <1>7, GotoType, RefuseType DEF MarkProviderWritten, Step, Answered
  <2>2. [ops[req[r].op] EXCEPT !.status = "PROVIDER_WRITTEN",
                               !.result = req[r].version] \in Operation
    <3>1. ops[req[r].op] \in Operation /\ req[r].version \in Version
      BY OperationType
    <3>2. "PROVIDER_WRITTEN" \in Status
      BY DEF Status
    <3>3. QED BY <3>1, <3>2 DEF Operation
  <2>3. ops' \in [OpIds -> Operation] /\ older' \subseteq OpIds \X OpIds
    BY <1>7, <2>2, UpdateOperationType DEF MarkProviderWritten, TypeOK
  <2>4. QED BY <1>7, <2>1, <2>3 DEF MarkProviderWritten, worker, TypeOK
<1>8. CASE FinalizeRequest(r)
  <2>1. req' \in [Requests -> Request]
    BY <1>8, GotoType, RefuseType DEF FinalizeRequest, Step, Answered
  <2>2. CASE Finalize(req[r].op)
    BY <1>8, <2>1, <2>2, FinalizeType DEF FinalizeRequest, worker, TypeOK
  <2>3. CASE UNCHANGED tables
    BY <1>8, <2>1, <2>3 DEF FinalizeRequest, tables, worker, TypeOK
  <2>4. QED BY <1>8, <2>2, <2>3 DEF FinalizeRequest
<1>9. CASE ReleaseRow(r)
  <2>1. ASSUME NEW x \in req[r].pruning,
               req' = [req EXCEPT ![r].pruning = @ \ {x}]
        PROVE  req' \in [Requests -> Request]
    <3>1. [req[r] EXCEPT !.pruning = @ \ {x}] \in Request
      BY DEF Request
    <3>2. QED BY <2>1, <3>1 DEF TypeOK
  <2>2. req' \in [Requests -> Request]
    BY <1>9, <2>1, GotoType DEF ReleaseRow, Step, Answered
  <2>3. drive' \in [Files -> DriveObject]
    <3>1. \A x \in req[r].pruning : x.file \in Files /\ x.rev \in Nat
      BY DEF Revision
    <3>2. QED BY <1>9, <3>1, ReleaseType DEF ReleaseRow, TypeOK
  <2>4. QED BY <1>9, <2>2, <2>3 DEF ReleaseRow, tables, worker, TypeOK
<1>10. CASE DeleteRow(r)
  <2>1. PICK x \in req[r].pruning :
          req' = [req EXCEPT ![r].pc = "release", ![r].pruning = @ \ {x}]
    BY <1>10 DEF DeleteRow
  <2>2. [req[r] EXCEPT !.pc = "release", !.pruning = @ \ {x}] \in Request
    BY DEF Request, Step
  <2>3. req' = [req EXCEPT ![r] = [req[r] EXCEPT !.pc = "release",
                                                 !.pruning = @ \ {x}]]
    BY <2>1
  <2>4. req' \in [Requests -> Request]
    BY <2>2, <2>3 DEF TypeOK
  <2>5. revisions' \subseteq revisions
    BY <1>10 DEF DeleteRow
  <2>6. QED BY <1>10, <2>4, <2>5 DEF DeleteRow, worker, TypeOK
<1>11. QED
  BY <1>1, <1>2, <1>3, <1>4, <1>5, <1>6, <1>7, <1>8, <1>9, <1>10

LEMMA WorkerStepType == TypeOK /\ WorkerStep => TypeOK'
<1>. SUFFICES ASSUME TypeOK, WorkerStep PROVE TypeOK'
  OBVIOUS
<1>1. CASE Scan
  <2>1. PICK n \in 0 .. BatchSize : ScanFirst(n)
    BY <1>1 DEF Scan
  <2>2. PICK b \in [1 .. n -> UnresolvedOps] :
          batch' = [i \in 1 .. n |-> [op |-> b[i], status |-> ops[b[i]].status]]
    BY <2>1 DEF ScanFirst
  <2>3. \A i \in 1 .. n : [op |-> b[i], status |-> ops[b[i]].status]
                             \in [op : OpIds, status : Unresolved]
    BY DEF UnresolvedOps
  <2>4. n \in Nat
    OBVIOUS
  <2>5. batch' \in Seq([op : OpIds, status : Unresolved])
    BY <2>2, <2>3, <2>4
  <2>6. QED BY <2>1, <2>5 DEF ScanFirst, tables, TypeOK
<1>2. batch # <<>> => Tail(batch) \in Seq([op : OpIds, status : Unresolved])
  BY DEF TypeOK
<1>3. CASE SkipPending
  BY <1>2, <1>3 DEF SkipPending, tables, TypeOK
<1>4. CASE MarkFailed
  <2>1. failing \in OpIds
    BY <1>4 DEF MarkFailed, TypeOK
  <2>2. [ops[failing] EXCEPT !.status = "FAILED"] \in Operation
    BY <2>1, OperationType DEF Status
  <2>3. ops' \in [OpIds -> Operation] /\ older' \subseteq OpIds \X OpIds
    BY <1>4, <2>1, <2>2, UpdateOperationType DEF MarkFailed
  <2>4. QED BY <1>4, <2>3 DEF MarkFailed, TypeOK
<1>5. CASE RestartWorker
  BY <1>5 DEF RestartWorker, tables, TypeOK
<1>6. ASSUME NEW o \in OpIds, Reconcile(o)
      PROVE  TypeOK'
  BY <1>2, <1>6, FinalizeType DEF Reconcile, NextToReconcile, TypeOK
<1>7. ASSUME NEW o \in OpIds, ReconcileUnrecoverable(o)
      PROVE  TypeOK'
  BY <1>2, <1>7 DEF ReconcileUnrecoverable, NextToReconcile, tables, TypeOK
<1>8. ASSUME NEW o \in OpIds, ReconcileRetryLater(o)
      PROVE  TypeOK'
  <2>1. ops' \in [OpIds -> Operation] /\ older' \subseteq OpIds \X OpIds
    BY <1>8, OperationType, UpdateOperationType DEF ReconcileRetryLater
  <2>2. QED
    BY <1>2, <1>8, <2>1 DEF ReconcileRetryLater, NextToReconcile, TypeOK
<1>9. QED
  BY <1>1, <1>3, <1>4, <1>5, <1>6, <1>7, <1>8 DEF WorkerStep

LEMMA RemoteEditType ==
    ASSUME TypeOK, NEW f \in Files, RemoteEdit(f)
    PROVE  TypeOK'
BY UploadToType DEF RemoteEdit, tables, worker, TypeOK

LEMMA InitType == Init => TypeOK
<1>. SUFFICES ASSUME NEW managed \in SUBSET Files,
                     Init!(managed)
              PROVE  TypeOK
  BY DEF Init
<1>1. (CHOOSE f \in Files : TRUE) \in Files
  OBVIOUS
<1>2. drive \in [Files -> DriveObject]
  BY DEF DriveObject
<1>3. ops \in [OpIds -> Operation]
  BY <1>1 DEF Operation, Status, Kind
<1>4. revisions \subseteq Revision
  BY DEF Revision, Source
<1>5. QED
  BY <1>2, <1>3, <1>4, NoRequestType DEF TypeOK

LEMMA NextType == TypeOK /\ [Next]_vars => TypeOK'
<1>. SUFFICES ASSUME TypeOK, [Next]_vars PROVE TypeOK'
  OBVIOUS
<1>1. ASSUME NEW r \in Requests, RequestStep(r) PROVE TypeOK'
  BY <1>1, ReadingStepType, WritingStepType DEF RequestStep
<1>2. CASE UNCHANGED vars
  BY <1>2 DEF vars, TypeOK
<1>3. QED
  BY <1>1, <1>2, WorkerStepType, RemoteEditType DEF Next

\* Every reachable state is well typed, whatever the requests, the worker and
\* the editors outside DocHub do.
THEOREM TypeCorrect == Spec => []TypeOK
BY InitType, NextType, PTL DEF Spec

---------------------------------------------------------------------------
(* The history is a sequence *)

\* What one finalization adds: at most a baseline, then the result, both past
\* every position given out so far.
LEMMA NewRevisionsFacts ==
    ASSUME TypeOK, NEW o \in OpIds, ~Recorded(o)
    PROVE  /\ NewRevisions(o) = Baseline(o) \cup {ResultRevision(o)}
           /\ ResultRevision(o).file = ops[o].file
           /\ ResultRevision(o).op = o
           /\ ResultRevision(o).rev = ops[o].result.rev
           /\ ResultRevision(o).seq \in Nat
           /\ ResultRevision(o).seq > revisionSequence[ops[o].file]
           /\ \A b \in Baseline(o) :
                /\ b.file = ops[o].file
                /\ b.op = NoOp
                /\ b.seq = revisionSequence[ops[o].file] + 1
                /\ b.seq < ResultRevision(o).seq
                /\ FileRevisions(ops[o].file) = {}
                /\ \A c \in Baseline(o) : c = b
           /\ ResultRevision(o).source # "INITIAL"
<1>1. ops[o].file \in Files /\ revisionSequence[ops[o].file] \in Nat
  BY DEF TypeOK, Operation
<1>2. NewRevisions(o) = Baseline(o) \cup {ResultRevision(o)}
  BY DEF NewRevisions
<1>3. /\ ResultRevision(o).file = ops[o].file
      /\ ResultRevision(o).op = o
      /\ ResultRevision(o).rev = ops[o].result.rev
      /\ ResultRevision(o).seq = revisionSequence[ops[o].file]
                                    + (IF Baseline(o) = {} THEN 1 ELSE 2)
      /\ ResultRevision(o).source # "INITIAL"
  BY DEF ResultRevision
<1>4. ASSUME NEW b \in Baseline(o)
      PROVE  /\ b.file = ops[o].file
             /\ b.op = NoOp
             /\ b.seq = revisionSequence[ops[o].file] + 1
             /\ FileRevisions(ops[o].file) = {}
             /\ \A c \in Baseline(o) : c = b
  BY DEF Baseline
<1>5. QED BY <1>1, <1>2, <1>3, <1>4

LEMMA FinalizeHistory ==
    ASSUME TypeOK, HistoryIsSequence, NEW o \in OpIds, Finalize(o)
    PROVE  /\ HistoryIsSequence'
           /\ \A x \in revisions' \ revisions : x.seq > revisionSequence[x.file]
<1>1. CASE Recorded(o)
  <2>1. UNCHANGED <<revisions, revisionSequence>>
    BY <1>1 DEF Finalize, NewRevisions
  <2>2. QED BY <2>1 DEF HistoryIsSequence
<1>2. CASE ~Recorded(o)
  <2>. DEFINE f == ops[o].file
              res == ResultRevision(o)
  <2>1. revisions' = revisions \cup (Baseline(o) \cup {res})
    BY <1>2, NewRevisionsFacts DEF Finalize
  <2>2. revisionSequence' = [revisionSequence EXCEPT ![f] = res.seq]
    BY <1>2 DEF Finalize
  <2>3. f \in Files /\ revisionSequence \in [Files -> Nat]
    BY DEF TypeOK, Operation
  <2>4. \A g \in Files : /\ revisionSequence'[g] \in Nat
                         /\ revisionSequence'[g] >= revisionSequence[g]
        /\ revisionSequence'[f] = res.seq
    BY <1>2, <2>2, <2>3, NewRevisionsFacts
  <2>5. \A x \in revisions : /\ x.file \in Files /\ x.seq \in Nat
                             /\ 1 <= x.seq /\ x.seq <= revisionSequence[x.file]
    BY DEF TypeOK, Revision, HistoryIsSequence
  <2>6. \A x \in revisions : x.file = f => x.seq < res.seq /\ x.rev # res.rev
    <3>1. \A x \in FileRevisions(f) : x.rev # res.rev
      BY <1>2, NewRevisionsFacts DEF Finalize, CanFinalize, Clashes
    <3>2. QED
      BY <1>2, <2>3, <2>5, <3>1, NewRevisionsFacts DEF FileRevisions
  <2>7. \A b \in Baseline(o) :
          /\ b.file = f /\ b.op = NoOp /\ b.rev # res.rev
          /\ b.seq = revisionSequence[f] + 1 /\ b.seq < res.seq
          /\ \A x \in revisions : x.file # f
          /\ \A c \in Baseline(o) : c = b
    <3>1. \A b \in Baseline(o) : b.rev # res.rev
      BY <1>2, NewRevisionsFacts DEF Finalize, CanFinalize, Clashes
    <3>2. QED BY <1>2, <3>1, NewRevisionsFacts DEF FileRevisions
  <2>8. \A x \in revisions : x.op # o
    BY <1>2 DEF Recorded
  <2>9. /\ res.file = f /\ res.op = o /\ o # NoOp
        /\ res.seq \in Nat /\ res.seq > revisionSequence[f]
    BY <1>2, NewRevisionsFacts
  <2>10. \A x \in revisions' : x.seq \in 1 .. revisionSequence'[x.file]
    BY <2>1, <2>3, <2>4, <2>5, <2>7, <2>9
  <2>11. \A x, y \in revisions' :
            x.file = y.file /\ (x.seq = y.seq \/ x.rev = y.rev) => x = y
    <3>. SUFFICES ASSUME NEW x \in revisions', NEW y \in revisions',
                         x.file = y.file, x.seq = y.seq \/ x.rev = y.rev
                  PROVE  x = y
      OBVIOUS
    <3>1. CASE x \in revisions /\ y \in revisions
      BY <3>1 DEF HistoryIsSequence
    <3>2. CASE x \in Baseline(o) \/ y \in Baseline(o)
      BY <2>1, <2>3, <2>7, <2>9, <3>2
    <3>3. CASE x \notin Baseline(o) /\ y \notin Baseline(o) /\ (x = res \/ y = res)
      BY <2>1, <2>5, <2>6, <2>9, <3>3
    <3>4. QED BY <2>1, <3>1, <3>2, <3>3
  <2>12. \A x, y \in revisions' : x.op = y.op /\ x.op # NoOp => x = y
    BY <2>1, <2>7, <2>8, <2>9 DEF HistoryIsSequence
  <2>13. \A x \in revisions' \ revisions : x.seq > revisionSequence[x.file]
    BY <2>1, <2>3, <2>7, <2>9
  <2>14. \A x, y \in revisions' :
            x.file = y.file /\ x.source = "INITIAL" => x.seq <= y.seq
    <3>1. res.source # "INITIAL"
      BY <1>2, NewRevisionsFacts
    <3>. SUFFICES ASSUME NEW x \in revisions', NEW y \in revisions',
                         x.file = y.file, x.source = "INITIAL"
                  PROVE  x.seq <= y.seq
      OBVIOUS
    <3>2. CASE x \in revisions /\ y \in revisions
      BY <3>2 DEF HistoryIsSequence
    <3>3. CASE x \in Baseline(o)
      BY <2>1, <2>3, <2>7, <2>9, <3>3
    <3>4. CASE x \in revisions /\ y \notin revisions
      BY <2>1, <2>5, <2>6, <2>7, <2>9, <3>4
    <3>5. QED BY <2>1, <3>1, <3>2, <3>3, <3>4
  <2>15. QED BY <2>10, <2>11, <2>12, <2>13, <2>14 DEF HistoryIsSequence
<1>3. QED BY <1>1, <1>2

\* The steps that touch the history: a finalization adds to it, a deletion
\* removes from it, and no other step changes it.
LEMMA HistorySteps ==
    ASSUME TypeOK, [Next]_vars
    PROVE  \/ \E o \in OpIds : Finalize(o)
           \/ revisions' \subseteq revisions /\ UNCHANGED revisionSequence
<1>1. ASSUME NEW r \in Requests, RequestStep(r)
      PROVE  \/ \E o \in OpIds : Finalize(o)
             \/ revisions' \subseteq revisions /\ UNCHANGED revisionSequence
  <2>1. req[r].op \in OpIds
    BY RequestType
  <2>2. CASE ReplayFinalize(r) \/ FinalizeRequest(r)
    BY <2>1, <2>2 DEF ReplayFinalize, FinalizeRequest, tables
  <2>3. CASE DeleteRow(r)
    BY <2>3 DEF DeleteRow
  <2>4. CASE ~ (ReplayFinalize(r) \/ FinalizeRequest(r) \/ DeleteRow(r))
    BY <1>1, <2>4 DEF RequestStep, Start, Replay, ReplayAfterMismatch,
       ReplayAfterCreate, ReplayFrom, ReturnStored, AssertNoUnresolvedMutation,
       Stat, ReadOldVersion, OpenVersion, PreserveOldVersion, BeginOperation,
       CheckRevision, Upload, RejectConflict, ReadReplacedVersion,
       PreserveNewVersion, ReadFinalVersion, MarkProviderWritten,
       SelectPrunable, ReleaseRow, Abandon, tables
  <2>5. QED BY <2>2, <2>3, <2>4
<1>2. CASE WorkerStep
  BY <1>2 DEF WorkerStep, Scan, ScanFirst, SkipPending, MarkFailed,
     RestartWorker, Reconcile, ReconcileUnrecoverable, ReconcileRetryLater,
     tables
<1>3. CASE \E f \in Files : RemoteEdit(f)
  BY <1>3 DEF RemoteEdit, tables
<1>4. CASE UNCHANGED vars
  BY <1>4 DEF vars
<1>5. QED BY <1>1, <1>2, <1>3, <1>4 DEF Next

LEMMA NextHistory ==
    ASSUME TypeOK, HistoryIsSequence, [Next]_vars
    PROVE  /\ HistoryIsSequence'
           /\ \A x \in revisions' \ revisions : x.seq > revisionSequence[x.file]
<1>1. ASSUME NEW o \in OpIds, Finalize(o)
      PROVE  /\ HistoryIsSequence'
             /\ \A x \in revisions' \ revisions : x.seq > revisionSequence[x.file]
  BY <1>1, FinalizeHistory
<1>2. CASE revisions' \subseteq revisions /\ UNCHANGED revisionSequence
  BY <1>2 DEF HistoryIsSequence
<1>3. QED BY <1>1, <1>2, HistorySteps

LEMMA InitHistory == Init => HistoryIsSequence
BY DEF Init, HistoryIsSequence

\* The history of every file stays a sequence: positions and provider
\* versions are never shared, and an operation owns at most one row.
THEOREM HistorySequence == Spec => []HistoryIsSequence
<1>1. Init => TypeOK /\ HistoryIsSequence
  BY InitType, InitHistory
<1>2. TypeOK /\ HistoryIsSequence /\ [Next]_vars
        => TypeOK' /\ HistoryIsSequence'
  BY NextType, NextHistory
<1>3. QED BY <1>1, <1>2, PTL DEF Spec

\* No position of a file's history is given out twice, not even after
\* retention has deleted the row that held it.
THEOREM PositionsNeverReused == Spec => PositionsGrow
<1>1. TypeOK /\ HistoryIsSequence /\ [Next]_vars
        => [\A x \in revisions' \ revisions :
              x.seq > revisionSequence[x.file]]_vars
  BY NextHistory
<1>2. QED
  BY <1>1, TypeCorrect, HistorySequence, PTL DEF Spec, PositionsGrow

---------------------------------------------------------------------------
(* One provider write per save *)

\* A save between its insert and its upload: the calls that may still write.
MayWrite(r) == req[r].kind = "SAVE" /\ req[r].pc \in {"check", "upload"}

\* Only the call whose insert made the row gets there, so it is alone with its
\* operation id and nobody has written for that id yet.
SaveOwnership ==
    \A r \in Requests : MayWrite(r) =>
        /\ ops[req[r].op].status # "ABSENT"
        /\ \A w \in writes : ~ (w.op = req[r].op /\ w.kind = "SAVE")
        /\ \A q \in Requests : MayWrite(q) /\ req[q].op = req[r].op => q = r

\* No step ever removes an operation row.
LEMMA RowsStay ==
    ASSUME TypeOK, [Next]_vars, NEW o \in OpIds, ops[o].status # "ABSENT"
    PROVE  ops'[o].status # "ABSENT"
<1>. DEFINE Stays == ops'[o].status # "ABSENT"
<1>1. ops \in [OpIds -> Operation]
  BY DEF TypeOK
<1>2. ASSUME NEW p \in OpIds, NEW row \in Operation, row.status # "ABSENT",
             UpdateOperation(p, row)
      PROVE  Stays
  BY <1>1, <1>2 DEF UpdateOperation
<1>3. ASSUME NEW p \in OpIds, NEW status \in Status \ {"ABSENT"},
             UpdateOperation(p, [ops[p] EXCEPT !.status = status])
      PROVE  Stays
  <2>1. /\ [ops[p] EXCEPT !.status = status] \in Operation
        /\ [ops[p] EXCEPT !.status = status].status = status
    BY OperationType DEF Operation
  <2>2. QED BY <1>2, <1>3, <2>1
<1>4. ASSUME NEW p \in OpIds, Finalize(p)
      PROVE  Stays
  BY <1>3, <1>4 DEF Finalize, Status
<1>5. ASSUME NEW r \in Requests, RequestStep(r)
      PROVE  Stays
  <2>1. req[r].op \in OpIds
    BY RequestType
  <2>2. CASE BeginOperation(r)
    <3>. DEFINE q == req[r]
                row == [status |-> "PENDING", file |-> q.file, kind |-> q.kind,
                  expected |-> q.expected, selected |-> q.selected,
                  previous |-> IF q.kind = "SAVE" THEN q.version ELSE NoVersion,
                  result |-> NoVersion]
    <3>1. row \in Operation /\ row.status = "PENDING"
      BY RequestType DEF Operation, Status
    <3>2. UpdateOperation(q.op, row) \/ UNCHANGED ops
      BY <2>2 DEF BeginOperation
    <3>3. QED BY <1>2, <2>1, <3>1, <3>2
  <2>3. CASE RejectConflict(r)
    <3>1. UpdateOperation(req[r].op, [ops[req[r].op] EXCEPT !.status = "FAILED"])
            \/ UNCHANGED ops
      BY <2>3 DEF RejectConflict
    <3>2. QED BY <1>3, <2>1, <3>1 DEF Status
  <2>4. CASE MarkProviderWritten(r)
    <3>. DEFINE row == [ops[req[r].op] EXCEPT !.status = "PROVIDER_WRITTEN",
                                              !.result = req[r].version]
    <3>1. UpdateOperation(req[r].op, row) \/ UNCHANGED ops
      BY <2>4 DEF MarkProviderWritten
    <3>2. ops[req[r].op] \in Operation /\ req[r].version \in Version
      BY <2>1, OperationType, RequestType
    <3>3. row \in Operation /\ row.status = "PROVIDER_WRITTEN"
      BY <3>2 DEF Operation, Status
    <3>4. QED BY <1>2, <2>1, <3>1, <3>3
  <2>5. CASE ReplayFinalize(r) \/ FinalizeRequest(r)
    BY <1>4, <2>1, <2>5 DEF ReplayFinalize, FinalizeRequest, tables
  <2>6. CASE ~ (\/ BeginOperation(r) \/ RejectConflict(r)
                \/ MarkProviderWritten(r) \/ ReplayFinalize(r)
                \/ FinalizeRequest(r))
    BY <1>5, <2>6 DEF RequestStep, Start, Replay, ReplayAfterMismatch,
       ReplayAfterCreate, ReplayFrom, ReturnStored, AssertNoUnresolvedMutation,
       Stat, ReadOldVersion, OpenVersion, PreserveOldVersion, CheckRevision,
       Upload, ReadReplacedVersion, PreserveNewVersion, ReadFinalVersion,
       SelectPrunable, ReleaseRow, DeleteRow, Abandon, tables
  <2>7. QED BY <2>2, <2>3, <2>4, <2>5, <2>6
<1>6. CASE WorkerStep
  <2>1. CASE MarkFailed
    BY <1>3, <2>1 DEF MarkFailed, TypeOK, Status
  <2>2. ASSUME NEW p \in OpIds, Reconcile(p) PROVE Stays
    BY <1>4, <2>2 DEF Reconcile
  <2>3. ASSUME NEW p \in OpIds, ReconcileRetryLater(p) PROVE Stays
    BY <2>3 DEF ReconcileRetryLater, UpdateOperation, TypeOK
  <2>4. ASSUME NEW p \in OpIds, ReconcileUnrecoverable(p) PROVE Stays
    BY <2>4 DEF ReconcileUnrecoverable, tables
  <2>5. CASE Scan \/ SkipPending \/ RestartWorker
    BY <2>5 DEF Scan, ScanFirst, SkipPending, RestartWorker, tables
  <2>6. QED BY <1>6, <2>1, <2>2, <2>3, <2>4, <2>5 DEF WorkerStep
<1>7. CASE (\E f \in Files : RemoteEdit(f)) \/ UNCHANGED vars
  BY <1>7 DEF RemoteEdit, tables, vars
<1>8. QED BY <1>5, <1>6, <1>7 DEF Next

LEMMA GotoEffect ==
    ASSUME TypeOK, NEW r \in Requests, NEW step, Goto(r, step)
    PROVE  /\ req'[r].pc = step /\ req'[r].kind = req[r].kind
           /\ req'[r].op = req[r].op
           /\ \A q \in Requests \ {r} : req'[q] = req[q]
<1>1. req \in [Requests -> Request] /\ req[r] \in Request
  BY DEF TypeOK
<1>2. req' = [req EXCEPT ![r] = [req[r] EXCEPT !.pc = step]]
  BY DEF Goto
<1>3. QED BY <1>1, <1>2 DEF Request

LEMMA GotoWithEffect ==
    ASSUME TypeOK, NEW r \in Requests, NEW step, NEW v, GotoWith(r, step, v)
    PROVE  /\ req'[r].pc = step /\ req'[r].kind = req[r].kind
           /\ req'[r].op = req[r].op
           /\ \A q \in Requests \ {r} : req'[q] = req[q]
<1>1. req \in [Requests -> Request] /\ req[r] \in Request
  BY DEF TypeOK
<1>2. req' = [req EXCEPT ![r] = [req[r] EXCEPT !.pc = step, !.version = v]]
  BY DEF GotoWith
<1>3. QED BY <1>1, <1>2 DEF Request

LEMMA RefuseEffect ==
    ASSUME TypeOK, NEW r \in Requests, NEW answer \in Answered, Refuse(r, answer)
    PROVE  /\ req'[r].pc = answer
           /\ \A q \in Requests \ {r} : req'[q] = req[q]
<1>1. req \in [Requests -> Request] /\ NoRequest \in Request
  BY NoRequestType DEF TypeOK
<1>2. QED BY <1>1 DEF Refuse, Request

\* The permission to write is gained by an insert only, and lost by writing.
LEMMA WriterSteps ==
    ASSUME TypeOK, NEW r \in Requests, RequestStep(r)
    PROVE  /\ \A q \in Requests \ {r} : req'[q] = req[q]
           /\ MayWrite(r)' =>
                /\ req'[r].op = req[r].op /\ writes' = writes
                /\ \/ MayWrite(r)
                   \/ /\ ops[req[r].op].status = "ABSENT"
                      /\ ops'[req[r].op].status # "ABSENT"
           /\ \/ writes' = writes
              \/ /\ req[r].pc = "upload"
                 /\ \E w \in Write :
                       /\ w.op = req[r].op /\ w.kind = req[r].kind
                       /\ writes' = writes \cup {w}
<1>. DEFINE Alone == \A q \in Requests \ {r} : req'[q] = req[q]
            Quiet == Alone /\ writes' = writes /\ ~ MayWrite(r)'
<1>. USE RequestType, GotoEffect, GotoWithEffect, RefuseEffect
<1>1. CASE Start(r)
  BY <1>1 DEF Start, MayWrite, TypeOK
<1>2. CASE Replay(r) \/ ReplayAfterMismatch(r)
  <2>1. ASSUME NEW step, NEW absent \in {"assert", "conflict"},
               ReplayFrom(r, step, absent)
        PROVE  Quiet
    BY <2>1 DEF ReplayFrom, MayWrite, Answered
  <2>2. QED BY <1>2, <2>1 DEF Replay, ReplayAfterMismatch
<1>3. CASE ReplayAfterCreate(r)
  <2>1. CASE req[r].kind = "SAVE"
    <3>1. ReplayFrom(r, "rebegin", "error")
      BY <1>3, <2>1 DEF ReplayAfterCreate
    <3>2. QED BY <3>1 DEF ReplayFrom, MayWrite, Answered
  <2>2. CASE req[r].kind # "SAVE"
    <3>1. ReplayFrom(r, "rebegin", "check")
      BY <1>3, <2>2 DEF ReplayAfterCreate
    <3>2. QED BY <2>2, <3>1 DEF ReplayFrom, MayWrite, Answered
  <2>3. QED BY <2>1, <2>2
<1>4. CASE ReplayFinalize(r) \/ FinalizeRequest(r)
  BY <1>4 DEF ReplayFinalize, FinalizeRequest, MayWrite, Answered
<1>5. CASE ReturnStored(r) \/ AssertNoUnresolvedMutation(r) \/ Stat(r)
           \/ OpenVersion(r) \/ PreserveOldVersion(r) \/ Abandon(r)
  BY <1>5 DEF ReturnStored, AssertNoUnresolvedMutation, Stat, OpenVersion,
     PreserveOldVersion, Abandon, MayWrite, Answered
<1>6. CASE ReadOldVersion(r)
  BY <1>6 DEF ReadOldVersion, MayWrite, Answered, Kind
<1>7. CASE BeginOperation(r)
  <2>1. CASE Goto(r, "rebegin")
    BY <1>7, <2>1 DEF BeginOperation, MayWrite
  <2>2. CASE ~ Goto(r, "rebegin")
    <3>1. /\ Goto(r, "check") /\ ops[req[r].op].status = "ABSENT"
          /\ UNCHANGED writes
      BY <1>7, <2>2 DEF BeginOperation
    <3>2. ops'[req[r].op].status = "PENDING"
      BY <1>7, <2>2 DEF BeginOperation, UpdateOperation, TypeOK
    <3>3. QED BY <3>1, <3>2 DEF MayWrite
  <2>3. QED BY <2>1, <2>2
<1>8. CASE CheckRevision(r)
  BY <1>8 DEF CheckRevision, MayWrite, At
<1>9. CASE Upload(r)
  <2>1. drive[req[r].file].head + 1 \in Nat
    BY DriveType
  <2>2. QED BY <1>9, <2>1 DEF Upload, MayWrite, At, Write
<1>10. CASE RejectConflict(r) \/ ReadReplacedVersion(r) \/ PreserveNewVersion(r)
            \/ ReadFinalVersion(r) \/ MarkProviderWritten(r)
  BY <1>10 DEF RejectConflict, ReadReplacedVersion, PreserveNewVersion,
     ReadFinalVersion, MarkProviderWritten, MayWrite, Answered
<1>11. req \in [Requests -> Request] /\ req[r] \in Request
  BY DEF TypeOK
<1>12. CASE SelectPrunable(r) \/ DeleteRow(r)
  <2>1. PICK rows :
          req' = [req EXCEPT ![r] = [req[r] EXCEPT !.pc = "release",
                                                   !.pruning = rows]]
    <3>1. CASE SelectPrunable(r)
      <4>1. req' = [req EXCEPT ![r] = [req[r] EXCEPT !.pc = "release",
                      !.pruning = BeyondLimit(req[r].file)]]
        BY <3>1 DEF SelectPrunable
      <4>2. QED BY <4>1
    <3>2. CASE DeleteRow(r)
      <4>1. PICK x \in req[r].pruning :
              req' = [req EXCEPT ![r].pc = "release", ![r].pruning = @ \ {x}]
        BY <3>2 DEF DeleteRow
      <4>2. req' = [req EXCEPT ![r] = [req[r] EXCEPT !.pc = "release",
                      !.pruning = req[r].pruning \ {x}]]
        BY <4>1
      <4>3. QED BY <4>2
    <3>3. QED BY <1>12, <3>1, <3>2
  <2>2. req'[r].pc = "release" /\ Alone
    BY <1>11, <2>1 DEF Request
  <2>3. QED BY <1>12, <2>2 DEF SelectPrunable, DeleteRow, MayWrite
<1>13. CASE ReleaseRow(r)
  <2>1. CASE Goto(r, "ok") \/ Goto(r, "delete")
    BY <1>13, <2>1 DEF ReleaseRow, MayWrite
  <2>2. ASSUME NEW x, req' = [req EXCEPT ![r].pruning = @ \ {x}]
        PROVE  Quiet
    <3>1. req' = [req EXCEPT ![r] = [req[r] EXCEPT !.pruning = @ \ {x}]]
      BY <2>2
    <3>2. req'[r].pc = req[r].pc /\ Alone
      BY <1>11, <3>1 DEF Request
    <3>3. QED BY <1>13, <3>2 DEF ReleaseRow, MayWrite, At
  <2>3. QED BY <1>13, <2>1, <2>2 DEF ReleaseRow
<1>14. QED
  BY <1>1, <1>2, <1>3, <1>4, <1>5, <1>6, <1>7, <1>8, <1>9, <1>10, <1>12,
     <1>13 DEF RequestStep

LEMMA NextSaves ==
    ASSUME TypeOK, SaveOwnership, SaveWritesOnce, [Next]_vars
    PROVE  SaveOwnership' /\ SaveWritesOnce'
<1>1. \A o \in OpIds : ops[o].status # "ABSENT" => ops'[o].status # "ABSENT"
  BY RowsStay
<1>2. \A w \in writes : w.op \in OpIds
  BY DEF TypeOK, Write
<1>3. ASSUME req' = req, writes' = writes
      PROVE  SaveOwnership' /\ SaveWritesOnce'
  BY <1>1, <1>2, <1>3, RequestType DEF SaveOwnership, SaveWritesOnce, MayWrite
<1>4. ASSUME NEW r \in Requests, RequestStep(r)
      PROVE  SaveOwnership' /\ SaveWritesOnce'
  <2>1. /\ \A q \in Requests \ {r} : req'[q] = req[q]
        /\ MayWrite(r)' =>
             /\ req'[r].op = req[r].op /\ writes' = writes
             /\ \/ MayWrite(r)
                \/ /\ ops[req[r].op].status = "ABSENT"
                   /\ ops'[req[r].op].status # "ABSENT"
        /\ \/ writes' = writes
           \/ /\ req[r].pc = "upload"
              /\ \E w \in Write :
                    /\ w.op = req[r].op /\ w.kind = req[r].kind
                    /\ writes' = writes \cup {w}
    BY <1>4, WriterSteps
  <2>2. \A q \in Requests : req[q].op \in OpIds
    BY RequestType
  <2>3. CASE writes' = writes
    <3>1. SaveWritesOnce'
      BY <1>1, <1>2, <2>3 DEF SaveWritesOnce
    <3>2. ASSUME NEW p \in Requests, MayWrite(p)'
          PROVE  /\ ops'[req'[p].op].status # "ABSENT"
                 /\ \A w \in writes' : ~ (w.op = req'[p].op /\ w.kind = "SAVE")
                 /\ \A q \in Requests :
                      MayWrite(q)' /\ req'[q].op = req'[p].op => q = p
      <4>1. ASSUME NEW q \in Requests, MayWrite(q)'
            PROVE  /\ req'[q].op = req[q].op
                   /\ MayWrite(q) \/ (q = r /\ ops[req[q].op].status = "ABSENT"
                                           /\ ops'[req[q].op].status # "ABSENT")
        BY <2>1, <4>1 DEF MayWrite
      <4>2. QED
        BY <1>1, <2>2, <2>3, <3>2, <4>1 DEF SaveOwnership, SaveWritesOnce
    <3>3. QED BY <3>1, <3>2 DEF SaveOwnership
  <2>4. CASE writes' # writes
    <3>1. PICK w \in Write : /\ w.op = req[r].op /\ w.kind = req[r].kind
                             /\ writes' = writes \cup {w}
      BY <2>1, <2>4
    <3>2. ~ MayWrite(r)' /\ (w.kind = "SAVE" => MayWrite(r))
      BY <2>1, <2>4, <3>1 DEF MayWrite
    <3>3. SaveWritesOnce'
      BY <1>1, <1>2, <2>2, <3>1, <3>2 DEF SaveWritesOnce, SaveOwnership
    <3>4. \A p \in Requests : MayWrite(p)' => p # r /\ MayWrite(p) /\ req'[p] = req[p]
      BY <2>1, <3>2 DEF MayWrite
    <3>5. SaveOwnership'
      BY <1>1, <2>2, <3>1, <3>2, <3>4 DEF SaveOwnership
    <3>6. QED BY <3>3, <3>5
  <2>5. QED BY <2>3, <2>4
<1>5. CASE WorkerStep
  <2>1. req' = req /\ writes' = writes
    BY <1>5 DEF WorkerStep, Scan, ScanFirst, SkipPending, MarkFailed,
       RestartWorker, Reconcile, ReconcileUnrecoverable, ReconcileRetryLater
  <2>2. QED BY <1>3, <2>1
<1>6. CASE (\E f \in Files : RemoteEdit(f)) \/ UNCHANGED vars
  BY <1>3, <1>6 DEF RemoteEdit, vars
<1>7. QED BY <1>4, <1>5, <1>6 DEF Next

\* A save reaches the provider at most once however often its operation id is
\* resent, in whatever order the deliveries, the worker and crashes interleave,
\* and the write-ahead row is there whenever the bytes are.
THEOREM SaveOnce == Spec => []SaveWritesOnce
<1>1. Init => SaveOwnership /\ SaveWritesOnce
  BY DEF Init, SaveOwnership, SaveWritesOnce, MayWrite, NoRequest
<1>2. TypeOK /\ SaveOwnership /\ SaveWritesOnce /\ [Next]_vars
        => SaveOwnership' /\ SaveWritesOnce'
  BY NextSaves
<1>3. QED BY <1>1, <1>2, TypeCorrect, PTL DEF Spec

---------------------------------------------------------------------------
(* Retention spares the recent *)

Newer(x) == {y \in FileRevisions(x.file) : y.seq > x.seq}
Surpassed(x) == Cardinality(Newer(x)) >= HistoryLimit

\* However old a call's list is, what stands on it is past the limit, and a row
\* of it that somebody else deleted was released at the provider first.
ListFits(r) ==
    /\ \A x \in req[r].pruning :
          Surpassed(x) /\ (x \in revisions \/ x.rev \in drive[x.file].gone)
    /\ \A x, y \in req[r].pruning : x.seq = y.seq => x = y
    /\ At(r, "delete") =>
          \A x \in req[r].pruning : NextToPrune(r, x) => x.rev \in drive[x.file].gone

RetentionInv ==
    /\ \A f \in Files : IsFiniteSet(FileRevisions(f))
    /\ \A r \in Requests : ListFits(r)

\* Rows that are added make nothing recent that was past the limit.
LEMMA SurpassedByMore ==
    ASSUME TypeOK, NEW x, IsFiniteSet(FileRevisions(x.file)'),
           revisions \subseteq revisions', Surpassed(x)
    PROVE  Surpassed(x)'
<1>1. Newer(x) \subseteq Newer(x)' /\ Newer(x)' \subseteq FileRevisions(x.file)'
  BY DEF Newer, FileRevisions
<1>2. IsFiniteSet(Newer(x)')
  BY <1>1, FS_Subset
<1>3. Cardinality(Newer(x)) <= Cardinality(Newer(x)') /\ IsFiniteSet(Newer(x))
  BY <1>1, <1>2, FS_Subset
<1>4. Cardinality(Newer(x)) \in Nat /\ Cardinality(Newer(x)') \in Nat
  BY <1>2, <1>3, FS_CardinalityType
<1>5. QED BY <1>3, <1>4 DEF Surpassed

\* Nor does the deletion of a row past the limit: those that are newer than it
\* are newer than whatever it was newer than.
LEMMA SurpassedByLess ==
    ASSUME TypeOK, NEW z \in Revision, Surpassed(z), revisions' = revisions \ {z},
           NEW x \in Revision, IsFiniteSet(FileRevisions(x.file)), Surpassed(x)
    PROVE  Surpassed(x)'
<1>1. revisions \subseteq Revision /\ \A y \in Revision : y.seq \in Nat
  BY DEF TypeOK, Revision
<1>2. CASE z \notin Newer(x)
  <2>1. Newer(x)' = Newer(x)
    BY <1>2 DEF Newer, FileRevisions
  <2>2. QED BY <2>1 DEF Surpassed
<1>3. CASE z \in Newer(x)
  <2>1. z.file = x.file /\ z.seq > x.seq
    BY <1>3 DEF Newer, FileRevisions
  <2>2. Newer(z) \subseteq Newer(x)' /\ Newer(x)' \subseteq FileRevisions(x.file)
    BY <1>1, <2>1 DEF Newer, FileRevisions
  <2>3. IsFiniteSet(Newer(x)')
    BY <2>2, FS_Subset
  <2>4. Cardinality(Newer(z)) <= Cardinality(Newer(x)') /\ IsFiniteSet(Newer(z))
    BY <2>2, <2>3, FS_Subset
  <2>5. Cardinality(Newer(z)) \in Nat /\ Cardinality(Newer(x)') \in Nat
    BY <2>3, <2>4, FS_CardinalityType
  <2>6. QED BY <2>4, <2>5 DEF Surpassed
<1>4. QED BY <1>2, <1>3

\* How a step of a call moves its list.
GoneKept == \A f \in Files : drive'[f].gone = drive[f].gone
Selects(r) ==
    /\ UNCHANGED <<drive, revisions>>
    /\ req'[r].pc = "release" /\ req'[r].pruning = BeyondLimit(req[r].file)
Releases(r) ==
    /\ UNCHANGED revisions /\ req'[r].pc = "delete" /\ req'[r].pruning = req[r].pruning
    /\ \E x \in req[r].pruning :
          /\ NextToPrune(r, x) /\ CanRelease(x.file, x.rev) /\ Release(x.file, x.rev)
Deletes(r) ==
    /\ UNCHANGED drive /\ At(r, "delete") /\ req'[r].pc = "release"
    /\ \E x \in req[r].pruning :
          /\ NextToPrune(r, x)
          /\ revisions' \in {revisions \ {x}, revisions}
          /\ req'[r].pruning = req[r].pruning \ {x}
Passes(r) ==
    /\ GoneKept
    /\ UNCHANGED revisions \/ \E o \in OpIds : Finalize(o)
    /\ req'[r].pc # "delete" /\ req'[r].pruning \subseteq req[r].pruning

LEMMA PruningGoto ==
    ASSUME TypeOK, NEW r \in Requests, NEW step, Goto(r, step)
    PROVE  /\ req'[r].pc = step /\ req'[r].pruning = req[r].pruning
           /\ \A q \in Requests \ {r} : req'[q] = req[q]
<1>1. req \in [Requests -> Request] /\ req[r] \in Request
  BY DEF TypeOK
<1>2. req' = [req EXCEPT ![r] = [req[r] EXCEPT !.pc = step]]
  BY DEF Goto
<1>3. QED BY <1>1, <1>2 DEF Request

LEMMA PruningGotoWith ==
    ASSUME TypeOK, NEW r \in Requests, NEW step, NEW v, GotoWith(r, step, v)
    PROVE  /\ req'[r].pc = step /\ req'[r].pruning = req[r].pruning
           /\ \A q \in Requests \ {r} : req'[q] = req[q]
<1>1. req \in [Requests -> Request] /\ req[r] \in Request
  BY DEF TypeOK
<1>2. req' = [req EXCEPT ![r] = [req[r] EXCEPT !.pc = step, !.version = v]]
  BY DEF GotoWith
<1>3. QED BY <1>1, <1>2 DEF Request

LEMMA PruningRefused ==
    ASSUME TypeOK, NEW r \in Requests, NEW answer \in Answered, Refuse(r, answer)
    PROVE  /\ req'[r].pc = answer /\ req'[r].pruning = {}
           /\ \A q \in Requests \ {r} : req'[q] = req[q]
<1>1. req \in [Requests -> Request]
  BY DEF TypeOK
<1>2. QED BY <1>1 DEF Refuse, NoRequest

LEMMA GoneSame ==
    ASSUME TypeOK, NEW f \in Files,
           UploadTo(f) \/ \E rev : Preserve(f, rev)
    PROVE  GoneKept
<1>1. drive \in [Files -> DriveObject] /\ drive[f] \in DriveObject
  BY DEF TypeOK
<1>2. CASE UploadTo(f)
  <2>1. drive' = [drive EXCEPT ![f] = [drive[f] EXCEPT !.ver = @ + 1, !.head = @ + 1]]
    BY <1>2 DEF UploadTo
  <2>2. QED BY <1>1, <2>1 DEF GoneKept, DriveObject
<1>3. ASSUME NEW rev, Preserve(f, rev) PROVE GoneKept
  <2>1. PICK bump : drive' = [drive EXCEPT ![f].kept = @ \cup {rev}, ![f].ver = @ + bump]
    BY <1>3 DEF Preserve
  <2>2. drive' = [drive EXCEPT ![f] = [drive[f] EXCEPT !.kept = @ \cup {rev}, !.ver = @ + bump]]
    BY <2>1
  <2>3. QED BY <1>1, <2>2 DEF GoneKept, DriveObject
<1>4. QED BY <1>2, <1>3

\* Every step of a call leaves the other calls' lists alone and does one of
\* the four things to its own.
LEMMA ListSteps ==
    ASSUME TypeOK, NEW r \in Requests, RequestStep(r)
    PROVE  /\ \A q \in Requests \ {r} : req'[q] = req[q]
           /\ Selects(r) \/ Releases(r) \/ Deletes(r) \/ Passes(r)
<1>. DEFINE Alone == \A q \in Requests \ {r} : req'[q] = req[q]
            Quiet == Alone /\ req'[r].pc # "delete"
                       /\ req'[r].pruning \subseteq req[r].pruning
<1>1. req \in [Requests -> Request] /\ req[r] \in Request
  BY DEF TypeOK
<1>2. CASE Start(r)
  <2>1. req'[r].pc = "replay" /\ req'[r].pruning = {} /\ Alone
    BY <1>1, <1>2 DEF Start
  <2>2. UNCHANGED <<drive, revisions>>
    BY <1>2 DEF Start, tables
  <2>3. QED BY <2>1, <2>2 DEF Passes, GoneKept
<1>3. CASE Replay(r) \/ ReplayAfterMismatch(r) \/ ReplayAfterCreate(r)
  <2>1. ASSUME NEW step,
               NEW absent \in {"assert", "conflict", "error", "check"},
               ReplayFrom(r, step, absent)
        PROVE  Quiet /\ UNCHANGED <<drive, revisions>>
    <3>1. UNCHANGED <<drive, revisions>>
      BY <2>1 DEF ReplayFrom, tables
    <3>2. Quiet
      BY <2>1, PruningGoto, PruningGotoWith, PruningRefused
      DEF ReplayFrom, Answered
    <3>3. QED BY <3>1, <3>2
  <2>2. Quiet /\ UNCHANGED <<drive, revisions>>
    BY <1>3, <2>1 DEF Replay, ReplayAfterMismatch, ReplayAfterCreate
  <2>3. QED BY <2>2 DEF Passes, GoneKept
<1>4. CASE ReplayFinalize(r) \/ FinalizeRequest(r)
  <2>1. Quiet /\ UNCHANGED drive
    BY <1>4, PruningGoto, PruningRefused
      DEF ReplayFinalize, FinalizeRequest, Answered
  <2>2. UNCHANGED revisions \/ \E o \in OpIds : Finalize(o)
    BY <1>4, RequestType DEF ReplayFinalize, FinalizeRequest, tables
  <2>3. QED BY <2>1, <2>2 DEF Passes, GoneKept
<1>5. CASE ReturnStored(r) \/ AssertNoUnresolvedMutation(r) \/ Stat(r)
           \/ ReadOldVersion(r) \/ OpenVersion(r) \/ CheckRevision(r)
           \/ ReadReplacedVersion(r) \/ ReadFinalVersion(r) \/ Abandon(r)
  <2>1. ASSUME ReadOldVersion(r) PROVE Quiet /\ UNCHANGED <<drive, revisions>>
    <3>1. Quiet
      BY <2>1, PruningGoto, PruningGotoWith, PruningRefused
      DEF ReadOldVersion, Answered, Kind
    <3>2. UNCHANGED <<drive, revisions>>
      BY <2>1 DEF ReadOldVersion, tables
    <3>3. QED BY <3>1, <3>2
  <2>2. ASSUME ~ ReadOldVersion(r) PROVE Quiet /\ UNCHANGED <<drive, revisions>>
    <3>1. UNCHANGED <<drive, revisions>>
      BY <1>5, <2>2 DEF ReturnStored, AssertNoUnresolvedMutation, Stat,
         OpenVersion, CheckRevision, ReadReplacedVersion, ReadFinalVersion,
         Abandon, tables
    <3>2. Quiet
      BY <1>5, <2>2, PruningGoto, PruningGotoWith, PruningRefused
      DEF ReturnStored, AssertNoUnresolvedMutation, Stat, OpenVersion,
          CheckRevision, ReadReplacedVersion, ReadFinalVersion, Abandon, Answered
    <3>3. QED BY <3>1, <3>2
  <2>3. Quiet /\ UNCHANGED <<drive, revisions>>
    BY <2>1, <2>2
  <2>4. QED BY <2>3 DEF Passes, GoneKept
<1>6. CASE PreserveOldVersion(r) \/ PreserveNewVersion(r) \/ Upload(r)
  <2>1. GoneKept
    BY <1>6, RequestType, GoneSame DEF PreserveOldVersion, PreserveNewVersion, Upload
  <2>2. Quiet /\ UNCHANGED revisions
    BY <1>6, PruningGoto DEF PreserveOldVersion, PreserveNewVersion, Upload, tables
  <2>3. QED BY <2>1, <2>2 DEF Passes
<1>7. CASE BeginOperation(r) \/ RejectConflict(r) \/ MarkProviderWritten(r)
  <2>1. UNCHANGED <<drive, revisions>>
    BY <1>7 DEF BeginOperation, RejectConflict, MarkProviderWritten
  <2>2. Quiet
    BY <1>7, PruningGoto, PruningRefused
      DEF BeginOperation, RejectConflict, MarkProviderWritten, Answered
  <2>3. QED BY <2>1, <2>2 DEF Passes, GoneKept
<1>8. CASE SelectPrunable(r)
  <2>1. req' = [req EXCEPT ![r] = [req[r] EXCEPT !.pc = "release",
                  !.pruning = BeyondLimit(req[r].file)]]
    BY <1>8 DEF SelectPrunable
  <2>2. /\ req'[r].pc = "release" /\ req'[r].pruning = BeyondLimit(req[r].file)
        /\ Alone
    BY <1>1, <2>1 DEF Request
  <2>3. QED BY <1>8, <2>2 DEF SelectPrunable, Selects, tables
<1>9. CASE ReleaseRow(r)
  <2>1. CASE req[r].pruning = {} /\ Goto(r, "ok") /\ UNCHANGED drive
    BY <1>9, <2>1, PruningGoto DEF ReleaseRow, Passes, GoneKept, tables
  <2>2. ASSUME NEW x \in req[r].pruning, NextToPrune(r, x),
               CanRelease(x.file, x.rev), Release(x.file, x.rev),
               Goto(r, "delete")
        PROVE  Alone /\ Releases(r)
    BY <1>9, <2>2, PruningGoto DEF ReleaseRow, Releases, tables
  <2>3. ASSUME NEW x \in req[r].pruning,
               req' = [req EXCEPT ![r].pruning = @ \ {x}], UNCHANGED drive
        PROVE  Alone /\ Passes(r)
    <3>1. req' = [req EXCEPT ![r] = [req[r] EXCEPT !.pruning = @ \ {x}]]
      BY <2>3
    <3>2. /\ req'[r].pc = req[r].pc /\ Alone
          /\ req'[r].pruning = req[r].pruning \ {x}
      BY <1>1, <3>1 DEF Request
    <3>3. req[r].pc = "release" /\ UNCHANGED revisions
      BY <1>9 DEF ReleaseRow, At, tables
    <3>4. QED BY <2>3, <3>2, <3>3 DEF Passes, GoneKept
  <2>4. QED BY <1>9, <2>1, <2>2, <2>3 DEF ReleaseRow
<1>10. CASE DeleteRow(r)
  <2>1. PICK x \in req[r].pruning :
          /\ NextToPrune(r, x)
          /\ revisions' \in {revisions \ {x}, revisions}
          /\ req' = [req EXCEPT ![r].pc = "release", ![r].pruning = @ \ {x}]
    BY <1>10 DEF DeleteRow
  <2>2. req' = [req EXCEPT ![r] = [req[r] EXCEPT !.pc = "release",
                  !.pruning = @ \ {x}]]
    BY <2>1
  <2>3. /\ req'[r].pc = "release" /\ req'[r].pruning = req[r].pruning \ {x}
        /\ Alone
    BY <1>1, <2>2 DEF Request
  <2>4. QED BY <1>10, <2>1, <2>3 DEF DeleteRow, Deletes
<1>11. QED
  BY <1>2, <1>3, <1>4, <1>5, <1>6, <1>7, <1>8, <1>9, <1>10 DEF RequestStep

LEMMA StaysFinite ==
    ASSUME TypeOK, [Next]_vars, NEW f \in Files, IsFiniteSet(FileRevisions(f))
    PROVE  IsFiniteSet(FileRevisions(f)')
<1>1. ASSUME NEW o \in OpIds, Finalize(o)
      PROVE  IsFiniteSet(FileRevisions(f)')
  <2>1. PICK b : Baseline(o) \subseteq {b}
    BY DEF Baseline
  <2>2. NewRevisions(o) \subseteq {b} \cup {ResultRevision(o)}
    BY <2>1 DEF NewRevisions
  <2>3. IsFiniteSet({b} \cup {ResultRevision(o)})
    BY FS_Singleton, FS_Union
  <2>4. IsFiniteSet(FileRevisions(f) \cup ({b} \cup {ResultRevision(o)}))
    BY <2>3, FS_Union
  <2>5. FileRevisions(f)' \subseteq
          FileRevisions(f) \cup ({b} \cup {ResultRevision(o)})
    BY <1>1, <2>2 DEF Finalize, FileRevisions
  <2>6. QED BY <2>4, <2>5, FS_Subset
<1>2. CASE revisions' \subseteq revisions
  <2>1. FileRevisions(f)' \subseteq FileRevisions(f)
    BY <1>2 DEF FileRevisions
  <2>2. QED BY <2>1, FS_Subset
<1>3. QED BY <1>1, <1>2, HistorySteps

GoneGrows == \A f \in Files : drive[f].gone \subseteq drive'[f].gone
Prunable(x) == Surpassed(x) /\ (x \in revisions \/ x.rev \in drive[x.file].gone)

\* What is on a list when rows are added and versions are released.
LEMMA StillPrunable ==
    ASSUME TypeOK, RetentionInv, GoneGrows, revisions \subseteq revisions',
           \A f \in Files : IsFiniteSet(FileRevisions(f)'),
           NEW q \in Requests, NEW x \in req[q].pruning
    PROVE  Prunable(x)'
<1>1. x \in Revision /\ x.file \in Files
  BY RequestType DEF Revision
<1>2. Surpassed(x) /\ (x \in revisions \/ x.rev \in drive[x.file].gone)
  BY DEF RetentionInv, ListFits
<1>3. Surpassed(x)'
  BY <1>1, <1>2, SurpassedByMore
<1>4. x \in revisions' \/ x.rev \in drive'[x.file].gone
  BY <1>1, <1>2 DEF GoneGrows
<1>5. QED BY <1>3, <1>4 DEF Prunable

\* A list that only got shorter, of a call that is not about to delete or that
\* was about to delete the same row.
LEMMA ListStillFits ==
    ASSUME TypeOK, RetentionInv, GoneGrows, NEW q \in Requests,
           \A x \in req[q].pruning : Prunable(x)',
           req'[q].pruning \subseteq req[q].pruning,
           req'[q].pc = "delete" => req'[q] = req[q]
    PROVE  ListFits(q)'
<1>1. \A x \in req'[q].pruning : Prunable(x)'
  OBVIOUS
<1>2. \A x, y \in req'[q].pruning : x.seq = y.seq => x = y
  BY DEF RetentionInv, ListFits
<1>3. ASSUME req'[q].pc = "delete", NEW x \in req'[q].pruning, NextToPrune(q, x)'
      PROVE  x.rev \in drive'[x.file].gone
  <2>1. x \in req[q].pruning /\ At(q, "delete") /\ NextToPrune(q, x)
    BY <1>3 DEF At, NextToPrune
  <2>2. x.file \in Files
    BY <2>1, RequestType DEF Revision
  <2>3. QED BY <2>1, <2>2 DEF RetentionInv, ListFits, GoneGrows
<1>4. QED BY <1>1, <1>2, <1>3 DEF ListFits, Prunable, At

LEMMA CallsFit ==
    ASSUME TypeOK, HistoryIsSequence, RetentionInv,
           \A f \in Files : IsFiniteSet(FileRevisions(f)'),
           NEW r \in Requests, RequestStep(r), NEW q \in Requests
    PROVE  ListFits(q)'
<1>1. \A p \in Requests \ {r} : req'[p] = req[p]
  BY ListSteps
<1>2. \A p \in Requests : \A x \in req[p].pruning :
         /\ x \in Revision /\ x.file \in Files /\ x.seq \in Nat /\ x.rev \in Nat
  BY RequestType DEF Revision
<1>3. CASE Selects(r)
  <2>1. GoneGrows /\ revisions \subseteq revisions'
    BY <1>3 DEF Selects, GoneGrows
  <2>2. CASE q # r
    BY <1>1, <2>1, <2>2, StillPrunable, ListStillFits
  <2>3. CASE q = r
    <3>1. req'[q].pc = "release" /\ req'[q].pruning = BeyondLimit(req[q].file)
      BY <1>3, <2>3 DEF Selects
    <3>2. UNCHANGED revisions
      BY <1>3 DEF Selects
    <3>3. \A x \in BeyondLimit(req[q].file) :
             x \in revisions /\ x.file = req[q].file /\ Surpassed(x)
      BY DEF BeyondLimit, Surpassed, Newer, FileRevisions
    <3>4. \A x \in BeyondLimit(req[q].file) : Surpassed(x)'
      BY <3>2, <3>3 DEF Surpassed, Newer, FileRevisions
    <3>5. \A x, y \in BeyondLimit(req[q].file) : x.seq = y.seq => x = y
      BY <3>3 DEF HistoryIsSequence
    <3>6. QED BY <3>1, <3>2, <3>3, <3>4, <3>5 DEF ListFits, At
  <2>4. QED BY <2>2, <2>3
<1>4. CASE Releases(r)
  <2>1. PICK z \in req[r].pruning : NextToPrune(r, z) /\ Release(z.file, z.rev)
    BY <1>4 DEF Releases
  <2>2. z.file \in Files /\ drive \in [Files -> DriveObject]
    BY <1>2 DEF TypeOK
  <2>3. drive' = [drive EXCEPT ![z.file] = [drive[z.file] EXCEPT
                    !.gone = @ \cup {z.rev}, !.kept = @ \ {z.rev}]]
    BY <2>1 DEF Release
  <2>4. /\ drive'[z.file].gone = drive[z.file].gone \cup {z.rev}
        /\ \A f \in Files \ {z.file} : drive'[f] = drive[f]
    BY <2>2, <2>3 DEF DriveObject
  <2>5. GoneGrows /\ revisions \subseteq revisions'
    BY <1>4, <2>4 DEF Releases, GoneGrows
  <2>6. CASE q # r
    BY <1>1, <2>5, <2>6, StillPrunable, ListStillFits
  <2>7. CASE q = r
    <3>1. req'[q].pruning = req[q].pruning
      BY <1>4, <2>7 DEF Releases
    <3>2. \A x \in req'[q].pruning : Prunable(x)'
      BY <2>5, <3>1, StillPrunable
    <3>3. \A x, y \in req'[q].pruning : x.seq = y.seq => x = y
      BY <3>1 DEF RetentionInv, ListFits
    <3>4. ASSUME NEW x \in req'[q].pruning, NextToPrune(q, x)'
          PROVE  x.rev \in drive'[x.file].gone
      <4>1. x.seq <= z.seq /\ z.seq <= x.seq
        BY <2>1, <2>7, <3>1, <3>4 DEF NextToPrune
      <4>2. x = z
        BY <1>2, <2>1, <2>7, <3>1, <3>3, <4>1
      <4>3. QED BY <2>4, <4>2
    <3>5. QED BY <3>2, <3>3, <3>4 DEF ListFits, Prunable
  <2>8. QED BY <2>6, <2>7
<1>5. CASE Deletes(r)
  <2>1. PICK z \in req[r].pruning :
          /\ NextToPrune(r, z)
          /\ revisions' \in {revisions \ {z}, revisions}
          /\ req'[r].pruning = req[r].pruning \ {z}
    BY <1>5 DEF Deletes
  <2>2. GoneGrows /\ At(r, "delete") /\ req'[r].pc = "release" /\ UNCHANGED drive
    BY <1>5 DEF Deletes, GoneGrows
  <2>3. Surpassed(z) /\ z.rev \in drive[z.file].gone
    BY <2>1, <2>2 DEF RetentionInv, ListFits
  <2>4. ASSUME NEW x \in req[q].pruning, revisions' = revisions \ {z}
        PROVE  Prunable(x)'
    <3>1. Surpassed(x) /\ (x \in revisions \/ x.rev \in drive[x.file].gone)
      BY DEF RetentionInv, ListFits
    <3>2. IsFiniteSet(FileRevisions(x.file))
      BY <1>2 DEF RetentionInv
    <3>3. Surpassed(x)'
      BY <1>2, <2>3, <2>4, <3>1, <3>2, SurpassedByLess
    <3>4. x \in revisions' \/ x.rev \in drive'[x.file].gone
      BY <2>2, <2>3, <2>4, <3>1
    <3>5. QED BY <3>3, <3>4 DEF Prunable
  <2>5. \A x \in req[q].pruning : Prunable(x)'
    <3>1. CASE revisions' = revisions
      BY <2>2, <3>1, StillPrunable
    <3>2. QED BY <2>1, <2>4, <3>1
  <2>6. req'[q].pruning \subseteq req[q].pruning
        /\ (req'[q].pc = "delete" => req'[q] = req[q])
    BY <1>1, <2>1, <2>2
  <2>7. QED BY <2>2, <2>5, <2>6, ListStillFits
<1>6. CASE Passes(r)
  <2>1. GoneGrows /\ revisions \subseteq revisions'
    BY <1>6 DEF Passes, GoneKept, GoneGrows, Finalize
  <2>2. /\ req'[q].pruning \subseteq req[q].pruning
        /\ req'[q].pc = "delete" => req'[q] = req[q]
    BY <1>1, <1>6 DEF Passes
  <2>3. QED BY <2>1, <2>2, StillPrunable, ListStillFits
<1>7. QED BY <1>3, <1>4, <1>5, <1>6, ListSteps

\* Steps of nobody's call.
LEMMA OtherSteps ==
    ASSUME TypeOK, [Next]_vars, ~ \E r \in Requests : RequestStep(r)
    PROVE  UNCHANGED req /\ GoneKept /\ revisions \subseteq revisions'
<1>1. CASE WorkerStep
  <2>1. UNCHANGED <<req, drive>>
    BY <1>1 DEF WorkerStep, Scan, ScanFirst, SkipPending, MarkFailed,
       RestartWorker, Reconcile, ReconcileUnrecoverable, ReconcileRetryLater
  <2>2. UNCHANGED revisions \/ \E o \in OpIds : Finalize(o)
    BY <1>1 DEF WorkerStep, Scan, ScanFirst, SkipPending, MarkFailed,
       RestartWorker, Reconcile, ReconcileUnrecoverable, ReconcileRetryLater,
       tables
  <2>3. QED BY <2>1, <2>2 DEF GoneKept, Finalize
<1>2. ASSUME NEW f \in Files, RemoteEdit(f)
      PROVE  UNCHANGED req /\ GoneKept /\ revisions \subseteq revisions'
  BY <1>2, GoneSame DEF RemoteEdit, tables
<1>3. CASE UNCHANGED vars
  BY <1>3 DEF vars, GoneKept
<1>4. QED BY <1>1, <1>2, <1>3 DEF Next

LEMMA NextRetention ==
    ASSUME TypeOK, HistoryIsSequence, RetentionInv, [Next]_vars
    PROVE  RetentionInv'
<1>1. \A f \in Files : IsFiniteSet(FileRevisions(f)')
  BY StaysFinite DEF RetentionInv
<1>2. ASSUME NEW r \in Requests, RequestStep(r), NEW q \in Requests
      PROVE  ListFits(q)'
  BY <1>1, <1>2, CallsFit
<1>3. ASSUME ~ \E r \in Requests : RequestStep(r), NEW q \in Requests
      PROVE  ListFits(q)'
  <2>1. UNCHANGED req /\ GoneGrows /\ revisions \subseteq revisions'
    BY <1>3, OtherSteps DEF GoneKept, GoneGrows
  <2>2. QED BY <1>1, <2>1, StillPrunable, ListStillFits
<1>4. QED BY <1>1, <1>2, <1>3 DEF RetentionInv

LEMMA InitRetention == Init => RetentionInv
<1>. SUFFICES ASSUME NEW managed \in SUBSET Files, Init!(managed)
              PROVE  RetentionInv
  BY DEF Init
<1>1. ASSUME NEW f \in Files PROVE IsFiniteSet(FileRevisions(f))
  <2>1. FileRevisions(f) \subseteq
          {[file |-> f, seq |-> 1, ver |-> 1, rev |-> 1, source |-> "INITIAL",
            op |-> NoOp]}
    BY DEF FileRevisions
  <2>2. QED BY <2>1, FS_Singleton, FS_Subset
<1>2. \A r \in Requests : req[r].pruning = {} /\ req[r].pc = "idle"
  BY DEF NoRequest
<1>3. QED BY <1>1, <1>2 DEF RetentionInv, ListFits, At

\* The one step that releases a version releases one past the limit: the row
\* on the list is still in the history, or the version was gone already.
LEMMA NextSpares ==
    ASSUME TypeOK, HistoryIsSequence, RetentionInv, [Next]_vars,
           NEW f \in Files, NEW x \in FileRevisions(f) \ BeyondLimit(f),
           x.rev \in drive'[f].gone
    PROVE  x.rev \in drive[f].gone
<1>1. CASE GoneKept \/ UNCHANGED drive
  BY <1>1 DEF GoneKept
<1>2. ASSUME NEW r \in Requests, Releases(r), x.rev \notin drive[f].gone
      PROVE  FALSE
  <2>1. PICK z \in req[r].pruning : Release(z.file, z.rev)
    BY <1>2 DEF Releases
  <2>2. z \in Revision /\ z.file \in Files /\ drive \in [Files -> DriveObject]
    BY RequestType DEF Revision, TypeOK
  <2>3. drive' = [drive EXCEPT ![z.file] = [drive[z.file] EXCEPT
                    !.gone = @ \cup {z.rev}, !.kept = @ \ {z.rev}]]
    BY <2>1 DEF Release
  <2>4. /\ drive'[z.file].gone = drive[z.file].gone \cup {z.rev}
        /\ \A g \in Files \ {z.file} : drive'[g] = drive[g]
    BY <2>2, <2>3 DEF DriveObject
  <2>5. z.file = f /\ z.rev = x.rev
    BY <1>2, <2>4
  <2>6. Surpassed(z) /\ z \in revisions
    BY <1>2, <2>5 DEF RetentionInv, ListFits
  <2>7. x \in revisions /\ x.file = f
    BY DEF FileRevisions
  <2>8. x = z
    BY <2>5, <2>6, <2>7 DEF HistoryIsSequence
  <2>9. x \in BeyondLimit(f)
    BY <2>5, <2>6, <2>7, <2>8 DEF BeyondLimit, Surpassed, Newer, FileRevisions
  <2>10. QED BY <2>9
<1>3. CASE \E r \in Requests : RequestStep(r)
  BY <1>1, <1>2, <1>3, ListSteps DEF Selects, Deletes, Passes
<1>4. QED BY <1>1, <1>3, OtherSteps

\* Retention never releases a provider version of the newest HistoryLimit rows,
\* however many saves, deletions and other prunings of the same file happened
\* since the call selected the rows it works through.
THEOREM RetentionSpares == Spec => RetentionSparesRecent
<1>1. Init => RetentionInv
  BY InitRetention
<1>2. TypeOK /\ HistoryIsSequence /\ RetentionInv /\ [Next]_vars => RetentionInv'
  BY NextRetention
<1>3. TypeOK /\ HistoryIsSequence /\ RetentionInv /\ [Next]_vars
        => [\A f \in Files : \A x \in FileRevisions(f) \ BeyondLimit(f) :
              x.rev \in drive'[f].gone => x.rev \in drive[f].gone]_vars
  BY NextSpares
<1>4. QED
  BY <1>1, <1>2, <1>3, TypeCorrect, HistorySequence, PTL
  DEF Spec, RetentionSparesRecent

-----------------------------------------------------------------------------
(* FileMutation keeps history, events, rows and answers together, and by   *)
(* that implements MutationOutcome: for any number of files, calls and     *)
(* operations, any history limit and any batch size.                       *)
(*                                                                         *)
(* An insert that fails although the operation is new makes a restore      *)
(* write without its row (WriteAhead, a known violation), so the theorems  *)
(* ask that inserts are reliable wherever restores are made.               *)

InsertsReliable == InsertMayFail => "RESTORE" \notin Kinds

HasEvent(o) == \E e \in outbox : e.op = o
HasWrite(o, f) == \E w \in writes : w.op = o /\ w.file = f

\* The call that inserted the row, until it is done; until it has marked the row,
\* the row has no result.
Unmarked == {"check", "upload", "reject", "replaced", "preserveNew", "final", "mark"}
Written == {"replaced", "preserveNew", "final", "mark"}
Retaining == {"prune", "release", "delete"}
Owning == Unmarked \cup {"finalize"} \cup Retaining
Owns(r) == req[r].pc \in Owning

EventsFit ==
    \A e \in outbox :
        /\ ops[e.op].status # "ABSENT" /\ ops[e.op].result # NoVersion
        /\ e.ver = ops[e.op].result.ver /\ e.file = ops[e.op].file

RowFits(o) ==
    /\ ops[o].status = "COMPLETED" => HasEvent(o)
    /\ ops[o].status = "ABSENT" => ops[o].result = NoVersion
    /\ ops[o].result # NoVersion => ops[o].result.ver # 0 /\ HasWrite(o, ops[o].file)

HistoryPublished ==
    \A x \in revisions : x.op # NoOp =>
        [op |-> x.op, file |-> x.file, ver |-> x.ver] \in outbox

\* What a call may rely on at the step where it stands.
RequestFits(r) ==
    /\ req[r].kind = "RESTORE" => "RESTORE" \in Kinds
    /\ req[r].pc = "rebegin" => ops[req[r].op].status # "ABSENT" \/ req[r].kind = "SAVE"
    /\ Owns(r) \/ req[r].pc \in {"replayFinalize", "stored", "ok"} =>
         ops[req[r].op].status # "ABSENT" /\ ops[req[r].op].file = req[r].file
    /\ req[r].pc \in Unmarked => ops[req[r].op].result = NoVersion
    /\ req[r].pc \in Written => HasWrite(req[r].op, req[r].file)
    /\ req[r].pc = "mark" => req[r].version.ver # 0
    /\ req[r].pc \in {"finalize", "ok"} \cup Retaining =>
         ops[req[r].op].result = req[r].version
    /\ req[r].pc \in {"stored", "ok"} \cup Retaining => HasEvent(req[r].op)

SoleOwner ==
    \A p, r \in Requests : Owns(p) /\ Owns(r) /\ req[p].op = req[r].op => p = r

PublishedInv ==
    /\ \A f \in Files : drive[f].ver # 0
    /\ EventsFit
    /\ \A o \in OpIds : RowFits(o)
    /\ HistoryPublished
    /\ \A r \in Requests : RequestFits(r)
    /\ SoleOwner

---------------------------------------------------------------------------
(* Steps of the rows *)

\* A row that is there keeps its file and, but for its one mark, its result.
RowsKept ==
    \A o \in OpIds :
        /\ ops'[o].result = ops[o].result
        /\ ops[o].status # "ABSENT" =>
             ops'[o].status # "ABSENT" /\ ops'[o].file = ops[o].file

Grows == outbox \subseteq outbox' /\ writes \subseteq writes'

LEMMA KeptRequest ==
    ASSUME TypeOK, PublishedInv, RowsKept, Grows,
           NEW q \in Requests, req'[q] = req[q]
    PROVE  RequestFits(q)'
<1>1. RequestFits(q) /\ req[q].op \in OpIds
  BY RequestType DEF PublishedInv
<1>2. HasEvent(req[q].op) => HasEvent(req[q].op)'
  BY DEF Grows, HasEvent
<1>3. HasWrite(req[q].op, req[q].file) => HasWrite(req[q].op, req[q].file)'
  BY DEF Grows, HasWrite
<1>4. QED
  BY <1>1, <1>2, <1>3 DEF RequestFits, RowsKept, Owns, Owning, Unmarked, Retaining, Written

\* The rows, events and history when nothing but a status changes, and no row
\* becomes COMPLETED.
LEMMA KeptRows ==
    ASSUME TypeOK, PublishedInv, RowsKept, UNCHANGED outbox, writes \subseteq writes',
           revisions' \subseteq revisions,
           \A o \in OpIds : ops'[o].status # ops[o].status =>
               ops'[o].status \notin {"COMPLETED", "ABSENT"}
    PROVE  EventsFit' /\ (\A o \in OpIds : RowFits(o)') /\ HistoryPublished'
<1>1. \A e \in outbox : e.op \in OpIds
  BY DEF TypeOK, Event
<1>2. EventsFit'
  BY <1>1 DEF PublishedInv, EventsFit, RowsKept
<1>3. ASSUME NEW o \in OpIds PROVE RowFits(o)'
  <2>1. RowFits(o)
    BY DEF PublishedInv
  <2>2. HasEvent(o) => HasEvent(o)'
    BY DEF HasEvent
  <2>3. ops[o].status # "ABSENT" => (HasWrite(o, ops[o].file) => HasWrite(o, ops[o].file)')
    BY DEF HasWrite, RowsKept
  <2>4. QED BY <2>1, <2>2, <2>3 DEF RowFits, RowsKept
<1>4. HistoryPublished'
  BY DEF PublishedInv, HistoryPublished
<1>5. QED BY <1>2, <1>3, <1>4

\* What one finalization leaves: the row keeps its result, the event says it and
\* so does the new history row.
LEMMA FinalizePublishes ==
    ASSUME TypeOK, PublishedInv, UNCHANGED writes, NEW o \in OpIds, Finalize(o)
    PROVE  /\ RowsKept /\ Grows /\ \E e \in outbox' : e.op = o
           /\ EventsFit' /\ (\A p \in OpIds : RowFits(p)') /\ HistoryPublished'
<1>. DEFINE event == [op |-> o, file |-> ops[o].file, ver |-> ops[o].result.ver]
<1>1. /\ ops \in [OpIds -> Operation] /\ ops[o] \in Operation
      /\ outbox \subseteq Event /\ \A e \in outbox : e.op \in OpIds
  BY DEF TypeOK, Event
<1>2. ops' = [ops EXCEPT ![o] = [ops[o] EXCEPT !.status = "COMPLETED"]]
  BY DEF Finalize, UpdateOperation
<1>3. /\ ops'[o].status = "COMPLETED" /\ ops'[o].result = ops[o].result
      /\ ops'[o].file = ops[o].file
      /\ \A p \in OpIds \ {o} : ops'[p] = ops[p]
  BY <1>1, <1>2 DEF Operation
<1>4. RowsKept
  BY <1>3 DEF RowsKept
<1>5. ops[o].status # "ABSENT" /\ ops[o].result # NoVersion
  BY DEF Finalize, CanFinalize, ReadyToFinalize
<1>6. event \in outbox' /\ outbox \subseteq outbox' /\ outbox' \subseteq outbox \cup {event}
  <2>1. ASSUME NEW e \in outbox, e.op = o PROVE e = event
    BY <1>1, <2>1 DEF PublishedInv, EventsFit, Event
  <2>2. QED BY <2>1 DEF Finalize
<1>7. (\E e \in outbox' : e.op = o) /\ Grows
  BY <1>6 DEF Grows
<1>8. EventsFit'
  BY <1>1, <1>3, <1>4, <1>5, <1>6 DEF PublishedInv, EventsFit, RowsKept
<1>9. ASSUME NEW p \in OpIds PROVE RowFits(p)'
  <2>1. RowFits(p)
    BY DEF PublishedInv
  <2>2. HasEvent(p) => HasEvent(p)'
    BY <1>6 DEF HasEvent
  <2>3. HasWrite(p, ops[p].file) => HasWrite(p, ops[p].file)'
    BY <1>3 DEF HasWrite
  <2>4. CASE p = o
    <3>1. \E e \in outbox' : e.op = p
      BY <1>7, <2>4
    <3>2. HasEvent(p)'
      BY <3>1 DEF HasEvent
    <3>3. QED BY <1>3, <2>1, <2>3, <2>4, <3>2 DEF RowFits
  <2>5. CASE p # o
    BY <1>3, <2>1, <2>2, <2>3, <2>5 DEF RowFits
  <2>6. QED BY <2>4, <2>5
<1>10. HistoryPublished'
  <2>1. ASSUME NEW x \in revisions', x.op # NoOp
        PROVE  [op |-> x.op, file |-> x.file, ver |-> x.ver] \in outbox'
    <3>1. CASE x \in revisions
      BY <1>6, <2>1, <3>1 DEF PublishedInv, HistoryPublished
    <3>2. CASE x \notin revisions
      <4>1. x \in NewRevisions(o)
        BY <3>2 DEF Finalize
      <4>2. x = ResultRevision(o)
        BY <2>1, <4>1 DEF NewRevisions, Baseline
      <4>3. x.op = o /\ x.file = ops[o].file /\ x.ver = ops[o].result.ver
        BY <4>2 DEF ResultRevision
      <4>4. QED BY <1>6, <4>3
    <3>3. QED BY <3>1, <3>2
  <2>2. QED BY <2>1 DEF HistoryPublished
<1>11. QED BY <1>4, <1>7, <1>8, <1>9, <1>10

---------------------------------------------------------------------------
(* Steps of a request *)

\* A marker of the provider never becomes 0.
LEMMA DriveMoves ==
    ASSUME TypeOK, PublishedInv,
           \/ UNCHANGED drive
           \/ \E f \in Files : UploadTo(f)
           \/ \E f \in Files : \E rev \in Nat : Preserve(f, rev) \/ Release(f, rev)
    PROVE  \A g \in Files : drive'[g].ver # 0
<1>. DEFINE Stays == \A g \in Files : drive'[g].ver # 0
<1>1. /\ drive \in [Files -> DriveObject]
      /\ \A g \in Files : drive[g] \in DriveObject /\ drive[g].ver \in Nat \ {0}
  BY DriveType DEF TypeOK, PublishedInv
<1>2. ASSUME NEW f \in Files, NEW object, drive' = [drive EXCEPT ![f] = object],
             object.ver # 0
      PROVE  Stays
  BY <1>1, <1>2
<1>3. ASSUME NEW f \in Files, UploadTo(f) PROVE Stays
  <2>1. drive' = [drive EXCEPT ![f] = [drive[f] EXCEPT !.ver = @ + 1, !.head = @ + 1]]
    BY <1>3 DEF UploadTo
  <2>2. [drive[f] EXCEPT !.ver = @ + 1, !.head = @ + 1].ver # 0
    BY <1>1 DEF DriveObject
  <2>3. QED BY <1>2, <2>1, <2>2
<1>4. ASSUME NEW f \in Files, NEW rev \in Nat, Preserve(f, rev) PROVE Stays
  <2>1. PICK bump \in {0, 1} :
          drive' = [drive EXCEPT ![f].kept = @ \cup {rev}, ![f].ver = @ + bump]
    BY <1>4 DEF Preserve
  <2>2. drive' = [drive EXCEPT ![f] =
                    [drive[f] EXCEPT !.kept = @ \cup {rev}, !.ver = @ + bump]]
    BY <2>1
  <2>3. [drive[f] EXCEPT !.kept = @ \cup {rev}, !.ver = @ + bump].ver # 0
    BY <1>1 DEF DriveObject
  <2>4. QED BY <1>2, <2>2, <2>3
<1>5. ASSUME NEW f \in Files, NEW rev \in Nat, Release(f, rev) PROVE Stays
  <2>1. drive' = [drive EXCEPT ![f] =
                    [drive[f] EXCEPT !.gone = @ \cup {rev}, !.kept = @ \ {rev}]]
    BY <1>5 DEF Release
  <2>2. [drive[f] EXCEPT !.gone = @ \cup {rev}, !.kept = @ \ {rev}].ver # 0
    BY <1>1 DEF DriveObject
  <2>3. QED BY <1>2, <2>1, <2>2
<1>6. CASE UNCHANGED drive
  BY <1>1, <1>6
<1>7. QED BY <1>3, <1>4, <1>5, <1>6

\* A step of one request, when what it leaves in the tables fits: it becomes the
\* owner of its operation only where nobody was.
LEMMA StepFits ==
    ASSUME TypeOK, PublishedInv, RowsKept, Grows,
           EventsFit', \A o \in OpIds : RowFits(o)', HistoryPublished',
           \A f \in Files : drive'[f].ver # 0,
           NEW r \in Requests, \A q \in Requests \ {r} : req'[q] = req[q],
           RequestFits(r)',
           Owns(r)' => /\ req'[r].op = req[r].op
                       /\ Owns(r) \/ ops[req[r].op].status = "ABSENT"
    PROVE  PublishedInv'
<1>1. \A q \in Requests : RequestFits(q)'
  BY KeptRequest
<1>2. \A q \in Requests : q # r => (Owns(q)' <=> Owns(q)) /\ req'[q].op = req[q].op
  BY DEF Owns
<1>3. \A q \in Requests : Owns(q) => ops[req[q].op].status # "ABSENT"
  BY DEF PublishedInv, RequestFits
<1>4. SoleOwner'
  BY <1>2, <1>3 DEF PublishedInv, SoleOwner
<1>5. QED BY <1>1, <1>4 DEF PublishedInv

\* A step that leaves rows, events and writes alone.
LEMMA QuietStep ==
    ASSUME TypeOK, PublishedInv, NEW r \in Requests,
           \A q \in Requests \ {r} : req'[q] = req[q],
           UNCHANGED <<ops, outbox, writes>>, revisions' \subseteq revisions,
           \A f \in Files : drive'[f].ver # 0,
           RequestFits(r)',
           Owns(r)' => Owns(r) /\ req'[r].op = req[r].op
    PROVE  PublishedInv'
<1>1. RowsKept /\ Grows
  BY DEF RowsKept, Grows
<1>2. EventsFit' /\ (\A o \in OpIds : RowFits(o)') /\ HistoryPublished'
  BY <1>1, KeptRows DEF Grows
<1>3. QED BY <1>1, <1>2, StepFits

\* An answer that refuses relies on nothing.
LEMMA Refused ==
    ASSUME TypeOK, NEW r \in Requests, NEW answer \in {"conflict", "error"}, Refuse(r, answer)
    PROVE  /\ RequestFits(r)' /\ ~Owns(r)' /\ req'[r].pc = answer
           /\ \A q \in Requests \ {r} : req'[q] = req[q]
<1>1. req \in [Requests -> Request] /\ NoRequest \in Request
  BY NoRequestType DEF TypeOK
<1>2. /\ req'[r].pc = answer /\ req'[r].kind = "SAVE"
      /\ \A q \in Requests \ {r} : req'[q] = req[q]
  BY <1>1 DEF Refuse, Request, NoRequest
<1>3. ~Owns(r)'
  BY <1>2 DEF Owns, Owning, Unmarked, Retaining
<1>4. RequestFits(r)'
  BY <1>2, <1>3 DEF RequestFits, Unmarked, Written, Retaining
<1>5. QED BY <1>2, <1>3, <1>4

\* What a step leaves of its request.
LEMMA Moves ==
    ASSUME TypeOK, NEW r \in Requests, NEW step,
           Goto(r, step) \/ \E v \in Version : GotoWith(r, step, v)
    PROVE  /\ req'[r].pc = step /\ req'[r].kind = req[r].kind
           /\ req'[r].op = req[r].op /\ req'[r].file = req[r].file
           /\ Goto(r, step) => req'[r].version = req[r].version
           /\ \A v \in Version : GotoWith(r, step, v) => req'[r].version = v
           /\ \A q \in Requests \ {r} : req'[q] = req[q]
<1>1. req \in [Requests -> Request] /\ req[r] \in Request
  BY DEF TypeOK
<1>2. CASE Goto(r, step)
  <2>1. req' = [req EXCEPT ![r] = [req[r] EXCEPT !.pc = step]]
    BY <1>2 DEF Goto
  <2>2. req'[r] = [req[r] EXCEPT !.pc = step]
    BY <1>1, <2>1
  <2>3. ASSUME NEW v \in Version, GotoWith(r, step, v) PROVE req'[r].version = v
    <3>1. req' = [req EXCEPT ![r] = [req[r] EXCEPT !.pc = step, !.version = v]]
      BY <2>3 DEF GotoWith
    <3>2. QED BY <1>1, <3>1 DEF Request
  <2>4. QED BY <1>1, <2>1, <2>2, <2>3 DEF Request
<1>3. ASSUME NEW v \in Version, GotoWith(r, step, v)
      PROVE  /\ req'[r].pc = step /\ req'[r].kind = req[r].kind
             /\ req'[r].op = req[r].op /\ req'[r].file = req[r].file
             /\ req'[r].version = v
             /\ \A q \in Requests \ {r} : req'[q] = req[q]
  <2>1. req' = [req EXCEPT ![r] = [req[r] EXCEPT !.pc = step, !.version = v]]
    BY <1>3 DEF GotoWith
  <2>2. QED BY <1>1, <2>1 DEF Request
<1>4. ASSUME NEW v \in Version, GotoWith(r, step, v), Goto(r, step)
      PROVE  req'[r].version = req[r].version
  <2>1. req' = [req EXCEPT ![r] = [req[r] EXCEPT !.pc = step]]
    BY <1>4 DEF Goto
  <2>2. QED BY <1>1, <2>1 DEF Request
<1>5. QED BY <1>2, <1>3, <1>4


\* A request goes on to a step that relies on no more than is known.
LEMMA Advance ==
    ASSUME TypeOK, PublishedInv, NEW r \in Requests, NEW step,
           UNCHANGED <<ops, outbox, writes>>, revisions' \subseteq revisions,
           \A f \in Files : drive'[f].ver # 0,
           req'[r].pc = step, req'[r].kind = req[r].kind,
           req'[r].op = req[r].op, req'[r].file = req[r].file,
           \A q \in Requests \ {r} : req'[q] = req[q],
           step \in Owning => Owns(r),
           step = "rebegin" => ops[req[r].op].status # "ABSENT" \/ req[r].kind = "SAVE",
           step \in {"replayFinalize", "stored", "ok"} =>
               ops[req[r].op].status # "ABSENT" /\ ops[req[r].op].file = req[r].file,
           step \in Unmarked => req[r].pc \in Unmarked,
           step \in Written => req[r].pc \in Written,
           step = "mark" => req'[r].version.ver # 0,
           step \in {"finalize", "ok"} \cup Retaining =>
               ops[req[r].op].result = req'[r].version,
           step \in {"stored", "ok"} \cup Retaining => HasEvent(req[r].op)
    PROVE  PublishedInv'
<1>1. RequestFits(r)
  BY DEF PublishedInv
<1>2. Owns(r)' => Owns(r)
  BY DEF Owns
<1>3. /\ HasEvent(req[r].op) => HasEvent(req[r].op)'
      /\ HasWrite(req[r].op, req[r].file) => HasWrite(req[r].op, req[r].file)'
  BY DEF HasEvent, HasWrite
<1>4. RequestFits(r)'
  BY <1>1, <1>2, <1>3 DEF RequestFits
<1>5. QED BY <1>2, <1>4, QuietStep

\* The replays: what the durable row tells a call.
LEMMA ReplayPublishes ==
    ASSUME TypeOK, PublishedInv, NEW r \in Requests, NEW step,
           NEW absent \in {"assert", "conflict", "error"}, ReplayFrom(r, step, absent)
    PROVE  PublishedInv'
<1>. DEFINE row == ops[req[r].op]
<1>1. /\ UNCHANGED <<ops, outbox, writes, revisions, drive>> /\ req[r].op \in OpIds
      /\ \A f \in Files : drive'[f].ver # 0
  BY RequestType DEF ReplayFrom, tables, PublishedInv
<1>2. row.result \in Version /\ RowFits(req[r].op)
  BY <1>1, OperationType DEF PublishedInv
<1>3. CASE \E answer \in {"conflict", "error"} : Refuse(r, answer)
  BY <1>1, <1>3, Refused, QuietStep
<1>4. CASE Goto(r, "assert")
  BY <1>1, <1>4, Moves, Advance DEF Owning, Unmarked, Written, Retaining
<1>5. CASE row.status = "PROVIDER_WRITTEN" /\ SameMutation(r, row) /\ Goto(r, "replayFinalize")
  <2>1. ops[req[r].op].status # "ABSENT" /\ ops[req[r].op].file = req[r].file
    BY <1>5 DEF SameMutation
  <2>2. QED BY <1>1, <1>5, <2>1, Moves, Advance DEF Owning, Unmarked, Written, Retaining
<1>6. CASE row.status = "COMPLETED" /\ SameMutation(r, row) /\ GotoWith(r, "ok", row.result)
  <2>1. ops[req[r].op].status # "ABSENT" /\ ops[req[r].op].file = req[r].file
    BY <1>6 DEF SameMutation
  <2>2. HasEvent(req[r].op)
    BY <1>2, <1>6 DEF RowFits
  <2>3. req'[r].version = ops[req[r].op].result /\ req'[r].pc = "ok"
    BY <1>2, <1>6, Moves
  <2>4. QED
    BY <1>1, <1>2, <1>6, <2>1, <2>2, <2>3, Moves, Advance DEF Owning, Unmarked, Written, Retaining
<1>7. QED BY <1>3, <1>4, <1>5, <1>6 DEF ReplayFrom, Answered

\* Steps that only read, or only change the provider.
LEMMA ReadingPublishes ==
    ASSUME TypeOK, PublishedInv, NEW r \in Requests,
           \/ Start(r) \/ ReturnStored(r)
           \/ AssertNoUnresolvedMutation(r) \/ Stat(r) \/ ReadOldVersion(r)
           \/ OpenVersion(r) \/ PreserveOldVersion(r) \/ CheckRevision(r)
           \/ ReadReplacedVersion(r) \/ PreserveNewVersion(r) \/ ReadFinalVersion(r)
           \/ Abandon(r)
    PROVE  PublishedInv'
<1>. USE DEF Owning, Unmarked, Written, Retaining
<1>1. /\ req \in [Requests -> Request] /\ req[r].file \in Files /\ req[r].op \in OpIds
      /\ req[r].version.rev \in Nat /\ req[r].kind \in Kind /\ RequestFits(r)
      /\ \A f \in Files : CurrentVersion(f) \in Version /\ drive[f].ver # 0
      /\ ops[req[r].op].result \in Version
  BY RequestType, DriveType, OperationType DEF TypeOK, PublishedInv
<1>2. UNCHANGED <<ops, outbox, writes, revisions>>
  BY DEF Start, ReturnStored, AssertNoUnresolvedMutation, Stat, ReadOldVersion, OpenVersion,
         PreserveOldVersion, CheckRevision, ReadReplacedVersion, PreserveNewVersion,
         ReadFinalVersion, Abandon, tables
<1>3. \A f \in Files : drive'[f].ver # 0
  <2>1. \/ UNCHANGED drive
        \/ \E f \in Files : \E rev \in Nat : Preserve(f, rev) \/ Release(f, rev)
    BY <1>1 DEF Start, ReturnStored, AssertNoUnresolvedMutation, Stat, ReadOldVersion,
         OpenVersion, PreserveOldVersion, CheckRevision, ReadReplacedVersion,
         PreserveNewVersion, ReadFinalVersion, Abandon
  <2>2. QED BY <2>1, DriveMoves
<1>4. CASE \E answer \in {"conflict", "error"} : Refuse(r, answer)
  BY <1>2, <1>3, <1>4, Refused, QuietStep
<1>5. CASE Start(r)
  <2>1. PICK k \in Kinds, f \in Files, o \in OpIds :
          \E v \in 1 .. drive[f].ver :
          \E s \in (IF k = "SAVE" THEN {0} ELSE {x.rev : x \in FileRevisions(f)}) :
            req' = [req EXCEPT ![r] =
                      [pc |-> "replay", kind |-> k, file |-> f, op |-> o,
                       expected |-> v, selected |-> s, version |-> NoVersion,
                       pruning |-> {}]]
    BY <1>5 DEF Start
  <2>2. /\ req'[r].pc = "replay" /\ req'[r].kind \in Kinds
        /\ \A q \in Requests \ {r} : req'[q] = req[q]
    BY <1>1, <2>1
  <2>3. ~Owns(r)' /\ RequestFits(r)'
    BY <2>2 DEF Owns, RequestFits
  <2>4. QED BY <1>2, <1>3, <2>2, <2>3, QuietStep
<1>6. CASE ReturnStored(r)
  <2>1. GotoWith(r, "ok", ops[req[r].op].result) /\ req[r].pc = "stored"
    BY <1>6 DEF ReturnStored, At
  <2>2. req'[r].version = ops[req[r].op].result
    BY <1>1, <2>1, Moves
  <2>3. /\ req'[r].pc = "ok" /\ req'[r].kind = req[r].kind
        /\ req'[r].op = req[r].op /\ req'[r].file = req[r].file
        /\ \A q \in Requests \ {r} : req'[q] = req[q]
    BY <1>1, <2>1, Moves
  <2>4. /\ ops[req[r].op].status # "ABSENT" /\ ops[req[r].op].file = req[r].file
        /\ HasEvent(req[r].op)
    BY <1>1, <2>1 DEF RequestFits
  <2>5. QED BY <1>2, <1>3, <2>2, <2>3, <2>4, Advance
<1>7. ASSUME NEW step \in {"stat", "old", "recheck", "preserveOld", "open", "begin"},
             Goto(r, step) \/ \E v \in Version : GotoWith(r, step, v)
      PROVE  PublishedInv'
  BY <1>1, <1>2, <1>3, <1>7, Moves, Advance
<1>8. CASE AssertNoUnresolvedMutation(r) \/ Stat(r) \/ OpenVersion(r) \/ PreserveOldVersion(r)
  BY <1>4, <1>7, <1>8 DEF AssertNoUnresolvedMutation, Stat, OpenVersion, PreserveOldVersion
<1>9. CASE ReadOldVersion(r)
  <2>1. CASE req[r].kind = "SAVE"
    BY <1>1, <1>7, <1>9, <2>1 DEF ReadOldVersion
  <2>2. CASE req[r].kind = "RESTORE" /\ CurrentVersion(req[r].file).ver = req[r].expected
    BY <1>1, <1>7, <1>9, <2>2 DEF ReadOldVersion
  <2>3. CASE req[r].kind # "SAVE" /\ CurrentVersion(req[r].file).ver # req[r].expected
    BY <1>1, <1>4, <1>9, <2>3 DEF ReadOldVersion
  <2>4. QED BY <1>1, <2>1, <2>2, <2>3 DEF Kind
<1>10. CASE CheckRevision(r)
  <2>1. req[r].pc = "check" /\ (Goto(r, "upload") \/ Goto(r, "reject"))
    BY <1>10 DEF CheckRevision, At
  <2>2. QED BY <1>2, <1>3, <2>1, Moves, Advance DEF Owns
<1>11. CASE ReadReplacedVersion(r)
  <2>1. req[r].pc = "replaced" /\ \E v \in Version : GotoWith(r, "preserveNew", v)
    BY <1>1, <1>11 DEF ReadReplacedVersion, At
  <2>2. /\ req'[r].pc = "preserveNew" /\ req'[r].kind = req[r].kind
        /\ req'[r].op = req[r].op /\ req'[r].file = req[r].file
        /\ \A q \in Requests \ {r} : req'[q] = req[q]
    BY <2>1, Moves
  <2>3. QED BY <1>2, <1>3, <2>1, <2>2, Advance DEF Owns
<1>12. CASE PreserveNewVersion(r)
  <2>1. req[r].pc = "preserveNew" /\ Goto(r, "final")
    BY <1>12 DEF PreserveNewVersion, At
  <2>2. QED BY <1>2, <1>3, <2>1, Moves, Advance DEF Owns
<1>13. CASE ReadFinalVersion(r)
  <2>1. /\ req[r].pc = "final" /\ GotoWith(r, "mark", CurrentVersion(req[r].file))
        /\ CurrentVersion(req[r].file).ver # 0
    BY <1>1, <1>13 DEF ReadFinalVersion, At, CurrentVersion
  <2>2. /\ req'[r].pc = "mark" /\ req'[r].kind = req[r].kind
        /\ req'[r].op = req[r].op /\ req'[r].file = req[r].file
        /\ req'[r].version.ver # 0
        /\ \A q \in Requests \ {r} : req'[q] = req[q]
    BY <1>1, <2>1, Moves
  <2>3. QED BY <1>2, <1>3, <2>1, <2>2, Advance DEF Owns
<1>14. CASE Abandon(r)
  BY <1>4, <1>14 DEF Abandon
<1>15. QED
  BY <1>5, <1>6, <1>8, <1>9, <1>10, <1>11, <1>12, <1>13, <1>14

\* Retention changes neither rows nor events.
LEMMA RetentionPublishes ==
    ASSUME TypeOK, PublishedInv, NEW r \in Requests,
           SelectPrunable(r) \/ ReleaseRow(r) \/ DeleteRow(r)
    PROVE  PublishedInv'
<1>. USE DEF Owning, Unmarked, Written, Retaining
<1>1. req \in [Requests -> Request] /\ req[r] \in Request /\ RequestFits(r)
  BY RequestType DEF TypeOK, PublishedInv
<1>2. UNCHANGED <<ops, outbox, writes>> /\ revisions' \subseteq revisions
  BY DEF SelectPrunable, ReleaseRow, DeleteRow, tables
<1>3. \A f \in Files : drive'[f].ver # 0
  <2>1. \A x \in req[r].pruning : x.file \in Files /\ x.rev \in Nat
    BY RequestType DEF Revision
  <2>2. \/ UNCHANGED drive
        \/ \E f \in Files : \E rev \in Nat : Preserve(f, rev) \/ Release(f, rev)
    BY <2>1 DEF SelectPrunable, ReleaseRow, DeleteRow
  <2>3. QED BY <2>2, DriveMoves
<1>4. req[r].pc \in Retaining
  BY DEF SelectPrunable, ReleaseRow, DeleteRow, At
<1>5. ASSUME NEW step \in {"ok"} \cup Retaining, NEW rows,
             req' = [req EXCEPT ![r] = [req[r] EXCEPT !.pc = step, !.pruning = rows]]
      PROVE  PublishedInv'
  <2>1. /\ req'[r].pc = step /\ req'[r].kind = req[r].kind /\ req'[r].op = req[r].op
        /\ req'[r].file = req[r].file /\ req'[r].version = req[r].version
        /\ \A q \in Requests \ {r} : req'[q] = req[q]
    BY <1>1, <1>5 DEF Request
  <2>2. QED BY <1>1, <1>2, <1>3, <1>4, <2>1, Advance DEF Owns, RequestFits
<1>6. CASE SelectPrunable(r)
  <2>1. req' = [req EXCEPT ![r] = [req[r] EXCEPT !.pc = "release",
                  !.pruning = BeyondLimit(req[r].file)]]
    BY <1>6 DEF SelectPrunable
  <2>2. QED BY <1>5, <2>1
<1>7. CASE ReleaseRow(r)
  <2>1. ASSUME NEW step \in {"ok", "delete"}, Goto(r, step) PROVE PublishedInv'
    <3>1. req' = [req EXCEPT ![r] = [req[r] EXCEPT !.pc = step]]
      BY <2>1 DEF Goto
    <3>2. /\ req'[r].pc = step /\ req'[r].kind = req[r].kind /\ req'[r].op = req[r].op
          /\ req'[r].file = req[r].file /\ req'[r].version = req[r].version
          /\ \A q \in Requests \ {r} : req'[q] = req[q]
      BY <1>1, <3>1 DEF Request
    <3>3. QED BY <1>1, <1>2, <1>3, <1>4, <3>2, Advance DEF Owns, RequestFits
  <2>2. ASSUME NEW x, req' = [req EXCEPT ![r].pruning = @ \ {x}] PROVE PublishedInv'
    <3>1. req' = [req EXCEPT ![r] = [req[r] EXCEPT !.pruning = req[r].pruning \ {x}]]
      BY <2>2
    <3>2. /\ req'[r].pc = req[r].pc /\ req'[r].kind = req[r].kind /\ req'[r].op = req[r].op
          /\ req'[r].file = req[r].file /\ req'[r].version = req[r].version
          /\ \A q \in Requests \ {r} : req'[q] = req[q]
      BY <1>1, <3>1 DEF Request
    <3>3. QED BY <1>1, <1>2, <1>3, <1>4, <3>2, Advance DEF Owns, RequestFits
  <2>3. QED BY <1>7, <2>1, <2>2 DEF ReleaseRow
<1>8. CASE DeleteRow(r)
  <2>1. PICK x \in req[r].pruning :
          req' = [req EXCEPT ![r].pc = "release", ![r].pruning = @ \ {x}]
    BY <1>8 DEF DeleteRow
  <2>2. req' = [req EXCEPT ![r] = [req[r] EXCEPT !.pc = "release",
                  !.pruning = req[r].pruning \ {x}]]
    BY <2>1
  <2>3. QED BY <1>5, <2>2
<1>9. QED BY <1>6, <1>7, <1>8

\* The status of a row changes, and nothing else of the tables.
LEMMA StatusKept ==
    ASSUME TypeOK, PublishedInv, NEW o \in OpIds, ops[o].status # "ABSENT",
           UpdateOperation(o, [ops[o] EXCEPT !.status = "FAILED"]),
           UNCHANGED <<outbox, revisions, writes>>
    PROVE  /\ RowsKept /\ Grows
           /\ EventsFit' /\ (\A p \in OpIds : RowFits(p)') /\ HistoryPublished'
<1>1. ops \in [OpIds -> Operation] /\ ops[o] \in Operation
  BY DEF TypeOK
<1>2. /\ ops'[o].status = "FAILED" /\ ops'[o].file = ops[o].file
      /\ ops'[o].result = ops[o].result
      /\ \A p \in OpIds \ {o} : ops'[p] = ops[p]
  BY <1>1 DEF UpdateOperation, Operation
<1>3. RowsKept /\ Grows
  BY <1>2 DEF RowsKept, Grows
<1>4. \A p \in OpIds : ops'[p].status # ops[p].status =>
         ops'[p].status \notin {"COMPLETED", "ABSENT"}
  BY <1>2
<1>5. QED BY <1>3, <1>4, KeptRows

LEMMA BeginPublishes ==
    ASSUME TypeOK, PublishedInv, InsertsReliable, NEW r \in Requests, BeginOperation(r)
    PROVE  PublishedInv'
<1>. USE DEF Owning, Unmarked, Written, Retaining
<1>1. /\ RequestFits(r) /\ req[r].op \in OpIds /\ req[r].kind \in Kind
      /\ UNCHANGED <<drive, outbox, revisions, writes>>
      /\ \A f \in Files : drive'[f].ver # 0
      /\ RowFits(req[r].op)
  BY RequestType DEF PublishedInv, BeginOperation
<1>2. CASE Goto(r, "rebegin")
  <2>1. ops' = ops /\ (ops[req[r].op].status # "ABSENT" \/ InsertMayFail)
    <3>1. ~Goto(r, "check")
      BY <1>2, Moves
    <3>2. QED BY <3>1 DEF BeginOperation
  <2>2. ops[req[r].op].status # "ABSENT" \/ req[r].kind = "SAVE"
    BY <1>1, <2>1 DEF InsertsReliable, RequestFits, Kind
  <2>3. QED BY <1>1, <1>2, <2>1, <2>2, Moves, Advance
<1>3. CASE ~Goto(r, "rebegin")
  <2>. DEFINE o == req[r].op
              row == [status |-> "PENDING", file |-> req[r].file, kind |-> req[r].kind,
                expected |-> req[r].expected, selected |-> req[r].selected,
                previous |-> IF req[r].kind = "SAVE" THEN req[r].version ELSE NoVersion,
                result |-> NoVersion]
  <2>1. ops[o].status = "ABSENT" /\ Goto(r, "check") /\ ops' = [ops EXCEPT ![o] = row]
    BY <1>3 DEF BeginOperation, UpdateOperation
  <2>2. /\ ops'[o].status = "PENDING" /\ ops'[o].result = NoVersion
        /\ ops'[o].file = req[r].file /\ ops[o].result = NoVersion
        /\ \A p \in OpIds \ {o} : ops'[p] = ops[p]
    BY <1>1, <2>1 DEF TypeOK, RowFits
  <2>3. RowsKept /\ Grows
    BY <1>1, <2>1, <2>2 DEF RowsKept, Grows
  <2>4. \A p \in OpIds : ops'[p].status # ops[p].status =>
           ops'[p].status \notin {"COMPLETED", "ABSENT"}
    BY <2>2
  <2>5. EventsFit' /\ (\A p \in OpIds : RowFits(p)') /\ HistoryPublished'
    BY <1>1, <2>3, <2>4, KeptRows
  <2>6. /\ req'[r].pc = "check" /\ req'[r].op = req[r].op /\ req'[r].kind = req[r].kind
        /\ req'[r].file = req[r].file /\ \A q \in Requests \ {r} : req'[q] = req[q]
    BY <2>1, Moves
  <2>7. RequestFits(r)'
    BY <1>1, <2>2, <2>6 DEF RequestFits
  <2>8. QED BY <1>1, <2>1, <2>3, <2>5, <2>6, <2>7, StepFits
<1>4. QED BY <1>2, <1>3

LEMMA UploadPublishes ==
    ASSUME TypeOK, PublishedInv, NEW r \in Requests, Upload(r)
    PROVE  PublishedInv'
<1>. USE DEF Owning, Unmarked, Written, Retaining
<1>1. /\ RequestFits(r) /\ req[r].file \in Files /\ req[r].pc = "upload"
      /\ UNCHANGED <<ops, outbox, revisions>> /\ writes \subseteq writes'
      /\ UploadTo(req[r].file) /\ Goto(r, "replaced")
  BY RequestType DEF PublishedInv, Upload, At, tables
<1>2. HasWrite(req[r].op, req[r].file)'
  <2>1. req'[r].op = req[r].op /\ req'[r].file = req[r].file
    BY <1>1, Moves
  <2>2. [req |-> r, op |-> req[r].op, kind |-> req[r].kind, file |-> req[r].file,
         rev |-> drive[req[r].file].head + 1] \in writes'
    BY DEF Upload
  <2>3. QED BY <2>1, <2>2 DEF HasWrite
<1>3. RowsKept /\ Grows
  BY <1>1 DEF RowsKept, Grows
<1>4. EventsFit' /\ (\A p \in OpIds : RowFits(p)') /\ HistoryPublished'
  BY <1>1, <1>3, KeptRows
<1>5. /\ req'[r].pc = "replaced" /\ req'[r].op = req[r].op /\ req'[r].kind = req[r].kind
      /\ req'[r].file = req[r].file /\ \A q \in Requests \ {r} : req'[q] = req[q]
  BY <1>1, Moves
<1>6. RequestFits(r)'
  BY <1>1, <1>2, <1>5 DEF RequestFits, Owns
<1>7. \A f \in Files : drive'[f].ver # 0
  BY <1>1, DriveMoves
<1>8. Owns(r)
  BY <1>1 DEF Owns
<1>9. QED BY <1>3, <1>4, <1>5, <1>6, <1>7, <1>8, StepFits

LEMMA RejectPublishes ==
    ASSUME TypeOK, PublishedInv, NEW r \in Requests, RejectConflict(r)
    PROVE  PublishedInv'
<1>1. /\ req[r].op \in OpIds /\ UNCHANGED <<drive, outbox, revisions, writes>>
      /\ \A f \in Files : drive'[f].ver # 0
      /\ RequestFits(r)' /\ ~Owns(r)' /\ \A q \in Requests \ {r} : req'[q] = req[q]
  BY RequestType, Refused DEF PublishedInv, RejectConflict
<1>2. CASE UNCHANGED ops
  BY <1>1, <1>2, QuietStep
<1>3. CASE ~UNCHANGED ops
  <2>1. /\ ops[req[r].op].status # "ABSENT"
        /\ UpdateOperation(req[r].op, [ops[req[r].op] EXCEPT !.status = "FAILED"])
    BY <1>3 DEF RejectConflict
  <2>2. /\ RowsKept /\ Grows
        /\ EventsFit' /\ (\A p \in OpIds : RowFits(p)') /\ HistoryPublished'
    BY <1>1, <2>1, StatusKept
  <2>3. QED BY <1>1, <2>2, StepFits
<1>4. QED BY <1>2, <1>3

LEMMA MarkedRow ==
    ASSUME NEW row \in Operation, NEW v, NEW marked,
           marked = [row EXCEPT !.status = "PROVIDER_WRITTEN", !.result = v]
    PROVE  marked.status = "PROVIDER_WRITTEN" /\ marked.result = v /\ marked.file = row.file
BY DEF Operation

\* The mark gives a row its result, once: its owner is alone, no event speaks of
\* the operation yet and no other call has been told of it.
LEMMA MarkPublishes ==
    ASSUME TypeOK, PublishedInv, NEW r \in Requests, MarkProviderWritten(r)
    PROVE  PublishedInv'
<1>. USE DEF Owning, Unmarked, Written, Retaining
<1>. DEFINE o == req[r].op
<1>1. /\ req[r].pc = "mark" /\ o \in OpIds /\ req[r].version \in Version /\ RequestFits(r)
      /\ UNCHANGED <<drive, outbox, revisions, writes>>
      /\ \A f \in Files : drive'[f].ver # 0
  BY RequestType DEF PublishedInv, MarkProviderWritten, At
<1>2. /\ ops[o].status # "ABSENT" /\ ops[o].file = req[r].file /\ ops[o].result = NoVersion
      /\ HasWrite(o, req[r].file) /\ req[r].version.ver # 0 /\ Owns(r)
  BY <1>1 DEF RequestFits, Owns
<1>3. Goto(r, "finalize") /\ ops' = [ops EXCEPT ![o] = [ops[o] EXCEPT
                               !.status = "PROVIDER_WRITTEN", !.result = req[r].version]]
  BY <1>2 DEF MarkProviderWritten, UpdateOperation
<1>4. /\ ops'[o].status = "PROVIDER_WRITTEN" /\ ops'[o].result = req[r].version
      /\ ops'[o].file = ops[o].file
      /\ \A p \in OpIds \ {o} : ops'[p] = ops[p]
  <2>1. ops \in [OpIds -> Operation] /\ ops[o] \in Operation
    BY <1>1 DEF TypeOK
  <2>2. ops'[o] = [ops[o] EXCEPT !.status = "PROVIDER_WRITTEN", !.result = req[r].version]
    BY <1>1, <1>3, <2>1
  <2>3. \A p \in OpIds \ {o} : ops'[p] = ops[p]
    BY <1>1, <1>3, <2>1
  <2>4. /\ ops'[o].status = "PROVIDER_WRITTEN" /\ ops'[o].result = req[r].version
        /\ ops'[o].file = ops[o].file
    <3>. DEFINE marked == ops'[o]
    <3>. HIDE DEF o, marked
    <3>1. marked = [ops[o] EXCEPT !.status = "PROVIDER_WRITTEN", !.result = req[r].version]
      BY <2>2 DEF marked
    <3>2. marked.status = "PROVIDER_WRITTEN" /\ marked.result = req[r].version
          /\ marked.file = ops[o].file
      <4>. DEFINE row == ops[o]  version == req[r].version
      <4>. HIDE DEF row, version
      <4>1. row \in Operation /\ marked = [row EXCEPT !.status = "PROVIDER_WRITTEN", !.result = version]
        BY <2>1, <3>1 DEF row, version
      <4>2. marked.status = "PROVIDER_WRITTEN" /\ marked.result = version
            /\ marked.file = row.file
        BY <4>1 DEF Operation
      <4>3. QED BY <4>2 DEF row, version
    <3>3. QED BY <3>2 DEF marked
  <2>5. QED BY <2>3, <2>4
<1>5. \A e \in outbox : e.op # o /\ e.op \in OpIds
  BY <1>2 DEF PublishedInv, EventsFit, TypeOK, Event
<1>6. EventsFit'
  BY <1>1, <1>4, <1>5 DEF PublishedInv, EventsFit
<1>7. ASSUME NEW p \in OpIds PROVE RowFits(p)'
  <2>1. RowFits(p) /\ (HasEvent(p) => HasEvent(p)')
    BY <1>1 DEF PublishedInv, HasEvent
  <2>2. CASE p = o
    <3>1. \E w \in writes' : w.op = p /\ w.file = ops'[p].file
      BY <1>1, <1>2, <1>4, <2>2 DEF HasWrite
    <3>2. QED BY <1>2, <1>4, <2>2, <3>1 DEF RowFits, HasWrite
  <2>3. CASE p # o
    <3>1. HasWrite(p, ops[p].file) => HasWrite(p, ops[p].file)'
      BY <1>1, <1>4, <2>3 DEF HasWrite
    <3>2. QED BY <1>4, <2>1, <2>3, <3>1 DEF RowFits
  <2>4. QED BY <2>2, <2>3
<1>8. HistoryPublished'
  BY <1>1 DEF PublishedInv, HistoryPublished
<1>9. /\ req'[r].pc = "finalize" /\ req'[r].op = req[r].op /\ req'[r].kind = req[r].kind
      /\ req'[r].file = req[r].file /\ req'[r].version = req[r].version
      /\ \A q \in Requests \ {r} : req'[q] = req[q]
  BY <1>3, Moves
<1>10. ASSUME NEW q \in Requests PROVE RequestFits(q)'
  <2>1. CASE q = r
    BY <1>1, <1>2, <1>4, <1>9, <2>1 DEF RequestFits, Owns
  <2>2. CASE q # r
    <3>1. RequestFits(q) /\ req'[q] = req[q] /\ req[q].op \in OpIds
      BY <1>9, <2>2, RequestType DEF PublishedInv
    <3>2. /\ HasEvent(req[q].op) => HasEvent(req[q].op)'
          /\ HasWrite(req[q].op, req[q].file) => HasWrite(req[q].op, req[q].file)'
      BY <1>1, <3>1 DEF HasEvent, HasWrite
    <3>3. CASE req[q].op = o
      <4>1. ~Owns(q)
        BY <1>2, <2>2, <3>3 DEF PublishedInv, SoleOwner
      <4>2. req[q].pc \notin {"stored", "ok"}
        BY <1>5, <3>1, <3>3 DEF RequestFits, HasEvent
      <4>3. QED BY <1>2, <1>4, <3>1, <3>3, <4>1, <4>2 DEF RequestFits, Owns
    <3>4. CASE req[q].op # o
      BY <1>4, <3>1, <3>2, <3>4 DEF RequestFits, Owns
    <3>5. QED BY <3>3, <3>4
  <2>3. QED BY <2>1, <2>2
<1>11. SoleOwner'
  <2>1. \A q \in Requests : (Owns(q)' <=> Owns(q)) /\ req'[q].op = req[q].op
    BY <1>2, <1>9 DEF Owns
  <2>2. QED BY <2>1 DEF PublishedInv, SoleOwner
<1>12. QED BY <1>1, <1>6, <1>7, <1>8, <1>10, <1>11 DEF PublishedInv

LEMMA FinalizingPublishes ==
    ASSUME TypeOK, PublishedInv, NEW r \in Requests, ReplayFinalize(r) \/ FinalizeRequest(r)
    PROVE  PublishedInv'
<1>. USE DEF Owning, Unmarked, Written, Retaining
<1>1. /\ UNCHANGED <<drive, writes>> /\ req[r].op \in OpIds /\ RequestFits(r)
      /\ \A f \in Files : drive'[f].ver # 0
  BY RequestType DEF PublishedInv, ReplayFinalize, FinalizeRequest
<1>2. CASE Refuse(r, "error") /\ UNCHANGED tables
  BY <1>1, <1>2, Refused, QuietStep DEF tables
<1>3. ASSUME Finalize(req[r].op),
             NEW from, NEW step, <<from, step>> \in {<<"replayFinalize", "stored">>, <<"finalize", "prune">>},
             req[r].pc = from, Goto(r, step)
      PROVE  PublishedInv'
  <2>1. /\ RowsKept /\ Grows /\ \E e \in outbox' : e.op = req[r].op
        /\ EventsFit' /\ (\A p \in OpIds : RowFits(p)') /\ HistoryPublished'
    BY <1>1, <1>3, FinalizePublishes
  <2>2. /\ req'[r].pc = step /\ req'[r].op = req[r].op /\ req'[r].kind = req[r].kind
        /\ req'[r].file = req[r].file /\ req'[r].version = req[r].version
        /\ \A q \in Requests \ {r} : req'[q] = req[q]
    BY <1>3, Moves
  <2>3. RequestFits(r)'
    <3>1. HasEvent(req[r].op)'
      BY <2>1, <2>2 DEF HasEvent
    <3>2. QED BY <1>1, <1>3, <2>1, <2>2, <3>1 DEF RequestFits, RowsKept, Owns
  <2>4. Owns(r)' => Owns(r)
    BY <1>3, <2>2 DEF Owns
  <2>5. QED BY <1>1, <2>1, <2>2, <2>3, <2>4, StepFits
<1>4. QED BY <1>2, <1>3 DEF ReplayFinalize, FinalizeRequest, At

LEMMA RequestPublishes ==
    ASSUME TypeOK, PublishedInv, InsertsReliable, NEW r \in Requests, RequestStep(r)
    PROVE  PublishedInv'
<1>1. CASE Replay(r) \/ ReplayAfterMismatch(r)
  BY <1>1, ReplayPublishes DEF Replay, ReplayAfterMismatch
<1>2. CASE ReplayAfterCreate(r)
  <2>1. CASE req[r].kind = "SAVE"
    BY <1>2, <2>1, ReplayPublishes DEF ReplayAfterCreate
  <2>2. CASE req[r].kind # "SAVE"
    <3>1. ReplayFrom(r, "rebegin", "check") /\ ops[req[r].op].status # "ABSENT"
      BY <1>2, <2>2 DEF ReplayAfterCreate, ReplayFrom, At, PublishedInv, RequestFits
    <3>2. ReplayFrom(r, "rebegin", "error")
      BY <3>1 DEF ReplayFrom
    <3>3. QED BY <3>2, ReplayPublishes
  <2>3. QED BY <2>1, <2>2
<1>3. QED
  BY <1>1, <1>2, ReadingPublishes, RetentionPublishes, BeginPublishes, UploadPublishes,
     RejectPublishes, MarkPublishes, FinalizingPublishes DEF RequestStep

---------------------------------------------------------------------------
(* Steps of the worker, and the theorem *)

LEMMA RequestsWait ==
    ASSUME TypeOK, PublishedInv, RowsKept, Grows, UNCHANGED req,
           EventsFit', \A o \in OpIds : RowFits(o)', HistoryPublished',
           \A f \in Files : drive'[f].ver # 0
    PROVE  PublishedInv'
<1>1. \A q \in Requests : RequestFits(q)'
  BY KeptRequest
<1>2. SoleOwner'
  BY DEF PublishedInv, SoleOwner, Owns
<1>3. QED BY <1>1, <1>2 DEF PublishedInv

LEMMA NothingPublished ==
    ASSUME TypeOK, PublishedInv, UNCHANGED <<req, ops, outbox, revisions, writes>>,
           \A f \in Files : drive'[f].ver # 0
    PROVE  PublishedInv'
<1>1. RowsKept /\ Grows
  BY DEF RowsKept, Grows
<1>2. EventsFit' /\ (\A p \in OpIds : RowFits(p)') /\ HistoryPublished'
  BY <1>1, KeptRows
<1>3. QED BY <1>1, <1>2, RequestsWait

\* The operation the worker is about to give up has its row.
FailingFits == failing # NoOp => ops[failing].status # "ABSENT"

LEMMA WorkerPublishes ==
    ASSUME TypeOK, PublishedInv, FailingFits, WorkerStep
    PROVE  PublishedInv'
<1>1. UNCHANGED <<drive, req, writes>> /\ \A f \in Files : drive'[f].ver # 0
  BY DEF WorkerStep, Scan, ScanFirst, SkipPending, MarkFailed, RestartWorker, Reconcile,
         ReconcileUnrecoverable, ReconcileRetryLater, PublishedInv
<1>2. CASE UNCHANGED <<ops, outbox, revisions>>
  BY <1>1, <1>2, NothingPublished
<1>3. CASE MarkFailed
  <2>1. /\ failing \in OpIds /\ ops[failing].status # "ABSENT"
        /\ UNCHANGED <<outbox, revisions>>
        /\ UpdateOperation(failing, [ops[failing] EXCEPT !.status = "FAILED"])
    BY <1>3 DEF MarkFailed, TypeOK, FailingFits
  <2>2. /\ RowsKept /\ Grows
        /\ EventsFit' /\ (\A p \in OpIds : RowFits(p)') /\ HistoryPublished'
    BY <1>1, <2>1, StatusKept
  <2>3. QED BY <1>1, <2>2, RequestsWait
<1>4. ASSUME NEW o \in OpIds, Reconcile(o) PROVE PublishedInv'
  <2>1. /\ RowsKept /\ Grows
        /\ EventsFit' /\ (\A p \in OpIds : RowFits(p)') /\ HistoryPublished'
    BY <1>1, <1>4, FinalizePublishes DEF Reconcile
  <2>2. QED BY <1>1, <2>1, RequestsWait
<1>5. ASSUME NEW o \in OpIds, ReconcileRetryLater(o) PROVE PublishedInv'
  BY <1>2, <1>5 DEF ReconcileRetryLater, UpdateOperation, TypeOK
<1>6. CASE Scan \/ SkipPending \/ RestartWorker \/ \E o \in OpIds : ReconcileUnrecoverable(o)
  BY <1>2, <1>6 DEF Scan, ScanFirst, SkipPending, RestartWorker, ReconcileUnrecoverable, tables
<1>7. QED BY <1>3, <1>4, <1>5, <1>6 DEF WorkerStep

LEMMA NextFailing ==
    ASSUME TypeOK, FailingFits, [Next]_vars
    PROVE  FailingFits'
<1>1. \A o \in OpIds : ops[o].status # "ABSENT" => ops'[o].status # "ABSENT"
  BY RowsStay
<1>2. CASE failing' = failing
  BY <1>1, <1>2 DEF FailingFits, TypeOK
<1>3. CASE failing' = NoOp
  BY <1>3 DEF FailingFits
<1>4. ASSUME NEW o \in OpIds, ReconcileUnrecoverable(o) PROVE FailingFits'
  BY <1>1, <1>4 DEF ReconcileUnrecoverable, ReadyToFinalize, FailingFits
<1>5. ASSUME NEW r \in Requests, RequestStep(r) PROVE failing' = failing
  BY <1>5 DEF RequestStep, Start, Replay, ReplayAfterMismatch, ReplayAfterCreate, ReplayFrom,
     ReplayFinalize, ReturnStored, AssertNoUnresolvedMutation, Stat, ReadOldVersion,
     OpenVersion, PreserveOldVersion, BeginOperation, CheckRevision, Upload, RejectConflict,
     ReadReplacedVersion, PreserveNewVersion, ReadFinalVersion, MarkProviderWritten,
     FinalizeRequest, SelectPrunable, ReleaseRow, DeleteRow, Abandon, worker
<1>6. CASE WorkerStep
  BY <1>2, <1>3, <1>4, <1>6 DEF WorkerStep, Scan, ScanFirst, SkipPending, MarkFailed,
     RestartWorker, Reconcile, ReconcileRetryLater
<1>7. CASE (\E f \in Files : RemoteEdit(f)) \/ UNCHANGED vars
  BY <1>2, <1>7 DEF RemoteEdit, worker, vars
<1>8. QED BY <1>2, <1>5, <1>6, <1>7 DEF Next

LEMMA NextPublishes ==
    ASSUME TypeOK, PublishedInv, FailingFits, InsertsReliable, [Next]_vars
    PROVE  PublishedInv'
<1>1. ASSUME NEW f \in Files, RemoteEdit(f) PROVE PublishedInv'
  <2>1. UNCHANGED <<req, ops, outbox, revisions, writes>> /\ UploadTo(f)
    BY <1>1 DEF RemoteEdit, tables
  <2>2. QED BY <2>1, DriveMoves, NothingPublished
<1>2. CASE UNCHANGED vars
  BY <1>2, NothingPublished DEF vars, PublishedInv
<1>3. QED BY <1>1, <1>2, RequestPublishes, WorkerPublishes DEF Next

LEMMA InitPublishes == Init => PublishedInv /\ FailingFits
<1>. SUFFICES ASSUME Init PROVE PublishedInv /\ FailingFits
  OBVIOUS
<1>1. /\ \A f \in Files : drive[f].ver = 1
      /\ \A o \in OpIds : ops[o].status = "ABSENT" /\ ops[o].result = NoVersion
      /\ \A x \in revisions : x.op = NoOp
      /\ outbox = {} /\ failing = NoOp
      /\ \A r \in Requests : req[r].pc = "idle" /\ req[r].kind = "SAVE"
  BY DEF Init, NoRequest
<1>2. \A r \in Requests : ~Owns(r) /\ RequestFits(r)
  BY <1>1 DEF Owns, RequestFits, Owning, Unmarked, Written, Retaining
<1>3. QED
  BY <1>1, <1>2 DEF PublishedInv, FailingFits, EventsFit, RowFits, HistoryPublished, SoleOwner

\* The invariant behind both theorems, wherever inserts are reliable.
LEMMA Published == ASSUME InsertsReliable PROVE Spec => [](TypeOK /\ PublishedInv /\ FailingFits)
<1>1. Init => TypeOK /\ PublishedInv /\ FailingFits
  BY InitType, InitPublishes
<1>2. TypeOK /\ PublishedInv /\ FailingFits /\ [Next]_vars
        => (TypeOK /\ PublishedInv /\ FailingFits)'
  BY NextType, NextPublishes, NextFailing
<1>3. QED BY <1>1, <1>2, PTL DEF Spec

\* History, event, completion and answer agree: a successful answer is durable,
\* a completed operation has its event, the event repeats the result its row
\* keeps, and a history row repeats what its event says; in whatever order
\* deliveries, the worker, retention and crashes interleave.
THEOREM AllOrNothing == ASSUME InsertsReliable PROVE Spec => []PublishedTogether
<1>1. TypeOK /\ PublishedInv => PublishedTogether
  <2>. SUFFICES ASSUME TypeOK, PublishedInv PROVE PublishedTogether
    OBVIOUS
  <2>1. OkIsDurable
    <3>. SUFFICES ASSUME NEW r \in Requests, req[r].pc = "ok"
                  PROVE  /\ [op |-> req[r].op, file |-> req[r].file, ver |-> req[r].version.ver] \in outbox
                         /\ ops[req[r].op].result = req[r].version
                         /\ \E w \in writes : w.op = req[r].op /\ w.file = req[r].file
      BY DEF OkIsDurable, At
    <3>1. /\ HasEvent(req[r].op) /\ ops[req[r].op].file = req[r].file
          /\ ops[req[r].op].result = req[r].version /\ req[r].op \in OpIds
      BY RequestType DEF PublishedInv, RequestFits
    <3>2. PICK e \in outbox : e.op = req[r].op
      BY <3>1 DEF HasEvent
    <3>3. /\ e = [op |-> req[r].op, file |-> req[r].file, ver |-> req[r].version.ver]
          /\ ops[req[r].op].result # NoVersion
      BY <3>1, <3>2 DEF PublishedInv, EventsFit, TypeOK, Event
    <3>4. HasWrite(req[r].op, req[r].file)
      BY <3>1, <3>3 DEF PublishedInv, RowFits
    <3>5. QED BY <3>1, <3>3, <3>4 DEF HasWrite
  <2>2. QED
    BY <2>1 DEF PublishedTogether, PublishedInv, RowFits, HasEvent, EventsFit, HistoryPublished
<1>2. QED BY <1>1, Published, PTL


---------------------------------------------------------------------------
(* The refinement *)

Effect == [o \in OpIds |->
    IF \E e \in outbox : e.op = o THEN (CHOOSE e \in outbox : e.op = o).ver ELSE 0]
Said(r) == IF At(r, "ok") THEN "done" ELSE IF req[r].pc \in Answered THEN "refused" ELSE "silent"
Told(r) == [o \in OpIds |-> IF At(r, "ok") /\ req[r].op = o THEN req[r].version.ver ELSE 0]
Answer == [r \in Requests |-> [said |-> Said(r), ver |-> Told(r)]]

LEMMA Chosen ==
    ASSUME NEW box, NEW o, NEW v,
           \E e \in box : e.op = o, \A e \in box : e.op = o => e.ver = v
    PROVE  (CHOOSE e \in box : e.op = o).ver = v
OBVIOUS

\* A call that has not been answered and, in this step, is or is not, while the
\* events stay as they are.
LEMMA AnswerRefines ==
    ASSUME TypeOK, TypeOK', PublishedInv, PublishedInv', UNCHANGED outbox,
           NEW r \in Requests, \A q \in Requests \ {r} : req'[q] = req[q],
           req[r].pc \notin Answered
    PROVE  [Outcome!Next]_(Outcome!vars)
<1>1. UNCHANGED Effect
  BY DEF Effect
<1>2. /\ Answer[r] = [said |-> "silent", ver |-> [o \in OpIds |-> 0]]
      /\ \A q \in Requests \ {r} : Answer'[q] = Answer[q]
  BY DEF Answer, Said, Told, At, Answered
<1>3. Answer' = [Answer EXCEPT ![r] = Answer'[r]]
  BY <1>2 DEF Answer
<1>4. CASE req'[r].pc \notin Answered
  <2>1. Answer'[r] = Answer[r]
    BY <1>2, <1>4 DEF Answer, Said, Told, At, Answered
  <2>2. UNCHANGED Answer
    BY <1>2, <2>1 DEF Answer
  <2>3. QED BY <1>1, <2>2 DEF Outcome!vars, Effect, Answer, Said, Told
<1>5. CASE req'[r].pc \in Answered \ {"ok"}
  <2>1. Answer'[r] = [said |-> "refused", ver |-> [o \in OpIds |-> 0]]
    BY <1>5 DEF Answer, Said, Told, At
  <2>2. Outcome!Refuse(r)
    BY <1>1, <1>2, <1>3, <2>1 DEF Outcome!Refuse, Outcome!Silent, Outcome!Refused,
       Outcome!Nothing, Effect, Answer, Said, Told
  <2>3. QED BY <2>2 DEF Outcome!Next
<1>6. CASE req'[r].pc = "ok"
  <2>1. PICK o \in OpIds : o = req'[r].op
    BY <1>6 DEF TypeOK, Request
  <2>2. req'[r].version.ver = Effect[o] /\ Effect[o] # 0
    <3>1. /\ \E e \in outbox' : e.op = o
          /\ ops'[o].result = req'[r].version
      BY <1>6, <2>1 DEF PublishedInv, RequestFits, HasEvent
    <3>2. \A e \in outbox : e.op = o => e.ver = req'[r].version.ver /\ ops'[o].result # NoVersion
      BY <3>1 DEF PublishedInv, EventsFit
    <3>3. \E e \in outbox : e.op = o
      BY <3>1
    <3>4. req'[r].version.ver # 0
      BY <3>1, <3>2, <3>3 DEF PublishedInv, RowFits
    <3>5. (CHOOSE e \in outbox : e.op = o).ver = req'[r].version.ver
      BY <3>2, <3>3, Chosen
    <3>6. QED BY <3>3, <3>4, <3>5 DEF Effect
  <2>3. Answer'[r] = [said |-> "done", ver |-> [[p \in OpIds |-> 0] EXCEPT ![o] = Effect[o]]]
    BY <1>6, <2>1, <2>2 DEF Answer, Said, Told, At
  <2>4. Outcome!Confirm(r, o)
    BY <1>1, <1>2, <1>3, <2>2, <2>3 DEF Outcome!Confirm, Outcome!Silent, Outcome!Done,
       Outcome!Nothing, Effect, Answer, Said, Told
  <2>5. QED BY <2>4 DEF Outcome!Next
<1>7. QED BY <1>4, <1>5, <1>6

\* A finalization publishes the revision of an operation that had none, or
\* repeats one; no call is answered in the same step.
LEMMA FinalizeRefines ==
    ASSUME TypeOK, TypeOK', PublishedInv, PublishedInv', NEW o \in OpIds, Finalize(o),
           UNCHANGED Answer
    PROVE  [Outcome!Next]_(Outcome!vars)
<1>1. CASE HasEvent(o)
  <2>1. UNCHANGED outbox
    BY <1>1 DEF HasEvent, Finalize
  <2>2. UNCHANGED Effect
    BY <2>1 DEF Effect
  <2>3. QED BY <2>2 DEF Outcome!vars, Effect, Answer, Said, Told
<1>2. CASE ~HasEvent(o)
  <2>1. /\ outbox' = outbox \cup {[op |-> o, file |-> ops[o].file, ver |-> ops[o].result.ver]}
        /\ ops[o].result # NoVersion
    BY <1>2 DEF HasEvent, Finalize, CanFinalize, ReadyToFinalize
  <2>2. ops[o].result.ver # 0 /\ ops[o].result.ver \in Nat
    BY <2>1, OperationType DEF PublishedInv, RowFits, Version
  <2>3. Effect[o] = 0 /\ Effect'[o] = ops[o].result.ver
    <3>. DEFINE event == [op |-> o, file |-> ops[o].file, ver |-> ops[o].result.ver]
    <3>1. event \in outbox' /\ event.op = o /\ event.ver = ops[o].result.ver
      BY <2>1
    <3>2. \E e \in outbox' : e.op = o
      BY <3>1
    <3>3. \A e \in outbox' : e.op = o => e.ver = ops[o].result.ver
      BY <1>2, <2>1 DEF HasEvent
    <3>4. (CHOOSE e \in outbox' : e.op = o).ver = ops[o].result.ver
      BY <3>2, <3>3, Chosen
    <3>5. Effect'[o] = (CHOOSE e \in outbox' : e.op = o).ver
      BY <3>2 DEF Effect
    <3>6. QED BY <1>2, <3>4, <3>5 DEF HasEvent, Effect
  <2>4. ASSUME NEW p \in OpIds \ {o} PROVE Effect'[p] = Effect[p]
    <3>1. {e \in outbox' : e.op = p} = {e \in outbox : e.op = p}
      BY <2>1
    <3>2. CASE \E e \in outbox : e.op = p
      <4>1. PICK e \in outbox : e.op = p
        BY <3>2
      <4>2. /\ \A d \in outbox : d.op = p => d.ver = ops[p].result.ver
            /\ \A d \in outbox' : d.op = p => d.ver = ops[p].result.ver
        BY <3>1 DEF PublishedInv, EventsFit
      <4>3. /\ (CHOOSE d \in outbox : d.op = p).ver = ops[p].result.ver
            /\ (CHOOSE d \in outbox' : d.op = p).ver = ops[p].result.ver
            /\ \E d \in outbox' : d.op = p
        BY <2>1, <4>1, <4>2, Chosen
      <4>4. QED BY <3>2, <4>3 DEF Effect
    <3>3. CASE ~ \E e \in outbox : e.op = p
      BY <3>1, <3>3 DEF Effect
    <3>4. QED BY <3>2, <3>3
  <2>5. Effect' \in [OpIds -> Nat]
    <3>1. ASSUME NEW p \in OpIds PROVE Effect[p] \in Nat
      <4>1. CASE \E e \in outbox : e.op = p
        <5>1. (CHOOSE e \in outbox : e.op = p) \in outbox
          BY <4>1
        <5>2. QED BY <4>1, <5>1 DEF TypeOK, Event, Effect
      <4>2. CASE ~ \E e \in outbox : e.op = p
        BY <4>2 DEF Effect
      <4>3. QED BY <4>1, <4>2
    <3>2. \A p \in OpIds : Effect'[p] \in Nat
      BY <2>2, <2>3, <2>4, <3>1
    <3>3. QED BY <3>2 DEF Effect
  <2>6. Outcome!TakeEffect(o)
    BY <2>2, <2>3, <2>4, <2>5 DEF Outcome!TakeEffect, Effect, Answer, Said, Told
  <2>7. QED BY <2>6 DEF Outcome!Next
<1>3. QED BY <1>1, <1>2

\* The calls one step can touch, and what may happen to them.
LEMMA AnswerSteps ==
    ASSUME TypeOK, NEW r \in Requests, RequestStep(r)
    PROVE  /\ req[r].pc \notin Answered
           /\ \A q \in Requests \ {r} : req'[q] = req[q]
           /\ \/ UNCHANGED outbox
              \/ Finalize(req[r].op) /\ req'[r].pc \notin Answered
<1>. USE DEF Answered
<1>1. req \in [Requests -> Request] /\ req[r].pc \notin Answered
  BY DEF TypeOK, RequestStep, Start, Replay, ReplayAfterMismatch, ReplayAfterCreate, ReplayFrom,
     ReplayFinalize, ReturnStored, AssertNoUnresolvedMutation, Stat, ReadOldVersion,
     OpenVersion, PreserveOldVersion, BeginOperation, CheckRevision, Upload, RejectConflict,
     ReadReplacedVersion, PreserveNewVersion, ReadFinalVersion, MarkProviderWritten,
     FinalizeRequest, SelectPrunable, ReleaseRow, DeleteRow, Abandon, At
<1>2. \A q \in Requests \ {r} : req'[q] = req[q]
  <2>1. \E call : req' = [req EXCEPT ![r] = call]
    BY DEF RequestStep, Start, Replay, ReplayAfterMismatch, ReplayAfterCreate, ReplayFrom,
       ReplayFinalize, ReturnStored, AssertNoUnresolvedMutation, Stat, ReadOldVersion,
       OpenVersion, PreserveOldVersion, BeginOperation, CheckRevision, Upload, RejectConflict,
       ReadReplacedVersion, PreserveNewVersion, ReadFinalVersion, MarkProviderWritten,
       FinalizeRequest, SelectPrunable, ReleaseRow, DeleteRow, Abandon, Goto, GotoWith, Refuse
  <2>2. QED BY <1>1, <2>1
<1>3. CASE ReplayFinalize(r) \/ FinalizeRequest(r)
  <2>1. CASE ~CanFinalize(req[r].op)
    <3>1. UNCHANGED outbox
      BY <1>3, <2>1 DEF ReplayFinalize, FinalizeRequest, Finalize, tables
    <3>2. QED BY <1>1, <1>2, <3>1
  <2>2. CASE CanFinalize(req[r].op)
    <3>1. Finalize(req[r].op) /\ (Goto(r, "stored") \/ Goto(r, "prune"))
      BY <1>3, <2>2 DEF ReplayFinalize, FinalizeRequest
    <3>2. req'[r].pc \in {"stored", "prune"}
      BY <3>1, Moves
    <3>3. QED BY <1>1, <1>2, <3>1, <3>2
  <2>3. QED BY <1>1, <1>2, <2>1, <2>2
<1>4. CASE ~(ReplayFinalize(r) \/ FinalizeRequest(r))
  <2>1. UNCHANGED outbox
    BY <1>4 DEF RequestStep, Start, Replay, ReplayAfterMismatch, ReplayAfterCreate, ReplayFrom,
       ReturnStored, AssertNoUnresolvedMutation, Stat, ReadOldVersion,
       OpenVersion, PreserveOldVersion, BeginOperation, CheckRevision, Upload, RejectConflict,
       ReadReplacedVersion, PreserveNewVersion, ReadFinalVersion, MarkProviderWritten,
       SelectPrunable, ReleaseRow, DeleteRow, Abandon, tables
  <2>2. QED BY <1>1, <1>2, <2>1
<1>5. QED BY <1>3, <1>4

LEMMA StepRefines ==
    ASSUME TypeOK, TypeOK', PublishedInv, PublishedInv', [Next]_vars
    PROVE  [Outcome!Next]_(Outcome!vars)
<1>1. ASSUME UNCHANGED req, UNCHANGED outbox PROVE [Outcome!Next]_(Outcome!vars)
  BY <1>1 DEF Outcome!vars, At
<1>2. ASSUME NEW r \in Requests, RequestStep(r) PROVE [Outcome!Next]_(Outcome!vars)
  <2>1. CASE UNCHANGED outbox
    BY <1>2, <2>1, AnswerSteps, AnswerRefines
  <2>2. CASE Finalize(req[r].op) /\ req'[r].pc \notin Answered
    <3>1. /\ req[r].pc \notin Answered
          /\ \A q \in Requests \ {r} : req'[q] = req[q]
      BY <1>2, AnswerSteps
    <3>2. UNCHANGED Answer
      BY <2>2, <3>1 DEF Answer, Said, Told, At, Answered
    <3>3. QED BY <2>2, <3>2, RequestType, FinalizeRefines
  <2>3. QED BY <1>2, <2>1, <2>2, AnswerSteps
<1>3. ASSUME WorkerStep PROVE [Outcome!Next]_(Outcome!vars)
  <2>1. ASSUME NEW o \in OpIds, Reconcile(o) PROVE [Outcome!Next]_(Outcome!vars)
    <3>1. UNCHANGED req /\ Finalize(o)
      BY <2>1 DEF Reconcile
    <3>2. UNCHANGED Answer
      BY <3>1 DEF Answer, Said, Told, At
    <3>3. QED BY <3>1, <3>2, FinalizeRefines
  <2>2. CASE \A o \in OpIds : ~Reconcile(o)
    BY <1>1, <1>3, <2>2 DEF WorkerStep, Scan, ScanFirst, SkipPending, MarkFailed, RestartWorker,
       ReconcileUnrecoverable, ReconcileRetryLater, tables
  <2>3. QED BY <2>1, <2>2
<1>4. CASE (\E f \in Files : RemoteEdit(f)) \/ UNCHANGED vars
  BY <1>1, <1>4 DEF RemoteEdit, tables, vars
<1>5. QED BY <1>2, <1>3, <1>4 DEF Next

LEMMA InitRefines == Init => Outcome!Init
<1>. SUFFICES ASSUME Init PROVE Outcome!Init
  OBVIOUS
<1>1. outbox = {} /\ \A r \in Requests : req[r].pc = "idle"
  BY DEF Init, NoRequest
<1>2. Effect = [o \in OpIds |-> 0]
  BY <1>1 DEF Effect
<1>3. Answer = [r \in Requests |-> [said |-> "silent", ver |-> [o \in OpIds |-> 0]]]
  BY <1>1 DEF Answer, Said, Told, At, Answered
<1>4. QED
  BY <1>2, <1>3 DEF Outcome!Init, Outcome!Silent, Outcome!Nothing, Effect, Answer, Said, Told

\* Save and Restore implement MutationOutcome: an operation takes effect once, its
\* revision is fixed from then on, and a successful answer repeats it, whichever
\* delivery, worker or process published it.
THEOREM OutcomeImplemented == ASSUME InsertsReliable PROVE Spec => ImplementsOutcome
<1>1. TypeOK /\ PublishedInv /\ TypeOK' /\ PublishedInv' /\ [Next]_vars
        => [Outcome!Next]_(Outcome!vars)
  BY StepRefines
<1>2. QED
  BY <1>1, InitRefines, Published, PTL DEF Spec, ImplementsOutcome, Outcome!Spec

=============================================================================
