--------------------------- MODULE DriveRegistration ---------------------------
(***************************************************************************)
(* Creation of a Drive-backed document: POST /drive/documents, which makes *)
(* a native file (drive.service.ts), and POST /drive/uploads, which sends  *)
(* one (drive-upload.service.ts).                                          *)
(*                                                                         *)
(* A request claims its idempotency key with an operation row, puts an     *)
(* object in Drive, and registers it in one SERIALIZABLE transaction: the  *)
(* DriveFile, the node, the file and the operation's result.  When that    *)
(* fails the object is deleted again and the operation marked FAILED.  Any *)
(* step may fail, answers of Drive and of the database may be lost, and    *)
(* the process may die.                                                    *)
(***************************************************************************)
EXTENDS Naturals, FiniteSets

CONSTANTS Keys,          \* idempotency keys
          NativeKeys,    \* those of native creations; the others are uploads
          CreationRequests, \* requests
          KeyOf,         \* the key of each request
          BytesOf,       \* the bytes each request uploads
          FileName,      \* the name each key asks for
          Candidates,    \* per name, the sequence of it, "name (1)" and so on
          NoName, NoBytes,
          MaxFaults      \* bound on failures, lost answers and crashes

Names == UNION {{Candidates[n][i] : i \in DOMAIN Candidates[n]} : n \in DOMAIN Candidates}

ASSUME RegistrationConstants ==
  /\ NativeKeys \subseteq Keys
  /\ KeyOf \in [CreationRequests -> Keys]
  /\ \A k \in Keys : FileName[k] \in DOMAIN Candidates
  /\ \A n \in DOMAIN Candidates : DOMAIN Candidates[n] \subseteq Nat
  /\ NoName \notin Names
  /\ \A r \in CreationRequests : BytesOf[r] # NoBytes
  /\ MaxFaults \in Nat

Kinds == {"none", "IN_PROGRESS", "SUCCEEDED", "FAILED"}
Notes == {"none", "failed", "removed", "orphaned"}

VARIABLES
  operation,   \* the DriveCreationOperation and DriveUploadOperation rows
  object,      \* Drive: the object each request has put there
  node,        \* the name of the node each key's registration made
  otherNames,  \* names of the folder's other nodes
  folderThere, \* whether the destination folder is outside the trash
  request,     \* the requests
  faults,      \* how many faults are left
  unacked      \* history: keys whose commit, or the read after it, failed to answer

registrationVars ==
  <<operation, object, node, otherNames, folderThere, request, faults, unacked>>

NoOperation == [status |-> "none", name |-> NoName, bytes |-> NoBytes, note |-> "none"]
NoRequest == [pc |-> "idle", answer |-> "none"]

-----------------------------------------------------------------------------
IsUpload(r) == KeyOf[r] \notin NativeKeys
Row(r) == operation[KeyOf[r]]

(* Names in the destination folder, outside the trash. *)
Taken == otherNames \cup {node[k] : k \in {j \in Keys : node[j] # NoName}}

(* nextAvailableName: the first free candidate, NoName past the last one.  *)
NextAvailableName(name) ==
  LET free == {i \in DOMAIN Candidates[name] : Candidates[name][i] \notin Taken}
  IN IF free = {} THEN NoName
     ELSE Candidates[name][CHOOSE i \in free : \A j \in free : i <= j]

Goto(r, pc) == request' = [request EXCEPT ![r].pc = pc]
Answer(r, answer) == request' = [request EXCEPT ![r] = [pc |-> "done", answer |-> answer]]

Fault == faults > 0 /\ faults' = faults - 1

-----------------------------------------------------------------------------
(* The claim.                                                              *)

(* A replay of a finished operation; an upload's bytes are compared.       *)
SameBytes(r) == IsUpload(r) => Row(r).bytes = BytesOf[r]

ReplayAnswer(r) ==
  IF Row(r).status = "SUCCEEDED" /\ SameBytes(r) /\ node[KeyOf[r]] # NoName
  THEN "ok" ELSE "refused"

(* processFile looks the operation up before it asks for the Drive. *)
LookUp(r) ==
  /\ request[r].pc = "idle" /\ IsUpload(r)
  /\ IF Row(r).status = "none" THEN Goto(r, "begin") ELSE Answer(r, ReplayAnswer(r))
  /\ UNCHANGED <<operation, object, node, otherNames, folderThere, faults, unacked>>

(* beginOperation, beginCreationOperation: the row is found, or created    *)
(* with the first free name; the unique key sends a second creator back to *)
(* the first one's row.                                                    *)
\* Mutant: a row in progress does not stop the request.
Resumable(r) == Row(r).status \in {"none", "IN_PROGRESS"}
Claimable(r) == Row(r).status = "none"

BeginOperation(r) ==
  /\ request[r].pc = IF IsUpload(r) THEN "begin" ELSE "idle"
  /\ IF ~Claimable(r)
     THEN Answer(r, ReplayAnswer(r)) /\ UNCHANGED operation
     ELSE LET name == NextAvailableName(FileName[KeyOf[r]])
          IN IF ~folderThere \/ name = NoName
             THEN Answer(r, "refused") /\ UNCHANGED operation
             ELSE /\ operation' = [operation EXCEPT ![KeyOf[r]] =
                       [NoOperation EXCEPT !.status = "IN_PROGRESS", !.name = name]]
                  /\ Goto(r, "put")
  /\ UNCHANGED <<object, node, otherNames, folderThere, faults, unacked>>

-----------------------------------------------------------------------------
(* The object in Drive.                                                    *)

Put(r) ==
  /\ request[r].pc = "put"
  /\ object' = [object EXCEPT ![r] = "present"]
  /\ Goto(r, IF IsUpload(r) THEN "record" ELSE "register")
  /\ UNCHANGED <<operation, node, otherNames, folderThere, faults, unacked>>

(* Drive refuses, or the answer that names the object is lost. *)
FailPut(r, created) ==
  /\ request[r].pc = "put" /\ Fault
  /\ object' = IF created THEN [object EXCEPT ![r] = "unknown"] ELSE object
  /\ Goto(r, "fail")
  /\ UNCHANGED <<operation, node, otherNames, folderThere, unacked>>

(* An upload writes the object, its size and digest into its row. *)
RecordUpload(r) ==
  /\ request[r].pc = "record"
  /\ operation' = [operation EXCEPT ![KeyOf[r]].bytes = BytesOf[r]]
  /\ Goto(r, "register")
  /\ UNCHANGED <<object, node, otherNames, folderThere, faults, unacked>>

-----------------------------------------------------------------------------
(* The registration.                                                       *)

MayRegister(r) == folderThere /\ Row(r).name \notin Taken

(* The transaction commits; its answer arrives or is lost.  A native       *)
(* creation then reads its response within the same handler.               *)
Register(r, acknowledged) ==
  /\ request[r].pc = "register"
  /\ MayRegister(r)
  /\ node' = [node EXCEPT ![KeyOf[r]] = Row(r).name]
  /\ operation' = [operation EXCEPT ![KeyOf[r]].status = "SUCCEEDED"]
  /\ IF acknowledged
     THEN /\ IF IsUpload(r) THEN Answer(r, "ok") ELSE Goto(r, "response")
          /\ UNCHANGED <<faults, unacked>>
     ELSE /\ Fault /\ Goto(r, "compensate")
          /\ unacked' = unacked \cup {KeyOf[r]}
  /\ UNCHANGED <<object, otherNames, folderThere>>

(* creationResponse *)
ReadResponse(r) ==
  /\ request[r].pc = "response"
  /\ \/ /\ Answer(r, "ok")
        /\ UNCHANGED <<faults, unacked>>
     \/ /\ Fault /\ Goto(r, "compensate")
        /\ unacked' = unacked \cup {KeyOf[r]}
  /\ UNCHANGED <<operation, object, node, otherNames, folderThere>>

(* The transaction is refused by its checks, or fails; or a step before it *)
(* does.                                                                   *)
FailRegistration(r) ==
  /\ request[r].pc \in {"record", "register"}
  /\ IF request[r].pc = "register" /\ ~MayRegister(r) THEN UNCHANGED faults ELSE Fault
  /\ Goto(r, "compensate")
  /\ UNCHANGED <<operation, object, node, otherNames, folderThere, unacked>>

-----------------------------------------------------------------------------
(* The compensation.                                                       *)

(* markFailed: only an operation in progress fails. *)
MarkFailed(r, note) ==
  operation' = IF Row(r).status # "IN_PROGRESS" THEN operation
               ELSE [operation EXCEPT ![KeyOf[r]].status = "FAILED",
                                      ![KeyOf[r]].note = note]

Fail(r) ==
  /\ request[r].pc = "fail"
  /\ MarkFailed(r, "failed")
  /\ Answer(r, "failed")
  /\ UNCHANGED <<object, node, otherNames, folderThere, faults, unacked>>

\* Mutant: the object stays when the registration fails.
LeaveObject(r) ==
  /\ request[r].pc = "compensate"
  /\ Goto(r, "removed")
  /\ UNCHANGED <<operation, object, node, otherNames, folderThere, faults, unacked>>

DeleteObject(r) ==
  /\ request[r].pc = "compensate"
  /\ \/ /\ object' = [object EXCEPT ![r] = "deleted"]
        /\ Goto(r, "removed")
        /\ UNCHANGED faults
     \/ /\ Fault /\ Goto(r, "orphaned")
        /\ UNCHANGED object
  /\ UNCHANGED <<operation, node, otherNames, folderThere, unacked>>

EndCompensation(r) ==
  /\ request[r].pc \in {"removed", "orphaned"}
  /\ MarkFailed(r, request[r].pc)
  /\ Answer(r, "failed")
  /\ UNCHANGED <<object, node, otherNames, folderThere, faults, unacked>>

Crash(r) ==
  /\ request[r].pc \notin {"idle", "done", "crashed"} /\ Fault
  /\ Goto(r, "crashed")
  /\ UNCHANGED <<operation, object, node, otherNames, folderThere, unacked>>

-----------------------------------------------------------------------------
(* The rest of the tree.                                                   *)

TakeName(n) ==
  /\ Fault
  /\ n \notin Taken /\ otherNames' = otherNames \cup {n}
  /\ UNCHANGED <<operation, object, node, folderThere, request, unacked>>

TrashFolder ==
  /\ Fault
  /\ folderThere /\ folderThere' = FALSE
  /\ UNCHANGED <<operation, object, node, otherNames, request, unacked>>

-----------------------------------------------------------------------------
RegistrationInit ==
  /\ operation = [k \in Keys |-> NoOperation]
  /\ object = [r \in CreationRequests |-> "none"]
  /\ node = [k \in Keys |-> NoName]
  /\ otherNames = {}
  /\ folderThere = TRUE
  /\ request = [r \in CreationRequests |-> NoRequest]
  /\ faults = MaxFaults
  /\ unacked = {}

RequestStep(r) ==
  \/ LookUp(r) \/ BeginOperation(r) \/ Put(r) \/ RecordUpload(r) \/ Register(r, TRUE)
  \/ ReadResponse(r) \/ FailRegistration(r) \/ Fail(r) \/ DeleteObject(r)
  \/ EndCompensation(r)

RegistrationNext ==
  \/ \E r \in CreationRequests :
       \/ RequestStep(r) \/ Register(r, FALSE) \/ Crash(r)
       \/ \E created \in BOOLEAN : FailPut(r, created)
  \/ \E n \in Names : TakeName(n)
  \/ TrashFolder

RegistrationSpec == RegistrationInit /\ [][RegistrationNext]_registrationVars

(* A handler that has not died goes on. *)
FairRegistrationSpec ==
  RegistrationSpec /\ \A r \in CreationRequests : WF_registrationVars(RequestStep(r))

-----------------------------------------------------------------------------
(* The state has its types. *)
RegistrationTypeOK ==
  /\ operation \in [Keys -> [status : Kinds, name : Names \cup {NoName},
                             bytes : {BytesOf[r] : r \in CreationRequests} \cup {NoBytes},
                             note : Notes]]
  /\ object \in [CreationRequests -> {"none", "present", "unknown", "deleted"}]
  /\ node \in [Keys -> Names \cup {NoName}]
  /\ otherNames \subseteq Names /\ folderThere \in BOOLEAN
  /\ request \in [CreationRequests ->
       [pc : {"idle", "begin", "put", "record", "register", "response", "fail",
              "compensate", "removed", "orphaned", "done", "crashed"},
        answer : {"none", "ok", "refused", "failed"}]]
  /\ faults \in 0..MaxFaults /\ unacked \subseteq Keys
  /\ \A r \in CreationRequests :
       request[r].pc \in {"record", "register", "response", "compensate", "removed",
                         "orphaned"} =>
         object[r] \in {"present", "deleted"} /\ Row(r).name # NoName

(* Requests that repeat a key, at once or after a failure or a crash, put  *)
(* one object in Drive between them.                                       *)
OneObjectPerKey ==
  \A p, r \in CreationRequests :
    KeyOf[p] = KeyOf[r] /\ object[p] # "none" /\ object[r] # "none" => p = r

(* "Upload registration failed; the Google Drive file was removed": a      *)
(* FAILED operation has no node, and when it says so its object is gone.   *)
FailedLeavesNoNode ==
  \A k \in Keys : operation[k].status = "FAILED" =>
    /\ node[k] = NoName
    /\ operation[k].note = "removed" =>
         \A r \in CreationRequests : KeyOf[r] = k => object[r] \in {"none", "deleted"}

(* What the operation row and an answer say is true: a failure left no     *)
(* node; an object without a node is accounted for, its request being      *)
(* under way or dead, its answer lost, or its operation calling it         *)
(* orphaned; and a success, a replay's too, names the bytes that were sent. *)
OutcomeIsTrue ==
  /\ FailedLeavesNoNode
  /\ \A r \in CreationRequests :
       /\ object[r] = "present" /\ node[KeyOf[r]] = NoName =>
            request[r].pc # "done" \/ Row(r).note = "orphaned"
       /\ request[r].answer = "ok" =>
            node[KeyOf[r]] # NoName /\ (IsUpload(r) => Row(r).bytes = BytesOf[r])

(* A key has one object, and what its operation and its answers say of it  *)
(* is so, whatever was lost, repeated or cut off.                          *)
RegistrationIsExact == OneObjectPerKey /\ OutcomeIsTrue

(* An operation leaves IN_PROGRESS unless the process that began it died.  *)
OperationResolves ==
  \A k \in Keys :
    operation[k].status = "IN_PROGRESS" ~>
      \/ operation[k].status # "IN_PROGRESS"
      \/ \E r \in CreationRequests : KeyOf[r] = k /\ request[r].pc = "crashed"

=============================================================================
