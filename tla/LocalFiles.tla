------------------------------ MODULE LocalFiles ------------------------------
(***************************************************************************)
(* Files whose bytes lie on the server's own disk: uploads, new versions,  *)
(* restored versions and new Office documents.  The bytes are received     *)
(* into a temporary file, copied under their storage key, and only then    *)
(* does a transaction write the rows that name them; what fails on the way *)
(* has to take its bytes back.                                             *)
(*                                                                         *)
(* All files lie in one folder.  A request makes one version, whose id and *)
(* storage key are the request's name, as is the id of a file it creates.  *)
(***************************************************************************)
EXTENDS Naturals, FiniteSets

CONSTANTS Requests,   \* HTTP requests
          Old,        \* the file there is, and its first version
          Jobs,       \* what a behaviour's requests ask for, and its troubles
          Wanted,     \* the name a request's new file shall have
          OtherName,  \* the next free name that an Office document may take
          MaxTries    \* OFFICE_CREATION_RETRIES

Kinds == {"office", "initial", "version", "restore"}
FileIds == Requests \cup {Old}
FileNames == {Wanted[r] : r \in Requests} \cup {OtherName[Wanted[r]] : r \in Requests}
NoFile == "no file"

ASSUME LocalConstants ==
  /\ Old \notin Requests /\ NoFile \notin FileIds /\ MaxTries \in Nat \ {0}
  /\ \A r \in Requests : OtherName[Wanted[r]] # Wanted[r]
  /\ Jobs \subseteq [kind : [Requests -> Kinds], troubles : Nat]

VARIABLES
  job,      \* the kind of each request, and the troubles left
  dir,      \* the folder: live or in the trash
  file,     \* tables File and Node
  version,  \* table FileVersion: the file of a version, its number
  disk,     \* the storage volume and the directory of uploads
  request   \* the requests under way

localVars == <<job, dir, file, version, disk, request>>

FileRow == [there : BOOLEAN, name : FileNames \cup {NoFile}, counter : Nat,
            current : FileIds \cup {NoFile}]
VersionRow == [of : FileIds \cup {NoFile}, number : Nat]
Bytes == {"absent", "part", "whole"}

\* Of a multipart body: the file parts seen, the pipeline that writes the first
\* of them, the first failure, whether the parser has ended.
Body == [parts : 0..2, pipe : {"none", "running", "done", "failed"}, failure : BOOLEAN,
         ended : BOOLEAN]
NewBody == [parts |-> 0, pipe |-> "none", failure |-> FALSE, ended |-> FALSE]
Stages == {"idle", "receive", "check", "put", "link", "tidy", "naming", "commit",
           "orphan", "cleanup", "ended"}
\* History: unsure, the commit took place and its answer was lost; spoilt, the
\* process died under the request or the disk refused to remove something.
RequestState == [stage : Stages, body : Body, of : FileIds \cup {NoFile}, name : FileNames \cup {NoFile},
                 bytes : Bytes, tries : 0..MaxTries, unsure : BOOLEAN, spoilt : BOOLEAN]

Kind(r) == job.kind[r]
Creates(r) == Kind(r) \in {"office", "initial"}
HasBody(r) == Kind(r) \in {"initial", "version"}

LocalTypeOK ==
  /\ job \in [kind : [Requests -> Kinds], troubles : Nat]
  /\ dir \in {"live", "trash"}
  /\ file \in [FileIds -> FileRow]
  /\ version \in [FileIds -> VersionRow]
  /\ disk \in [upload : [Requests -> Bytes], partial : SUBSET Requests, object : [FileIds -> Bytes]]
  /\ request \in [Requests -> RequestState]
  /\ \A f \in FileIds : file[f].there =>
       /\ version[file[f].current].of = f /\ version[file[f].current].number = file[f].counter
       /\ \A v \in FileIds : version[v].of = f => version[v].number \in 1..file[f].counter

-----------------------------------------------------------------------------
Taken == {file[f].name : f \in {f \in FileIds : file[f].there}}
At(r, stage) == request[r].stage = stage
Step(r, stage) == request' = [request EXCEPT ![r].stage = stage]
Trouble == job.troubles > 0 /\ job' = [job EXCEPT !.troubles = @ - 1]
OnlyRequests == UNCHANGED <<job, dir, file, version, disk>>

\* A request that has bytes to remove: first those under the storage key, then
\* the upload; an Office document and a restore have no upload.
Leaving(r) == IF HasBody(r) THEN "cleanup" ELSE "ended"
\* For an Office document the failure of putStream is one of the transaction.
NotPut(r) == IF Kind(r) = "office" THEN "orphan" ELSE Leaving(r)

Arrive(r) ==
  /\ At(r, "idle") /\ Step(r, IF HasBody(r) THEN "receive" ELSE "check")
  /\ OnlyRequests

-----------------------------------------------------------------------------
(* MultipartUploadService: the parts of a body, in any order the client    *)
(* sends them, while the first file is written.                            *)

Receiving(r) == At(r, "receive") /\ ~request[r].body.ended
SetBody(r, body) == request' = [request EXCEPT ![r].body = body]
SetUpload(r, bytes) == disk' = [disk EXCEPT !.upload[r] = bytes]

FilePart(r) ==
  LET b == request[r].body
  IN /\ Receiving(r) /\ b.parts < 2
     /\ IF b.parts = 0
        THEN SetBody(r, [b EXCEPT !.parts = 1, !.pipe = "running"]) /\ SetUpload(r, "part")
        ELSE SetBody(r, [b EXCEPT !.parts = 2, !.failure = TRUE]) /\ UNCHANGED disk
     /\ UNCHANGED <<job, dir, file, version>>

\* A field other than parentId, or a second one.
BadField(r) ==
  /\ Receiving(r) /\ Trouble
  /\ SetBody(r, [request[r].body EXCEPT !.failure = TRUE])
  /\ UNCHANGED <<dir, file, version, disk>>

FileIsWritten(r) ==
  /\ At(r, "receive") /\ request[r].body.pipe = "running"
  /\ SetBody(r, [request[r].body EXCEPT !.pipe = "done"]) /\ SetUpload(r, "whole")
  /\ UNCHANGED <<job, dir, file, version>>

\* More bytes than UPLOAD_MAX_BYTES, or the disk refuses them.
FileFails(r) ==
  /\ At(r, "receive") /\ request[r].body.pipe = "running" /\ Trouble
  /\ SetBody(r, [request[r].body EXCEPT !.pipe = "failed", !.failure = TRUE])
  /\ UNCHANGED <<dir, file, version, disk>>

\* The client has gone: the parser is destroyed, and what it fed with it.
Abort(r) ==
  LET b == request[r].body
  IN /\ Receiving(r) /\ Trouble
     /\ SetBody(r, [b EXCEPT !.failure = TRUE, !.ended = TRUE,
                             !.pipe = IF b.pipe = "running" THEN "failed" ELSE @])
     /\ UNCHANGED <<dir, file, version, disk>>

\* The parser has read the last part; its file may still be on the way to disk.
ParserFinish(r) ==
  /\ Receiving(r) /\ SetBody(r, [request[r].body EXCEPT !.ended = TRUE])
  /\ OnlyRequests

\* Mutant: what the parser has read is taken for written.
ReceiveSettlesAtOnce(r) ==
  LET b == request[r].body
  IN /\ At(r, "receive") /\ b.ended
     /\ Step(r, IF b.failure \/ b.parts # 1 THEN "cleanup" ELSE "check")
     /\ OnlyRequests

ReceiveSettles(r) ==
  LET b == request[r].body
  IN /\ At(r, "receive") /\ b.ended /\ b.pipe # "running"
     /\ Step(r, IF b.failure \/ b.parts # 1 \/ b.pipe = "failed" THEN "cleanup" ELSE "check")
     /\ OnlyRequests

-----------------------------------------------------------------------------
(* FilesService before the transaction.                                    *)

\* assertInitialDestination, requireEditableFile, requireVersionedFile; the
\* validation of an upload may refuse it as well.
MayProceed(r, f) == dir = "live" /\ (Creates(r) \/ file[f].there)
Check(r) ==
  /\ At(r, "check")
  /\ \/ \E f \in IF Creates(r) THEN {r} ELSE FileIds :
          /\ MayProceed(r, f)
          /\ request' = [request EXCEPT ![r].stage = "put", ![r].of = f]
     \/ (dir = "trash" \/ HasBody(r)) /\ Step(r, Leaving(r))
  /\ OnlyRequests

\* putStream: the bytes go to a partial file first; a restore reads them from
\* the object of the version it restores, which may not be there.
Source(r) ==
  CASE HasBody(r) -> {disk.upload[r]}
    [] Kind(r) = "restore" -> {disk.object[v] : v \in {v \in FileIds : version[v].of = request[r].of}}
    [] OTHER -> {"whole"}
Put(r) ==
  /\ At(r, "put")
  /\ \E bytes \in Source(r) :
       IF bytes = "absent" THEN Step(r, Leaving(r)) /\ UNCHANGED disk
       ELSE /\ request' = [request EXCEPT ![r].stage = "link", ![r].bytes = bytes]
            /\ disk' = [disk EXCEPT !.partial = @ \cup {r}]
  /\ UNCHANGED <<job, dir, file, version>>

\* The copy fails before it is complete.
PutFails(r) ==
  /\ At(r, "link") /\ Trouble /\ Step(r, NotPut(r))
  /\ disk' = [disk EXCEPT !.partial = @ \ {r}]
  /\ UNCHANGED <<dir, file, version>>

Link(r) ==
  /\ At(r, "link") /\ Step(r, "tidy")
  /\ disk' = [disk EXCEPT !.object[r] = request[r].bytes]
  /\ UNCHANGED <<job, dir, file, version>>

\* A restore looks at the size of what it has copied.
Tidy(r) ==
  /\ At(r, "tidy")
  /\ Step(r, CASE Kind(r) = "office" -> "naming"
              [] Kind(r) = "restore" /\ request[r].bytes # "whole" -> "orphan"
              [] OTHER -> "commit")
  /\ disk' = [disk EXCEPT !.partial = @ \ {r}]
  /\ UNCHANGED <<job, dir, file, version>>

\* The partial file stays; the object that is already linked does not.
TidyFails(r) ==
  /\ At(r, "tidy") /\ Trouble
  /\ request' = [request EXCEPT ![r].stage = NotPut(r), ![r].spoilt = TRUE]
  /\ disk' = [disk EXCEPT !.object[r] = "absent"]
  /\ UNCHANGED <<dir, file, version>>

-----------------------------------------------------------------------------
(* The transactions.                                                       *)

NewName(r) == IF Kind(r) = "office" THEN request[r].name ELSE Wanted[r]

\* availableNodeName, inside the transaction.
ChooseName(r) ==
  /\ At(r, "naming") /\ dir = "live"
  /\ \E n \in {Wanted[r], OtherName[Wanted[r]]} :
       /\ n \notin Taken /\ (n # Wanted[r] => Wanted[r] \in Taken)
       /\ request' = [request EXCEPT ![r].stage = "commit", ![r].name = n]
  /\ OnlyRequests

NoPlace(r) ==
  /\ At(r, "naming") /\ dir = "trash" /\ Step(r, "orphan")
  /\ OnlyRequests

Rows(r) ==
  LET f == request[r].of
      number == IF Creates(r) THEN 1 ELSE file[f].counter + 1
  IN /\ version' = [version EXCEPT ![r] = [of |-> f, number |-> number]]
     /\ file' = [file EXCEPT ![f] =
          [there |-> TRUE, name |-> IF Creates(r) THEN NewName(r) ELSE @.name,
           counter |-> number, current |-> r]]

\* The folder or the file is looked at again.  Only the transaction of an Office
\* document is serializable: the others may write after the folder went to the trash.
Commits(r) ==
  /\ At(r, "commit")
  /\ dir = "live" \/ Kind(r) # "office"
  /\ Creates(r) => NewName(r) \notin Taken

Commit(r) ==
  /\ Commits(r) /\ Rows(r) /\ Step(r, Leaving(r))
  /\ UNCHANGED <<job, dir, disk>>

\* Rolled back by an error of the database, or committed with its answer lost;
\* the caller cannot tell.
CommitFails(r) ==
  /\ Commits(r) /\ Trouble
  /\ \/ Step(r, "orphan") /\ UNCHANGED <<file, version>>
     \/ Rows(r) /\ request' = [request EXCEPT ![r].stage = "orphan", ![r].unsure = TRUE]
  /\ UNCHANGED <<dir, disk>>

\* The name is taken meanwhile: an Office document chooses another one, as long
\* as it has tries; the place may have gone to the trash as well.
TryAgain(r) ==
  LET again == Kind(r) = "office" /\ dir = "live" /\ request[r].tries + 1 < MaxTries
  IN request' = [request EXCEPT ![r].stage = IF again THEN "naming" ELSE "orphan",
                                ![r].tries = IF again THEN @ + 1 ELSE @]
Refused(r) ==
  /\ At(r, "commit") /\ (dir = "trash" \/ ~Commits(r))
  /\ TryAgain(r) /\ OnlyRequests

\* isCreationRace: two serializable transactions met.
Conflict(r) ==
  /\ Commits(r) /\ Kind(r) = "office" /\ Trouble /\ TryAgain(r)
  /\ UNCHANGED <<dir, file, version, disk>>

\* Mutant: a transaction that failed leaves its bytes.
KeepOrphan(r) ==
  /\ At(r, "orphan") /\ Step(r, Leaving(r))
  /\ OnlyRequests

\* deleteOrphan, whatever made the transaction fail.
DeleteOrphan(r) ==
  /\ At(r, "orphan") /\ Step(r, Leaving(r))
  /\ disk' = [disk EXCEPT !.object[r] = "absent"]
  /\ UNCHANGED <<job, dir, file, version>>

\* The disk refuses; for the upload this is the request's answer.
CannotDelete(r) ==
  /\ request[r].stage \in {"orphan", "cleanup"} /\ Trouble
  /\ request' = [request EXCEPT ![r].stage = IF At(r, "orphan") THEN Leaving(r) ELSE "ended",
                                ![r].spoilt = TRUE]
  /\ UNCHANGED <<dir, file, version, disk>>

\* MultipartUploadService.cleanup, of receive or of the controller.
Cleanup(r) ==
  /\ At(r, "cleanup") /\ Step(r, "ended") /\ SetUpload(r, "absent")
  /\ UNCHANGED <<job, dir, file, version>>

-----------------------------------------------------------------------------
\* The folder goes to the trash or comes back.
ToggleFolder ==
  /\ Trouble /\ dir' = IF dir = "live" THEN "trash" ELSE "live"
  /\ UNCHANGED <<file, version, disk, request>>

\* The API's process dies; its requests are lost, the disk and the tables stay.
Die ==
  /\ Trouble
  /\ request' = [r \in Requests |->
       IF request[r].stage \in {"idle", "ended"} THEN request[r]
       ELSE [request[r] EXCEPT !.stage = "ended", !.spoilt = TRUE]]
  /\ UNCHANGED <<dir, file, version, disk>>

LocalInit ==
  /\ job \in Jobs
  /\ dir = "live"
  /\ file = [f \in FileIds |->
       IF f = Old THEN [there |-> TRUE, name |-> NoFile, counter |-> 1, current |-> Old]
       ELSE [there |-> FALSE, name |-> NoFile, counter |-> 0, current |-> NoFile]]
  /\ version = [v \in FileIds |-> IF v = Old THEN [of |-> Old, number |-> 1]
                                 ELSE [of |-> NoFile, number |-> 0]]
  /\ disk = [upload |-> [r \in Requests |-> "absent"], partial |-> {},
             object |-> [v \in FileIds |-> IF v = Old THEN "whole" ELSE "absent"]]
  /\ request = [r \in Requests |-> [stage |-> "idle", body |-> NewBody, of |-> NoFile,
       name |-> NoFile, bytes |-> "absent", tries |-> 0, unsure |-> FALSE, spoilt |-> FALSE]]

LocalNext ==
  \/ \E r \in Requests :
       \/ Arrive(r) \/ FilePart(r) \/ BadField(r) \/ FileIsWritten(r) \/ FileFails(r) \/ Abort(r)
       \/ ParserFinish(r) \/ ReceiveSettles(r) \/ Check(r) \/ Put(r) \/ PutFails(r) \/ Link(r) \/ Tidy(r)
       \/ TidyFails(r) \/ ChooseName(r) \/ NoPlace(r) \/ Commit(r) \/ CommitFails(r) \/ Refused(r)
       \/ Conflict(r) \/ DeleteOrphan(r) \/ CannotDelete(r) \/ Cleanup(r)
  \/ ToggleFolder \/ Die

LocalSpec == LocalInit /\ [][LocalNext]_localVars

-----------------------------------------------------------------------------
(* Properties.                                                             *)

\* The tables and the disk agree: every version has all its bytes, unless the
\* answer to its commit was lost, after which they are deleted; and a request
\* that has ended, without a death or a disk that refused to remove something,
\* has left nothing but the bytes of a version.
BytesMatchRows ==
  /\ \A v \in FileIds : version[v].of # NoFile =>
       disk.object[v] = "whole" \/ (v \in Requests /\ request[v].unsure)
  /\ \A r \in Requests : At(r, "ended") /\ ~request[r].spoilt =>
       /\ disk.upload[r] = "absent" /\ r \notin disk.partial
       /\ disk.object[r] # "absent" => version[r].of # NoFile

=============================================================================
