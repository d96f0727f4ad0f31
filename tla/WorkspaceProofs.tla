---------------------------- MODULE WorkspaceProofs ----------------------------
(***************************************************************************)
(* Theorems about LocalFiles, for any number of requests of any kinds, any *)
(* number of troubles and of tries for a name; about IndexBackfill, for    *)
(* any files in any order, any batch limit and number of commands; about   *)
(* NodeTree, for any tree, any requests and pages of any size; about       *)
(* FileReading, for any file, sizes, ranges and requests; and about        *)
(* UploadQueue, for any files, workers and runs.                           *)
(***************************************************************************)
EXTENDS LocalFiles, IndexBackfill, NodeTree, FileReading, UploadQueue, SequenceTheorems,
        NaturalsInduction, WellFoundedInduction, TLAPS

-----------------------------------------------------------------------------
(* Local files: what a request may rely on where it stands.                *)

LocalJob == [kind : [Requests -> Kinds], troubles : Nat]
LocalDisk == [upload : [Requests -> Bytes], partial : SUBSET Requests,
              object : [FileIds -> Bytes]]

\* Before its transaction; past the check of its file.
Uncommitted == {"idle", "receive", "check", "put", "link", "tidy", "naming", "commit"}
Placed == {"put", "link", "tidy", "naming", "commit"}

Written(v) == version[v].of # NoFile
Upload(r) == disk.upload[r]
Object(v) == disk.object[v]
Stage(r) == request[r].stage

UploadFits(r) ==
    /\ Stage(r) = "idle" => request[r].body = NewBody /\ Upload(r) = "absent"
    /\ Stage(r) = "receive" =>
          /\ HasBody(r)
          /\ request[r].body.pipe = "none" => request[r].body.parts = 0
          /\ request[r].body.pipe = "done" => Upload(r) = "whole"
    /\ HasBody(r) /\ Stage(r) \in {"check", "put"} => Upload(r) = "whole"
    /\ ~HasBody(r) => Upload(r) = "absent"
    /\ Stage(r) = "ended" /\ ~request[r].spoilt => Upload(r) = "absent"

ObjectFits(r) ==
    /\ Object(r) \in {"absent", "whole"}
    /\ Stage(r) \in {"idle", "receive", "check", "put", "link"} => Object(r) = "absent"
    /\ Stage(r) = "link" => request[r].bytes = "whole"
    /\ Stage(r) \in {"tidy", "naming", "commit"} => Object(r) = "whole"
    /\ Stage(r) \notin {"link", "tidy"} /\ ~request[r].spoilt => r \notin disk.partial
    /\ Stage(r) \in {"cleanup", "ended"} /\ ~request[r].spoilt /\ Object(r) # "absent"
          => Written(r)
    /\ Written(r) => Object(r) = "whole" \/ request[r].unsure
    /\ Written(r) /\ Stage(r) = "orphan" => request[r].unsure

PlaceFits(r) ==
    /\ Stage(r) \in Uncommitted => ~Written(r) /\ ~file[r].there
    /\ Stage(r) \in Placed =>
          /\ request[r].of \in FileIds
          /\ IF Creates(r) THEN request[r].of = r ELSE file[request[r].of].there

RequestFits(r) == UploadFits(r) /\ ObjectFits(r) /\ PlaceFits(r)

\* The rows refer to each other.
FileFits(f) ==
    file[f].there =>
      /\ file[f].current \in FileIds
      /\ version[file[f].current].of = f
      /\ version[file[f].current].number = file[f].counter
VersionFits(v) ==
    Written(v) =>
      /\ file[version[v].of].there
      /\ version[v].number \in 1 .. file[version[v].of].counter

LocalTypes ==
    /\ job \in LocalJob
    /\ dir \in {"live", "trash"}
    /\ file \in [FileIds -> FileRow]
    /\ version \in [FileIds -> VersionRow]
    /\ disk \in LocalDisk
    /\ request \in [Requests -> RequestState]

LocalInv ==
    /\ LocalTypes
    /\ \A f \in FileIds : FileFits(f) /\ VersionFits(f)
    /\ \A r \in Requests : RequestFits(r)
    /\ Object(Old) = "whole"

-----------------------------------------------------------------------------
(* How a step moves one request and its bytes.                             *)

Others(r) == \A q \in Requests \ {r} : request'[q] = request[q]
SameBut(r, new) ==
    /\ request' \in [Requests -> RequestState]
    /\ request'[r] = new
    /\ Others(r)

LEMMA Moved ==
    ASSUME LocalTypes, NEW r \in Requests, NEW new \in RequestState,
           request' = [request EXCEPT ![r] = new]
    PROVE  SameBut(r, new)
BY DEF LocalTypes, SameBut, Others

LEMMA StepMoves ==
    ASSUME LocalTypes, NEW r \in Requests, NEW stage \in Stages, Step(r, stage)
    PROVE  /\ SameBut(r, [request[r] EXCEPT !.stage = stage])
           /\ Stage(r)' = stage
           /\ \A k \in {"body", "of", "name", "bytes", "tries", "unsure", "spoilt"} :
                 request'[r][k] = request[r][k]
<1>1. request[r] \in RequestState
  BY DEF LocalTypes
<1>2. [request[r] EXCEPT !.stage = stage] \in RequestState
  BY <1>1 DEF RequestState
<1>3. request' = [request EXCEPT ![r] = [request[r] EXCEPT !.stage = stage]]
  BY DEF Step
<1>4. SameBut(r, [request[r] EXCEPT !.stage = stage])
  BY <1>2, <1>3, Moved
<1>5. QED BY <1>1, <1>4 DEF SameBut, Stage, RequestState

LEMMA BodyMoves ==
    ASSUME LocalTypes, NEW r \in Requests, NEW body \in Body, SetBody(r, body)
    PROVE  /\ SameBut(r, [request[r] EXCEPT !.body = body])
           /\ request'[r].body = body
           /\ \A k \in {"stage", "of", "name", "bytes", "tries", "unsure", "spoilt"} :
                 request'[r][k] = request[r][k]
<1>1. request[r] \in RequestState
  BY DEF LocalTypes
<1>2. [request[r] EXCEPT !.body = body] \in RequestState
  BY <1>1 DEF RequestState
<1>3. request' = [request EXCEPT ![r] = [request[r] EXCEPT !.body = body]]
  BY DEF SetBody
<1>4. SameBut(r, [request[r] EXCEPT !.body = body])
  BY <1>2, <1>3, Moved
<1>5. QED BY <1>1, <1>4 DEF SameBut, RequestState

DiskFrame(r) ==
    /\ disk' \in LocalDisk
    /\ \A q \in Requests \ {r} :
          /\ Upload(q)' = Upload(q) /\ Object(q)' = Object(q)
          /\ q \in disk'.partial <=> q \in disk.partial
    /\ Object(Old)' = Object(Old)

LEMMA UploadMoves ==
    ASSUME LocalTypes, NEW r \in Requests, NEW bytes \in Bytes, SetUpload(r, bytes)
    PROVE  /\ DiskFrame(r) /\ Upload(r)' = bytes
           /\ Object(r)' = Object(r) /\ disk'.partial = disk.partial
<1>1. disk \in LocalDisk
  BY DEF LocalTypes
<1>2. disk' = [disk EXCEPT !.upload = [disk.upload EXCEPT ![r] = bytes]]
  BY DEF SetUpload
<1>3. QED BY <1>1, <1>2 DEF LocalDisk, DiskFrame, Upload, Object

LEMMA PartialMoves ==
    ASSUME LocalTypes, NEW r \in Requests,
           disk' = [disk EXCEPT !.partial = @ \cup {r}]
             \/ disk' = [disk EXCEPT !.partial = @ \ {r}]
    PROVE  DiskFrame(r) /\ Upload(r)' = Upload(r) /\ Object(r)' = Object(r)
<1>1. disk \in LocalDisk
  BY DEF LocalTypes
<1>2. QED BY <1>1 DEF LocalDisk, DiskFrame, Upload, Object

LEMMA ObjectMoves ==
    ASSUME LocalTypes, NEW r \in Requests, NEW bytes \in Bytes,
           disk' = [disk EXCEPT !.object[r] = bytes]
    PROVE  /\ DiskFrame(r) /\ Object(r)' = bytes
           /\ Upload(r)' = Upload(r) /\ disk'.partial = disk.partial
<1>1. disk \in LocalDisk /\ r \in FileIds /\ r # Old
  BY LocalConstants DEF LocalTypes, FileIds
<1>2. disk' = [disk EXCEPT !.object = [disk.object EXCEPT ![r] = bytes]]
  OBVIOUS
<1>3. QED BY <1>1, <1>2 DEF LocalDisk, DiskFrame, Upload, Object

LEMMA DiskStays ==
    ASSUME LocalTypes, NEW r \in Requests, UNCHANGED disk
    PROVE  DiskFrame(r) /\ Upload(r)' = Upload(r) /\ Object(r)' = Object(r)
BY DEF LocalTypes, DiskFrame, Upload, Object

\* A request that stands still, while the files that are there stay there.
LEMMA OthersFit ==
    ASSUME LocalInv, NEW r \in Requests, NEW q \in Requests \ {r},
           job'.kind = job.kind, request'[q] = request[q], DiskFrame(r),
           version'[q] = version[q], file'[q].there = file[q].there,
           \A f \in FileIds : file[f].there => file'[f].there
    PROVE  RequestFits(q)'
<1>1. RequestFits(q)
  BY DEF LocalInv
<1>2. /\ Upload(q)' = Upload(q) /\ Object(q)' = Object(q)
      /\ q \in disk'.partial <=> q \in disk.partial
  BY DEF DiskFrame
<1>3. UploadFits(q)'
  BY <1>1, <1>2 DEF RequestFits, UploadFits, Stage, HasBody, Kind
<1>4. ObjectFits(q)'
  BY <1>1, <1>2 DEF RequestFits, ObjectFits, Stage, Written
<1>5. PlaceFits(q)'
  BY <1>1 DEF RequestFits, PlaceFits, Stage, Written, Creates, Kind
<1>6. QED BY <1>3, <1>4, <1>5 DEF RequestFits

\* A step of one request that writes no row.
QuietStep(r) ==
    /\ request' \in [Requests -> RequestState] /\ Others(r)
    /\ DiskFrame(r)
    /\ RequestFits(r)'

LEMMA QuietInv ==
    ASSUME LocalInv, NEW r \in Requests, QuietStep(r), UNCHANGED <<file, version>>,
           job' \in LocalJob, job'.kind = job.kind, dir' \in {"live", "trash"}
    PROVE  LocalInv'
<1>1. LocalTypes'
  BY DEF LocalInv, LocalTypes, QuietStep, DiskFrame
<1>2. \A f \in FileIds : FileFits(f)' /\ VersionFits(f)'
  BY DEF LocalInv, FileFits, VersionFits, Written
<1>3. \A q \in Requests \ {r} : RequestFits(q)'
  BY OthersFit DEF QuietStep, Others
<1>4. RequestFits(r)' /\ Object(Old)' = Object(Old)
  BY DEF QuietStep, DiskFrame
<1>5. QED BY <1>1, <1>2, <1>3, <1>4 DEF LocalInv

LEMMA TroubleJob ==
    ASSUME LocalTypes, Trouble \/ UNCHANGED job
    PROVE  job' \in LocalJob /\ job'.kind = job.kind
<1>1. job \in LocalJob
  BY DEF LocalTypes
<1>2. CASE Trouble
  <2>1. job' = [job EXCEPT !.troubles = job.troubles - 1] /\ job.troubles - 1 \in Nat
    BY <1>1, <1>2 DEF Trouble, LocalJob
  <2>2. QED BY <1>1, <2>1 DEF LocalJob
<1>3. QED BY <1>1, <1>2

-----------------------------------------------------------------------------
(* The steps of a request that write no row.                               *)

LEMMA RequestHas ==
    ASSUME LocalInv, NEW r \in Requests
    PROVE  /\ request[r] \in RequestState /\ request[r].body \in Body
           /\ Stage(r) \in Stages /\ Kind(r) \in Kinds
           /\ Upload(r) \in Bytes
           /\ UploadFits(r) /\ ObjectFits(r) /\ PlaceFits(r)
           /\ LocalTypes
<1>1. request[r] \in RequestState /\ disk \in LocalDisk /\ job \in LocalJob
  BY DEF LocalInv, LocalTypes
<1>2. QED
  BY <1>1 DEF LocalInv, RequestFits, RequestState, Stage, Kind, LocalDisk, LocalJob, Upload

LEMMA ReceiveSteps ==
    ASSUME LocalInv, NEW r \in Requests,
           \/ FilePart(r) \/ BadField(r) \/ FileIsWritten(r) \/ FileFails(r)
           \/ Abort(r) \/ ParserFinish(r)
    PROVE  QuietStep(r)
<1>. DEFINE b == request[r].body
<1>1. /\ Stage(r) = "receive" /\ request[r] \in RequestState /\ b \in Body
      /\ LocalTypes /\ RequestFits(r)
  BY RequestHas DEF FilePart, BadField, FileIsWritten, FileFails, Abort, ParserFinish,
     Receiving, At, Stage, RequestFits
<1>2. ASSUME NEW new \in Body, SetBody(r, new), NEW bytes \in Bytes,
             UNCHANGED disk \/ SetUpload(r, bytes),
             UNCHANGED <<file, version>>, job'.kind = job.kind,
             new.pipe = "none" => new.parts = 0,
             new.pipe = "done" => Upload(r)' = "whole"
      PROVE  QuietStep(r)
  <2>1. /\ request' \in [Requests -> RequestState] /\ Others(r)
        /\ request'[r].body = new /\ Stage(r)' = "receive"
        /\ request'[r].spoilt = request[r].spoilt
        /\ request'[r].unsure = request[r].unsure
        /\ request'[r].of = request[r].of /\ request'[r].bytes = request[r].bytes
    BY <1>1, <1>2, BodyMoves DEF SameBut, Stage
  <2>2. DiskFrame(r) /\ Object(r)' = Object(r)
        /\ (r \in disk'.partial <=> r \in disk.partial)
    BY <1>1, <1>2, UploadMoves, DiskStays
  <2>3. HasBody(r) /\ HasBody(r)'
    BY <1>1, <1>2 DEF RequestFits, UploadFits, HasBody, Kind
  <2>4. UploadFits(r)'
    BY <1>2, <2>1, <2>3 DEF UploadFits
  <2>5. ObjectFits(r)'
    BY <1>1, <1>2, <2>1, <2>2 DEF RequestFits, ObjectFits, Written, Stage
  <2>6. PlaceFits(r)'
    BY <1>1, <1>2, <2>1 DEF RequestFits, PlaceFits, Written, Placed
  <2>7. QED BY <2>1, <2>2, <2>4, <2>5, <2>6 DEF QuietStep, RequestFits
<1>3. /\ b.pipe = "none" => b.parts = 0
      /\ b.pipe = "done" => Upload(r) = "whole"
  BY <1>1 DEF RequestFits, UploadFits
<1>4. CASE FilePart(r)
  <2>1. CASE b.parts = 0
    <3>1. [b EXCEPT !.parts = 1, !.pipe = "running"] \in Body
          /\ [b EXCEPT !.parts = 1, !.pipe = "running"].pipe = "running"
      <4>1. 1 \in 0..2
        OBVIOUS
      <4>2. QED BY <1>1, <4>1 DEF Body
    <3>2. QED BY <1>2, <1>4, <2>1, <3>1 DEF FilePart, Bytes
  <2>2. CASE b.parts # 0
    <3>1. /\ [b EXCEPT !.parts = 2, !.failure = TRUE] \in Body
          /\ [b EXCEPT !.parts = 2, !.failure = TRUE].pipe = b.pipe
      <4>1. 2 \in 0..2
        OBVIOUS
      <4>2. QED BY <1>1, <4>1 DEF Body
    <3>2. /\ SetBody(r, [b EXCEPT !.parts = 2, !.failure = TRUE])
          /\ UNCHANGED <<disk, job, file, version>>
      BY <1>4, <2>2 DEF FilePart
    <3>3. Upload(r)' = Upload(r)
      BY <3>2 DEF Upload
    <3>4. "whole" \in Bytes
      BY DEF Bytes
    <3>5. QED BY <1>2, <1>3, <2>2, <3>1, <3>2, <3>3, <3>4
  <2>3. QED BY <2>1, <2>2
<1>5. CASE BadField(r) \/ FileFails(r) \/ Abort(r) \/ ParserFinish(r)
  <2>1. PICK new \in Body :
           /\ SetBody(r, new)
           /\ new.parts = b.parts /\ new.pipe \in {b.pipe, "failed"}
    <3>1. CASE BadField(r)
      <4>1. [b EXCEPT !.failure = TRUE] \in Body
            /\ [b EXCEPT !.failure = TRUE].parts = b.parts
            /\ [b EXCEPT !.failure = TRUE].pipe = b.pipe
        BY <1>1 DEF Body
      <4>2. QED BY <3>1, <4>1 DEF BadField
    <3>2. CASE FileFails(r)
      <4>1. [b EXCEPT !.pipe = "failed", !.failure = TRUE] \in Body
            /\ [b EXCEPT !.pipe = "failed", !.failure = TRUE].parts = b.parts
            /\ [b EXCEPT !.pipe = "failed", !.failure = TRUE].pipe = "failed"
        BY <1>1 DEF Body
      <4>2. QED BY <3>2, <4>1 DEF FileFails
    <3>3. CASE Abort(r)
      <4>. DEFINE pipe == IF b.pipe = "running" THEN "failed" ELSE b.pipe
                  new == [b EXCEPT !.failure = TRUE, !.ended = TRUE, !.pipe = pipe]
      <4>1. new \in Body /\ new.parts = b.parts /\ new.pipe = pipe
        BY <1>1 DEF Body
      <4>2. SetBody(r, new)
        BY <3>3 DEF Abort
      <4>3. QED BY <4>1, <4>2
    <3>4. CASE ParserFinish(r)
      <4>1. [b EXCEPT !.ended = TRUE] \in Body
            /\ [b EXCEPT !.ended = TRUE].parts = b.parts
            /\ [b EXCEPT !.ended = TRUE].pipe = b.pipe
        BY <1>1 DEF Body
      <4>2. QED BY <3>4, <4>1 DEF ParserFinish
    <3>5. QED BY <1>5, <3>1, <3>2, <3>3, <3>4
  <2>2. UNCHANGED <<disk, file, version>> /\ job'.kind = job.kind
    BY <1>1, <1>5, TroubleJob DEF BadField, FileFails, Abort, ParserFinish, OnlyRequests
  <2>3. Upload(r)' = Upload(r) /\ "whole" \in Bytes
    BY <2>2 DEF Upload, Bytes
  <2>4. /\ new.pipe = "none" => new.parts = 0
        /\ new.pipe = "done" => Upload(r)' = "whole"
    BY <1>3, <2>1, <2>3
  <2>5. QED BY <1>2, <2>1, <2>2, <2>3, <2>4
<1>6. CASE FileIsWritten(r)
  <2>. DEFINE new == [b EXCEPT !.pipe = "done"]
  <2>1. new \in Body /\ new.pipe = "done" /\ "whole" \in Bytes
    BY <1>1 DEF Body, Bytes
  <2>2. SetBody(r, new) /\ SetUpload(r, "whole") /\ UNCHANGED <<job, file, version>>
    BY <1>6 DEF FileIsWritten
  <2>3. Upload(r)' = "whole"
    BY <1>1, <2>1, <2>2, UploadMoves
  <2>4. QED BY <1>2, <2>1, <2>2, <2>3
<1>7. QED BY <1>4, <1>5, <1>6

\* A request that only moves on, and its bytes stay: what has to hold of the
\* stage it comes to.
LEMMA StepIsQuiet ==
    ASSUME LocalInv, NEW r \in Requests, NEW stage \in Stages, Step(r, stage),
           UNCHANGED <<disk, file, version>>, job'.kind = job.kind,
           stage = "receive" =>
              HasBody(r) /\ request[r].body = NewBody /\ Stage(r) = "idle",
           stage \in {"check", "put"} => Stage(r) \in {"idle", "receive"},
           stage \in {"check", "put"} /\ HasBody(r) => Upload(r) = "whole",
           stage \in {"naming", "commit"} => Stage(r) \in {"naming", "commit"},
           stage \in {"orphan", "cleanup", "ended"} =>
              /\ Stage(r) \notin {"link", "tidy"}
              /\ Stage(r) \in Uncommitted,
           stage \in {"cleanup", "ended"} => Stage(r) \in {"receive", "check", "put"},
           stage = "ended" => ~HasBody(r),
           stage \notin {"idle", "put", "link", "tidy"}
    PROVE  QuietStep(r)
<1>1. /\ request[r] \in RequestState /\ LocalTypes
      /\ UploadFits(r) /\ ObjectFits(r) /\ PlaceFits(r)
  BY RequestHas
<1>2. /\ request' \in [Requests -> RequestState] /\ Others(r) /\ Stage(r)' = stage
      /\ \A k \in {"body", "of", "name", "bytes", "tries", "unsure", "spoilt"} :
            request'[r][k] = request[r][k]
  BY <1>1, StepMoves DEF SameBut
<1>3. /\ request'[r].body = request[r].body /\ request'[r].of = request[r].of
      /\ request'[r].bytes = request[r].bytes /\ request'[r].unsure = request[r].unsure
      /\ request'[r].spoilt = request[r].spoilt
  BY <1>2
<1>4. DiskFrame(r) /\ Upload(r)' = Upload(r) /\ Object(r)' = Object(r)
      /\ (r \in disk'.partial <=> r \in disk.partial)
  BY <1>1, DiskStays
<1>5. (HasBody(r)' <=> HasBody(r)) /\ (Creates(r)' <=> Creates(r))
  BY DEF HasBody, Creates, Kind
<1>6. UploadFits(r)'
  BY <1>1, <1>2, <1>3, <1>4, <1>5 DEF UploadFits, NewBody
<1>7. ObjectFits(r)'
  <2>1. Written(r)' = Written(r)
    BY DEF Written
  <2>2. /\ stage \in {"receive", "check", "put"} => Object(r) = "absent"
        /\ stage \in {"naming", "commit"} => Object(r) = "whole"
        /\ stage \in {"cleanup", "ended"} => Object(r) = "absent"
        /\ stage = "orphan" => ~Written(r)
    BY <1>1 DEF ObjectFits, PlaceFits, Uncommitted
  <2>3. Stage(r) \notin {"link", "tidy"}
    BY DEF Stages
  <2>4. QED
    BY <1>1, <1>2, <1>3, <1>4, <2>1, <2>2, <2>3 DEF ObjectFits, Stages
<1>8. PlaceFits(r)'
  BY <1>1, <1>2, <1>3, <1>5 DEF PlaceFits, Written, Uncommitted, Placed
<1>9. QED BY <1>2, <1>4, <1>6, <1>7, <1>8 DEF QuietStep, RequestFits

LEMMA EarlySteps ==
    ASSUME LocalInv, NEW r \in Requests, Arrive(r) \/ ReceiveSettles(r) \/ NoPlace(r)
    PROVE  QuietStep(r)
<1>1. /\ LocalTypes /\ UploadFits(r) /\ ObjectFits(r) /\ request[r].body \in Body
      /\ UNCHANGED <<disk, file, version>> /\ job'.kind = job.kind
  BY RequestHas DEF Arrive, ReceiveSettles, NoPlace, OnlyRequests
<1>2. CASE Arrive(r)
  <2>1. CASE HasBody(r)
    BY <1>1, <1>2, <2>1, StepIsQuiet DEF Arrive, At, Stage, Stages, UploadFits
  <2>2. CASE ~HasBody(r)
    BY <1>1, <1>2, <2>2, StepIsQuiet DEF Arrive, At, Stage, Stages, UploadFits
  <2>3. QED BY <2>1, <2>2
<1>3. CASE ReceiveSettles(r)
  <2>. DEFINE b == request[r].body
              bad == b.failure \/ b.parts # 1 \/ b.pipe = "failed"
  <2>1. Stage(r) = "receive" /\ b.pipe # "running"
    BY <1>3 DEF ReceiveSettles, At, Stage
  <2>2. CASE bad
    <3>1. Step(r, "cleanup")
      BY <1>3, <2>2 DEF ReceiveSettles
    <3>2. QED
      BY <1>1, <2>1, <3>1, StepIsQuiet DEF Stages, Uncommitted
  <2>3. CASE ~bad
    <3>1. Step(r, "check")
      BY <1>3, <2>3 DEF ReceiveSettles
    <3>2. b.pipe = "done" /\ Upload(r) = "whole"
      BY <1>1, <2>1, <2>3 DEF UploadFits, Body
    <3>3. QED
      BY <1>1, <2>1, <3>1, <3>2, StepIsQuiet DEF Stages
  <2>4. QED BY <2>2, <2>3
<1>4. CASE NoPlace(r)
  <2>1. Stage(r) = "naming" /\ Step(r, "orphan")
    BY <1>4 DEF NoPlace, At, Stage
  <2>2. QED BY <1>1, <2>1, StepIsQuiet DEF Stages, Uncommitted
<1>5. QED BY <1>2, <1>3, <1>4

\* The check of the destination, or of the file.
LEMMA CheckQuiet ==
    ASSUME LocalInv, NEW r \in Requests, Check(r)
    PROVE  QuietStep(r)
<1>1. /\ LocalTypes /\ request[r] \in RequestState
      /\ UploadFits(r) /\ ObjectFits(r) /\ PlaceFits(r)
      /\ UNCHANGED <<job, disk, file, version>> /\ Stage(r) = "check"
  BY RequestHas DEF Check, OnlyRequests, At, Stage
<1>2. CASE Step(r, Leaving(r))
  <2>1. CASE HasBody(r)
    BY <1>1, <1>2, <2>1, StepIsQuiet DEF Leaving, Stages, Uncommitted
  <2>2. CASE ~HasBody(r)
    BY <1>1, <1>2, <2>2, StepIsQuiet DEF Leaving, Stages, Uncommitted
  <2>3. QED BY <2>1, <2>2
<1>3. ASSUME NEW f \in IF Creates(r) THEN {r} ELSE FileIds, MayProceed(r, f),
             request' = [request EXCEPT ![r].stage = "put", ![r].of = f]
      PROVE  QuietStep(r)
  <2>. DEFINE new == [request[r] EXCEPT !.stage = "put", !.of = f]
  <2>1. f \in FileIds
    BY DEF FileIds
  <2>2. /\ new \in RequestState /\ new.stage = "put" /\ new.of = f
        /\ new.body = request[r].body /\ new.bytes = request[r].bytes
        /\ new.unsure = request[r].unsure /\ new.spoilt = request[r].spoilt
    BY <1>1, <2>1 DEF RequestState, Stages
  <2>3. request' = [request EXCEPT ![r] = new]
    BY <1>3
  <2>4. SameBut(r, new)
    BY <1>1, <2>2, <2>3, Moved
  <2>5. DiskFrame(r) /\ Upload(r)' = Upload(r) /\ Object(r)' = Object(r)
        /\ (r \in disk'.partial <=> r \in disk.partial)
    BY <1>1, DiskStays
  <2>6. (HasBody(r)' <=> HasBody(r)) /\ (Creates(r)' <=> Creates(r))
    BY <1>1 DEF HasBody, Creates, Kind
  <2>7. UploadFits(r)'
    BY <1>1, <2>2, <2>4, <2>5, <2>6 DEF UploadFits, SameBut, Stage
  <2>8. ObjectFits(r)'
    BY <1>1, <2>2, <2>4, <2>5 DEF ObjectFits, SameBut, Stage, Written
  <2>9. PlaceFits(r)'
    <3>1. IF Creates(r) THEN f = r ELSE file[f].there
      BY <1>3 DEF MayProceed
    <3>2. QED
      BY <1>1, <2>1, <2>2, <2>4, <2>6, <3>1
      DEF PlaceFits, SameBut, Stage, Written, Uncommitted
  <2>10. QED BY <2>4, <2>5, <2>7, <2>8, <2>9 DEF QuietStep, RequestFits, SameBut
<1>4. QED BY <1>2, <1>3 DEF Check

\* The bytes are copied: from the upload, or from the version to restore.
LEMMA SourceBytes ==
    ASSUME LocalInv, NEW r \in Requests, Stage(r) = "put", NEW bytes \in Source(r)
    PROVE  bytes \in {"absent", "whole"}
<1>1. \A v \in FileIds : Object(v) \in {"absent", "whole"}
  <2>1. \A q \in Requests : Object(q) \in {"absent", "whole"}
    BY DEF LocalInv, RequestFits, ObjectFits
  <2>2. Object(Old) = "whole"
    BY DEF LocalInv
  <2>3. QED BY <2>1, <2>2 DEF FileIds
<1>2. CASE HasBody(r)
  <2>1. Kind(r) # "restore"
    BY <1>2 DEF HasBody
  <2>2. bytes = Upload(r)
    BY <1>2, <2>1 DEF Source, Upload
  <2>3. QED BY <1>2, <2>2, RequestHas DEF UploadFits
<1>3. CASE Kind(r) = "restore"
  <2>1. ~HasBody(r)
    BY <1>3 DEF HasBody
  <2>2. PICK v \in FileIds : bytes = Object(v)
    BY <1>3, <2>1 DEF Source, Object
  <2>3. QED BY <1>1, <2>2
<1>4. CASE Kind(r) = "office"
  <2>1. ~HasBody(r)
    BY <1>4 DEF HasBody
  <2>2. bytes = "whole"
    BY <1>4, <2>1 DEF Source
  <2>3. QED BY <2>2
<1>5. QED BY <1>2, <1>3, <1>4, RequestHas DEF Kinds, HasBody

LEMMA CopySteps ==
    ASSUME LocalInv, NEW r \in Requests, Put(r) \/ PutFails(r) \/ Link(r)
    PROVE  QuietStep(r)
<1>1. /\ LocalTypes /\ request[r] \in RequestState
      /\ UploadFits(r) /\ ObjectFits(r) /\ PlaceFits(r)
      /\ UNCHANGED <<file, version>> /\ job'.kind = job.kind
  BY RequestHas, TroubleJob DEF Put, PutFails, Link
<1>2. (HasBody(r)' <=> HasBody(r)) /\ (Creates(r)' <=> Creates(r))
      /\ Written(r)' = Written(r)
  BY <1>1 DEF HasBody, Creates, Kind, Written
<1>3. CASE Put(r)
  <2>1. Stage(r) = "put"
    BY <1>3 DEF Put, At, Stage
  <2>2. ASSUME Step(r, Leaving(r)), UNCHANGED disk PROVE QuietStep(r)
    <3>1. CASE HasBody(r)
      BY <1>1, <2>1, <2>2, <3>1, StepIsQuiet DEF Leaving, Stages, Uncommitted
    <3>2. CASE ~HasBody(r)
      BY <1>1, <2>1, <2>2, <3>2, StepIsQuiet DEF Leaving, Stages, Uncommitted
    <3>3. QED BY <3>1, <3>2
  <2>3. ASSUME NEW bytes \in Source(r), bytes # "absent",
               request' = [request EXCEPT ![r].stage = "link", ![r].bytes = bytes],
               disk' = [disk EXCEPT !.partial = @ \cup {r}]
        PROVE  QuietStep(r)
    <3>. DEFINE new == [request[r] EXCEPT !.stage = "link", !.bytes = bytes]
    <3>1. bytes = "whole"
      BY <2>1, <2>3, SourceBytes
    <3>2. /\ new \in RequestState /\ new.stage = "link" /\ new.bytes = "whole"
          /\ new.of = request[r].of
          /\ new.unsure = request[r].unsure /\ new.spoilt = request[r].spoilt
      BY <1>1, <3>1 DEF RequestState, Stages, Bytes
    <3>3. request' = [request EXCEPT ![r] = new]
      BY <2>3
    <3>4. SameBut(r, new)
      BY <1>1, <3>2, <3>3, Moved
    <3>5. DiskFrame(r) /\ Upload(r)' = Upload(r) /\ Object(r)' = Object(r)
      BY <1>1, <2>3, PartialMoves
    <3>6. UploadFits(r)'
      BY <1>1, <1>2, <2>1, <3>2, <3>4, <3>5 DEF UploadFits, SameBut, Stage
    <3>7. ObjectFits(r)'
      BY <1>1, <1>2, <2>1, <3>2, <3>4, <3>5 DEF ObjectFits, SameBut, Stage
    <3>8. PlaceFits(r)'
      BY <1>1, <1>2, <2>1, <3>2, <3>4
      DEF PlaceFits, SameBut, Stage, Uncommitted, Placed
    <3>9. QED BY <3>4, <3>5, <3>6, <3>7, <3>8 DEF QuietStep, RequestFits, SameBut
  <2>4. QED BY <1>3, <2>2, <2>3 DEF Put
<1>4. CASE PutFails(r)
  <2>1. Stage(r) = "link" /\ Step(r, NotPut(r))
        /\ disk' = [disk EXCEPT !.partial = @ \ {r}]
    BY <1>4 DEF PutFails, At, Stage
  <2>2. NotPut(r) \in {"orphan", "cleanup", "ended"}
        /\ (NotPut(r) = "ended" => ~HasBody(r))
    BY DEF NotPut, Leaving
  <2>3. /\ SameBut(r, [request[r] EXCEPT !.stage = NotPut(r)]) /\ Stage(r)' = NotPut(r)
        /\ request'[r].unsure = request[r].unsure /\ request'[r].spoilt = request[r].spoilt
    BY <1>1, <2>1, <2>2, StepMoves DEF Stages
  <2>4. DiskFrame(r) /\ Upload(r)' = Upload(r) /\ Object(r)' = Object(r)
        /\ r \notin disk'.partial
    <3>1. disk'.partial = disk.partial \ {r}
      BY <1>1, <2>1 DEF LocalTypes, LocalDisk
    <3>2. QED BY <1>1, <2>1, <3>1, PartialMoves
  <2>5. UploadFits(r)'
    BY <1>1, <1>2, <2>1, <2>2, <2>3, <2>4 DEF UploadFits
  <2>6. ObjectFits(r)'
    BY <1>1, <1>2, <2>1, <2>2, <2>3, <2>4 DEF ObjectFits, PlaceFits, Uncommitted
  <2>7. PlaceFits(r)'
    BY <2>2, <2>3 DEF PlaceFits, Uncommitted, Placed
  <2>8. QED BY <2>3, <2>4, <2>5, <2>6, <2>7 DEF QuietStep, RequestFits, SameBut
<1>5. CASE Link(r)
  <2>1. Stage(r) = "link" /\ Step(r, "tidy")
        /\ disk' = [disk EXCEPT !.object[r] = request[r].bytes]
        /\ request[r].bytes = "whole"
    BY <1>1, <1>5 DEF Link, At, Stage, ObjectFits
  <2>2. /\ SameBut(r, [request[r] EXCEPT !.stage = "tidy"]) /\ Stage(r)' = "tidy"
        /\ request'[r].of = request[r].of
        /\ request'[r].unsure = request[r].unsure /\ request'[r].spoilt = request[r].spoilt
    BY <1>1, <2>1, StepMoves DEF Stages
  <2>3. DiskFrame(r) /\ Upload(r)' = Upload(r) /\ Object(r)' = "whole"
    BY <1>1, <2>1, ObjectMoves DEF Bytes
  <2>4. UploadFits(r)'
    BY <1>1, <1>2, <2>2, <2>3 DEF UploadFits
  <2>5. ObjectFits(r)'
    BY <1>1, <1>2, <2>1, <2>2, <2>3 DEF ObjectFits
  <2>6. PlaceFits(r)'
    BY <1>1, <1>2, <2>1, <2>2 DEF PlaceFits, Uncommitted, Placed
  <2>7. QED BY <2>2, <2>3, <2>4, <2>5, <2>6 DEF QuietStep, RequestFits, SameBut
<1>6. QED BY <1>3, <1>4, <1>5

\* The partial file is removed; or it is not, and then the object goes.
LEMMA TidySteps ==
    ASSUME LocalInv, NEW r \in Requests, Tidy(r) \/ TidyFails(r)
    PROVE  QuietStep(r)
<1>1. /\ LocalTypes /\ request[r] \in RequestState /\ Kind(r) \in Kinds
      /\ UploadFits(r) /\ ObjectFits(r) /\ PlaceFits(r)
      /\ UNCHANGED <<file, version>> /\ job'.kind = job.kind
      /\ Stage(r) = "tidy"
  BY RequestHas, TroubleJob DEF Tidy, TidyFails, At, Stage
<1>2. (HasBody(r)' <=> HasBody(r)) /\ (Creates(r)' <=> Creates(r))
      /\ Written(r)' = Written(r) /\ ~Written(r)
  BY <1>1 DEF HasBody, Creates, Kind, Written, PlaceFits, Uncommitted
<1>3. CASE Tidy(r)
  <2>1. PICK stage \in {"naming", "commit", "orphan"} : Step(r, stage)
    <3>1. CASE Kind(r) = "office"
      BY <1>3, <3>1 DEF Tidy
    <3>2. CASE Kind(r) = "restore" /\ request[r].bytes # "whole"
      BY <1>3, <3>2 DEF Tidy
    <3>3. CASE Kind(r) # "office" /\ ~(Kind(r) = "restore" /\ request[r].bytes # "whole")
      BY <1>3, <3>3 DEF Tidy
    <3>4. QED BY <3>1, <3>2, <3>3
  <2>2. /\ SameBut(r, [request[r] EXCEPT !.stage = stage]) /\ Stage(r)' = stage
        /\ request'[r].of = request[r].of
        /\ request'[r].unsure = request[r].unsure /\ request'[r].spoilt = request[r].spoilt
    BY <1>1, <2>1, StepMoves DEF Stages
  <2>3. disk' = [disk EXCEPT !.partial = @ \ {r}]
    BY <1>3 DEF Tidy
  <2>4. DiskFrame(r) /\ Upload(r)' = Upload(r) /\ Object(r)' = Object(r)
        /\ r \notin disk'.partial
    <3>1. disk'.partial = disk.partial \ {r}
      BY <1>1, <2>3 DEF LocalTypes, LocalDisk
    <3>2. QED BY <1>1, <2>3, <3>1, PartialMoves
  <2>5. UploadFits(r)'
    BY <1>1, <1>2, <2>2, <2>4 DEF UploadFits
  <2>6. ObjectFits(r)'
    BY <1>1, <1>2, <2>2, <2>4 DEF ObjectFits
  <2>7. PlaceFits(r)'
    BY <1>1, <1>2, <2>2 DEF PlaceFits, Uncommitted, Placed
  <2>8. QED BY <2>2, <2>4, <2>5, <2>6, <2>7 DEF QuietStep, RequestFits, SameBut
<1>4. CASE TidyFails(r)
  <2>. DEFINE new == [request[r] EXCEPT !.stage = NotPut(r), !.spoilt = TRUE]
  <2>1. NotPut(r) \in {"orphan", "cleanup", "ended"}
    BY DEF NotPut, Leaving
  <2>2. new \in RequestState /\ new.stage = NotPut(r) /\ new.spoilt = TRUE
    BY <1>1, <2>1 DEF RequestState, Stages
  <2>3. request' = [request EXCEPT ![r] = new]
    BY <1>4 DEF TidyFails
  <2>4. SameBut(r, new)
    BY <1>1, <2>2, <2>3, Moved
  <2>5. Stage(r)' = NotPut(r) /\ request'[r].spoilt = TRUE
    BY <2>2, <2>4 DEF SameBut, Stage
  <2>6. DiskFrame(r) /\ Object(r)' = "absent" /\ Upload(r)' = Upload(r)
    <3>1. disk' = [disk EXCEPT !.object[r] = "absent"]
      BY <1>4 DEF TidyFails
    <3>2. QED BY <1>1, <3>1, ObjectMoves DEF Bytes
  <2>7. UploadFits(r)'
    BY <1>1, <1>2, <2>1, <2>5, <2>6 DEF UploadFits
  <2>8. ObjectFits(r)'
    BY <1>2, <2>1, <2>5, <2>6 DEF ObjectFits
  <2>9. PlaceFits(r)'
    BY <2>1, <2>5 DEF PlaceFits, Uncommitted, Placed
  <2>10. QED BY <2>4, <2>6, <2>7, <2>8, <2>9 DEF QuietStep, RequestFits, SameBut
<1>5. QED BY <1>3, <1>4

\* Before the transaction writes: a name, or another one, or no success.
LEMMA NamingSteps ==
    ASSUME LocalInv, NEW r \in Requests, ChooseName(r) \/ Refused(r) \/ Conflict(r)
    PROVE  QuietStep(r)
<1>1. /\ LocalTypes /\ request[r] \in RequestState
      /\ UploadFits(r) /\ ObjectFits(r) /\ PlaceFits(r)
      /\ UNCHANGED <<disk, file, version>> /\ job'.kind = job.kind
      /\ Stage(r) \in {"naming", "commit"}
  BY RequestHas, TroubleJob DEF ChooseName, Refused, Conflict, OnlyRequests, Commits, At, Stage
<1>2. (HasBody(r)' <=> HasBody(r)) /\ (Creates(r)' <=> Creates(r))
      /\ Written(r)' = Written(r) /\ ~Written(r)
  BY <1>1 DEF HasBody, Creates, Kind, Written, PlaceFits, Uncommitted
<1>3. ASSUME NEW new \in RequestState, request' = [request EXCEPT ![r] = new],
             new.stage \in {"naming", "commit", "orphan"},
             new.of = request[r].of, new.unsure = request[r].unsure,
             new.spoilt = request[r].spoilt
      PROVE  QuietStep(r)
  <2>1. SameBut(r, new)
    BY <1>1, <1>3, Moved
  <2>2. /\ Stage(r)' = new.stage /\ request'[r].of = request[r].of
        /\ request'[r].unsure = request[r].unsure /\ request'[r].spoilt = request[r].spoilt
    BY <1>3, <2>1 DEF SameBut, Stage
  <2>3. DiskFrame(r) /\ Upload(r)' = Upload(r) /\ Object(r)' = Object(r)
        /\ (r \in disk'.partial <=> r \in disk.partial)
    BY <1>1, DiskStays
  <2>4. UploadFits(r)'
    BY <1>1, <1>2, <1>3, <2>2, <2>3 DEF UploadFits
  <2>5. ObjectFits(r)'
    BY <1>1, <1>2, <1>3, <2>2, <2>3 DEF ObjectFits
  <2>6. PlaceFits(r)'
    BY <1>1, <1>2, <1>3, <2>2 DEF PlaceFits, Uncommitted, Placed
  <2>7. QED BY <2>1, <2>3, <2>4, <2>5, <2>6 DEF QuietStep, RequestFits, SameBut
<1>4. CASE ChooseName(r)
  <2>1. PICK n \in {Wanted[r], OtherName[Wanted[r]]} :
           request' = [request EXCEPT ![r].stage = "commit", ![r].name = n]
    BY <1>4 DEF ChooseName
  <2>. DEFINE new == [request[r] EXCEPT !.stage = "commit", !.name = n]
  <2>2. n \in FileNames
    BY DEF FileNames
  <2>3. /\ new \in RequestState /\ new.stage = "commit" /\ new.of = request[r].of
        /\ new.unsure = request[r].unsure /\ new.spoilt = request[r].spoilt
    BY <1>1, <2>2 DEF RequestState, Stages
  <2>4. request' = [request EXCEPT ![r] = new]
    BY <2>1
  <2>5. QED BY <1>3, <2>3, <2>4
<1>5. CASE TryAgain(r)
  <2>. DEFINE again == Kind(r) = "office" /\ dir = "live" /\ request[r].tries + 1 < MaxTries
              stage == IF again THEN "naming" ELSE "orphan"
              tries == IF again THEN request[r].tries + 1 ELSE request[r].tries
              new == [request[r] EXCEPT !.stage = stage, !.tries = tries]
  <2>1. tries \in 0 .. MaxTries /\ stage \in {"naming", "orphan"}
    <3>1. request[r].tries \in 0 .. MaxTries /\ MaxTries \in Nat
      BY <1>1, LocalConstants DEF RequestState
    <3>2. QED BY <3>1
  <2>2. request' = [request EXCEPT ![r] = new]
    BY <1>5 DEF TryAgain
  <2>. HIDE DEF again, stage, tries
  <2>3. /\ new \in RequestState /\ new.stage = stage /\ new.of = request[r].of
        /\ new.unsure = request[r].unsure /\ new.spoilt = request[r].spoilt
    BY <1>1, <2>1 DEF RequestState, Stages
  <2>4. QED BY <1>3, <2>1, <2>2, <2>3
<1>6. QED BY <1>4, <1>5 DEF Refused, Conflict

\* The bytes are taken back, or the disk refuses to remove them.
LEMMA RemovalSteps ==
    ASSUME LocalInv, NEW r \in Requests, DeleteOrphan(r) \/ CannotDelete(r) \/ Cleanup(r)
    PROVE  QuietStep(r)
<1>1. /\ LocalTypes /\ request[r] \in RequestState
      /\ UploadFits(r) /\ ObjectFits(r)
      /\ UNCHANGED <<file, version>> /\ job'.kind = job.kind
      /\ Stage(r) \in {"orphan", "cleanup"}
  BY RequestHas, TroubleJob DEF DeleteOrphan, CannotDelete, Cleanup, At, Stage
<1>2. (HasBody(r)' <=> HasBody(r)) /\ Written(r)' = Written(r)
      /\ Leaving(r) \in {"cleanup", "ended"} /\ (Leaving(r) = "ended" => ~HasBody(r))
  BY <1>1 DEF HasBody, Kind, Written, Leaving
<1>3. CASE DeleteOrphan(r)
  <2>1. Stage(r) = "orphan" /\ Step(r, Leaving(r))
        /\ disk' = [disk EXCEPT !.object[r] = "absent"]
    BY <1>3 DEF DeleteOrphan, At, Stage
  <2>2. /\ SameBut(r, [request[r] EXCEPT !.stage = Leaving(r)]) /\ Stage(r)' = Leaving(r)
        /\ request'[r].unsure = request[r].unsure /\ request'[r].spoilt = request[r].spoilt
    BY <1>1, <1>2, <2>1, StepMoves DEF Stages
  <2>3. /\ DiskFrame(r) /\ Object(r)' = "absent"
        /\ Upload(r)' = Upload(r) /\ disk'.partial = disk.partial
    BY <1>1, <2>1, ObjectMoves DEF Bytes
  <2>4. UploadFits(r)'
    BY <1>1, <1>2, <2>2, <2>3 DEF UploadFits
  <2>5. ObjectFits(r)'
    BY <1>1, <1>2, <2>1, <2>2, <2>3 DEF ObjectFits
  <2>6. PlaceFits(r)'
    BY <1>2, <2>2 DEF PlaceFits, Uncommitted, Placed
  <2>7. QED BY <2>2, <2>3, <2>4, <2>5, <2>6 DEF QuietStep, RequestFits, SameBut
<1>4. CASE CannotDelete(r)
  <2>. DEFINE stage == IF At(r, "orphan") THEN Leaving(r) ELSE "ended"
              new == [request[r] EXCEPT !.stage = stage, !.spoilt = TRUE]
  <2>1. stage \in {"cleanup", "ended"}
    BY <1>2
  <2>2. request' = [request EXCEPT ![r] = new]
    BY <1>4 DEF CannotDelete
  <2>. HIDE DEF stage
  <2>3. /\ new \in RequestState /\ new.stage = stage /\ new.spoilt = TRUE
        /\ new.unsure = request[r].unsure
    BY <1>1, <2>1 DEF RequestState, Stages
  <2>4. SameBut(r, new)
    BY <1>1, <2>2, <2>3, Moved
  <2>5. Stage(r)' = stage /\ request'[r].spoilt = TRUE /\ request'[r].unsure = request[r].unsure
    BY <2>3, <2>4 DEF SameBut, Stage
  <2>6. DiskFrame(r) /\ Upload(r)' = Upload(r) /\ Object(r)' = Object(r)
    BY <1>1, <1>4, DiskStays DEF CannotDelete
  <2>7. UploadFits(r)'
    BY <1>1, <1>2, <2>1, <2>5, <2>6 DEF UploadFits
  <2>8. ObjectFits(r)'
    BY <1>1, <1>2, <2>1, <2>5, <2>6 DEF ObjectFits
  <2>9. PlaceFits(r)'
    BY <2>1, <2>5 DEF PlaceFits, Uncommitted, Placed
  <2>10. QED BY <2>4, <2>6, <2>7, <2>8, <2>9 DEF QuietStep, RequestFits, SameBut
<1>5. CASE Cleanup(r)
  <2>1. Stage(r) = "cleanup" /\ Step(r, "ended") /\ SetUpload(r, "absent")
    BY <1>5 DEF Cleanup, At, Stage
  <2>2. /\ SameBut(r, [request[r] EXCEPT !.stage = "ended"]) /\ Stage(r)' = "ended"
        /\ request'[r].unsure = request[r].unsure /\ request'[r].spoilt = request[r].spoilt
    BY <1>1, <2>1, StepMoves DEF Stages
  <2>3. /\ DiskFrame(r) /\ Upload(r)' = "absent"
        /\ Object(r)' = Object(r) /\ disk'.partial = disk.partial
    BY <1>1, <2>1, UploadMoves DEF Bytes
  <2>4. UploadFits(r)'
    BY <2>2, <2>3 DEF UploadFits
  <2>5. ObjectFits(r)'
    BY <1>1, <1>2, <2>1, <2>2, <2>3 DEF ObjectFits
  <2>6. PlaceFits(r)'
    BY <2>2 DEF PlaceFits, Uncommitted, Placed
  <2>7. QED BY <2>2, <2>3, <2>4, <2>5, <2>6 DEF QuietStep, RequestFits, SameBut
<1>6. QED BY <1>3, <1>4, <1>5

-----------------------------------------------------------------------------
(* The transaction that writes the rows.                                   *)

LEMMA RowsFit ==
    ASSUME LocalInv, NEW r \in Requests, Stage(r) = "commit", Rows(r)
    PROVE  /\ file' \in [FileIds -> FileRow] /\ version' \in [FileIds -> VersionRow]
           /\ \A f \in FileIds : FileFits(f)' /\ VersionFits(f)'
           /\ \A q \in Requests \ {r} :
                 version'[q] = version[q] /\ file'[q].there = file[q].there
           /\ \A f \in FileIds : file[f].there => file'[f].there
           /\ Written(r)'
<1>. DEFINE f == request[r].of
            number == IF Creates(r) THEN 1 ELSE file[f].counter + 1
            name == IF Creates(r) THEN NewName(r) ELSE file[f].name
            row == [of |-> f, number |-> number]
            new == [there |-> TRUE, name |-> name, counter |-> number, current |-> r]
<1>1. /\ LocalTypes /\ request[r] \in RequestState /\ Kind(r) \in Kinds
      /\ f \in FileIds /\ (IF Creates(r) THEN f = r ELSE file[f].there)
      /\ ~Written(r) /\ ~file[r].there
  BY RequestHas DEF PlaceFits, Uncommitted, Placed
<1>2. /\ file \in [FileIds -> FileRow] /\ version \in [FileIds -> VersionRow]
      /\ r \in FileIds /\ NoFile \notin FileIds
  BY <1>1, LocalConstants DEF LocalTypes, FileIds
<1>3. version' = [version EXCEPT ![r] = row] /\ file' = [file EXCEPT ![f] = new]
  BY DEF Rows
<1>4. number \in Nat \ {0} /\ (~Creates(r) => number = file[f].counter + 1)
  <2>1. file[f].counter \in Nat
    BY <1>1, <1>2 DEF FileRow
  <2>2. QED BY <2>1
<1>5. name \in FileNames \cup {NoFile}
  <2>1. file[f].name \in FileNames \cup {NoFile} /\ request[r].name \in FileNames \cup {NoFile}
    BY <1>1, <1>2 DEF FileRow, RequestState
  <2>2. Wanted[r] \in FileNames
    BY DEF FileNames
  <2>3. QED BY <2>1, <2>2 DEF NewName
<1>. HIDE DEF number, name
<1>6. row \in VersionRow /\ new \in FileRow
  BY <1>1, <1>2, <1>4, <1>5 DEF VersionRow, FileRow
<1>7. /\ file' \in [FileIds -> FileRow] /\ version' \in [FileIds -> VersionRow]
      /\ file'[f] = new /\ version'[r] = row
      /\ \A g \in FileIds \ {f} : file'[g] = file[g]
      /\ \A v \in FileIds \ {r} : version'[v] = version[v]
  BY <1>1, <1>2, <1>3, <1>6
<1>. HIDE DEF f
<1>8. /\ file'[f].there /\ file'[f].current = r /\ file'[f].counter = number
      /\ version'[r].of = f /\ version'[r].number = number
  BY <1>7
<1>9. version[r].of = NoFile
  BY <1>1 DEF Written
<1>10. ASSUME NEW g \in FileIds PROVE FileFits(g)'
  <2>1. CASE g = f
    BY <1>2, <1>8, <2>1 DEF FileFits
  <2>2. CASE g # f
    <3>1. SUFFICES ASSUME file[g].there
                   PROVE  /\ file[g].current \in FileIds
                          /\ version'[file[g].current].of = g
                          /\ version'[file[g].current].number = file[g].counter
      BY <1>7, <2>2 DEF FileFits
    <3>2. /\ file[g].current \in FileIds
          /\ version[file[g].current].of = g
          /\ version[file[g].current].number = file[g].counter
      BY <3>1 DEF LocalInv, FileFits
    <3>3. file[g].current # r
      BY <1>2, <1>9, <3>2
    <3>4. QED BY <1>7, <3>2, <3>3
  <2>3. QED BY <2>1, <2>2
<1>11. ASSUME NEW v \in FileIds PROVE VersionFits(v)'
  <2>1. CASE v = r
    <3>1. number \in 1 .. number
      BY <1>4
    <3>2. QED BY <1>8, <2>1, <3>1 DEF VersionFits
  <2>2. CASE v # r
    <3>1. SUFFICES ASSUME version[v].of # NoFile
                   PROVE  /\ file'[version[v].of].there
                          /\ version[v].number \in 1 .. file'[version[v].of].counter
      BY <1>7, <2>2 DEF VersionFits, Written
    <3>2. /\ file[version[v].of].there
          /\ version[v].number \in 1 .. file[version[v].of].counter
          /\ version[v].of \in FileIds
      BY <1>2, <3>1 DEF LocalInv, VersionFits, Written, VersionRow
    <3>3. CASE version[v].of = f
      <4>1. ~Creates(r)
        BY <1>1, <3>2, <3>3 DEF f
      <4>2. number = file[f].counter + 1 /\ file[f].counter \in Nat
        BY <1>2, <1>4, <3>2, <3>3, <4>1 DEF FileRow
      <4>3. version[v].number \in 1 .. number
        BY <3>2, <3>3, <4>2
      <4>4. QED BY <1>8, <3>3, <4>3
    <3>4. CASE version[v].of # f
      BY <1>7, <3>2, <3>4
    <3>5. QED BY <3>3, <3>4
  <2>3. QED BY <2>1, <2>2
<1>12. ASSUME NEW g \in FileIds PROVE g # r => file'[g].there = file[g].there
  <2>1. CASE g = f
    BY <1>1, <1>2, <1>8, <2>1 DEF f, FileRow
  <2>2. QED BY <1>7, <2>1
<1>13. ASSUME NEW g \in FileIds, file[g].there PROVE file'[g].there
  BY <1>7, <1>8, <1>13
<1>14. Written(r)'
  BY <1>1, <1>2, <1>8 DEF Written, f
<1>15. QED BY <1>7, <1>10, <1>11, <1>12, <1>13, <1>14 DEF FileIds

LEMMA CommitSteps ==
    ASSUME LocalInv, NEW r \in Requests, Commit(r) \/ CommitFails(r), UNCHANGED dir
    PROVE  LocalInv'
<1>1. /\ LocalTypes /\ request[r] \in RequestState
      /\ UploadFits(r) /\ ObjectFits(r) /\ PlaceFits(r)
      /\ UNCHANGED disk /\ job'.kind = job.kind /\ job' \in LocalJob
      /\ Stage(r) = "commit" /\ dir' \in {"live", "trash"}
  BY RequestHas, TroubleJob DEF Commit, CommitFails, Commits, At, Stage, LocalTypes
<1>2. (HasBody(r)' <=> HasBody(r)) /\ (Creates(r)' <=> Creates(r))
      /\ Leaving(r) \in {"cleanup", "ended"} /\ (Leaving(r) = "ended" => ~HasBody(r))
  BY <1>1 DEF HasBody, Creates, Kind, Leaving
<1>3. DiskFrame(r) /\ Upload(r)' = Upload(r) /\ Object(r)' = Object(r)
      /\ (r \in disk'.partial <=> r \in disk.partial)
  BY <1>1, DiskStays
<1>4. CASE Step(r, "orphan") /\ UNCHANGED <<file, version>>
  <2>1. QuietStep(r)
    BY <1>1, <1>4, StepIsQuiet DEF Stages, Uncommitted
  <2>2. QED BY <1>1, <1>4, <2>1, QuietInv
<1>5. ASSUME NEW new \in RequestState, request' = [request EXCEPT ![r] = new], Rows(r),
             new.spoilt = request[r].spoilt,
             \/ new.stage = Leaving(r)
             \/ new.stage = "orphan" /\ new.unsure
      PROVE  LocalInv'
  <2>1. SameBut(r, new)
    BY <1>1, <1>5, Moved
  <2>2. /\ Stage(r)' = new.stage /\ request'[r].unsure = new.unsure
        /\ request'[r].spoilt = request[r].spoilt
    BY <1>5, <2>1 DEF SameBut, Stage
  <2>3. /\ file' \in [FileIds -> FileRow] /\ version' \in [FileIds -> VersionRow]
        /\ \A f \in FileIds : FileFits(f)' /\ VersionFits(f)'
        /\ \A q \in Requests \ {r} :
              version'[q] = version[q] /\ file'[q].there = file[q].there
        /\ \A f \in FileIds : file[f].there => file'[f].there
        /\ Written(r)'
    BY <1>1, <1>5, RowsFit
  <2>4. UploadFits(r)'
    BY <1>1, <1>2, <1>3, <1>5, <2>2 DEF UploadFits
  <2>5. ObjectFits(r)'
    BY <1>1, <1>2, <1>3, <1>5, <2>2, <2>3 DEF ObjectFits
  <2>6. PlaceFits(r)'
    BY <1>2, <1>5, <2>2 DEF PlaceFits, Uncommitted, Placed
  <2>7. RequestFits(r)'
    BY <2>4, <2>5, <2>6 DEF RequestFits
  <2>8. \A q \in Requests \ {r} : RequestFits(q)'
    BY <1>1, <1>3, <2>1, <2>3, OthersFit DEF SameBut, Others
  <2>9. LocalTypes'
    BY <1>1, <1>3, <2>1, <2>3 DEF LocalTypes, SameBut, DiskFrame
  <2>10. Object(Old)' = "whole"
    BY <1>3 DEF LocalInv, DiskFrame
  <2>11. QED BY <2>3, <2>7, <2>8, <2>9, <2>10 DEF LocalInv
<1>6. CASE Rows(r) /\ Step(r, Leaving(r))
  <2>. DEFINE new == [request[r] EXCEPT !.stage = Leaving(r)]
  <2>1. new \in RequestState /\ new.stage = Leaving(r) /\ new.spoilt = request[r].spoilt
    BY <1>1, <1>2 DEF RequestState, Stages
  <2>2. request' = [request EXCEPT ![r] = new]
    BY <1>6 DEF Step
  <2>3. QED BY <1>5, <1>6, <2>1, <2>2
<1>7. CASE Rows(r) /\ request' = [request EXCEPT ![r].stage = "orphan", ![r].unsure = TRUE]
  <2>. DEFINE new == [request[r] EXCEPT !.stage = "orphan", !.unsure = TRUE]
  <2>1. /\ new \in RequestState /\ new.stage = "orphan" /\ new.unsure
        /\ new.spoilt = request[r].spoilt
    BY <1>1 DEF RequestState, Stages
  <2>2. request' = [request EXCEPT ![r] = new]
    BY <1>7
  <2>3. QED BY <1>5, <1>7, <2>1, <2>2
<1>8. QED BY <1>4, <1>6, <1>7 DEF Commit, CommitFails

-----------------------------------------------------------------------------
(* The folder, a death of the process, and the whole.                      *)

LEMMA DieKeeps ==
    ASSUME LocalInv, Die
    PROVE  LocalInv'
<1>1. /\ LocalTypes /\ UNCHANGED <<dir, file, version, disk>>
      /\ job' \in LocalJob /\ job'.kind = job.kind
  BY TroubleJob DEF LocalInv, Die
<1>. DEFINE new(r) == [request[r] EXCEPT !.stage = "ended", !.spoilt = TRUE]
<1>2. ASSUME NEW r \in Requests
      PROVE  \/ request'[r] = request[r]
             \/ /\ request'[r] \in RequestState /\ request'[r].stage = "ended"
                /\ request'[r].spoilt /\ request'[r].unsure = request[r].unsure
  <2>1. request[r] \in RequestState
    BY <1>1 DEF LocalTypes
  <2>2. /\ new(r) \in RequestState /\ new(r).stage = "ended" /\ new(r).spoilt
        /\ new(r).unsure = request[r].unsure
    BY <2>1 DEF RequestState, Stages
  <2>3. request'[r] \in {request[r], new(r)}
    BY DEF Die
  <2>. HIDE DEF new
  <2>4. QED BY <2>2, <2>3
<1>3. request' \in [Requests -> RequestState]
  <2>1. \A r \in Requests : request'[r] \in RequestState
    BY <1>1, <1>2 DEF LocalTypes
  <2>2. request' = [r \in Requests |-> request'[r]]
    BY DEF Die
  <2>3. QED BY <2>1, <2>2
<1>4. ASSUME NEW r \in Requests PROVE RequestFits(r)'
  <2>1. RequestFits(r) /\ Upload(r)' = Upload(r) /\ Object(r)' = Object(r)
        /\ disk'.partial = disk.partial /\ Written(r)' = Written(r)
        /\ (HasBody(r)' <=> HasBody(r)) /\ (Creates(r)' <=> Creates(r))
    BY <1>1 DEF LocalInv, Upload, Object, Written, HasBody, Creates, Kind
  <2>2. CASE request'[r] = request[r]
    <3>1. UploadFits(r)'
      BY <2>1, <2>2 DEF RequestFits, UploadFits, Stage
    <3>2. ObjectFits(r)'
      BY <2>1, <2>2 DEF RequestFits, ObjectFits, Stage
    <3>3. PlaceFits(r)'
      BY <1>1, <2>1, <2>2 DEF RequestFits, PlaceFits, Stage
    <3>4. QED BY <3>1, <3>2, <3>3 DEF RequestFits
  <2>3. CASE request'[r].stage = "ended" /\ request'[r].spoilt
             /\ request'[r].unsure = request[r].unsure
    <3>1. UploadFits(r)'
      BY <2>1, <2>3 DEF RequestFits, UploadFits, Stage
    <3>2. ObjectFits(r)'
      BY <2>1, <2>3 DEF RequestFits, ObjectFits, Stage
    <3>3. PlaceFits(r)'
      BY <2>3 DEF PlaceFits, Stage, Uncommitted, Placed
    <3>4. QED BY <3>1, <3>2, <3>3 DEF RequestFits
  <2>4. QED BY <1>2, <2>2, <2>3
<1>5. \A f \in FileIds : FileFits(f)' /\ VersionFits(f)'
  BY <1>1 DEF LocalInv, FileFits, VersionFits, Written
<1>6. LocalTypes'
  BY <1>1, <1>3 DEF LocalTypes
<1>7. Object(Old)' = "whole"
  BY <1>1 DEF LocalInv, Object
<1>8. QED BY <1>4, <1>5, <1>6, <1>7 DEF LocalInv

\* Of the next steps and of the steps that change nothing.
LEMMA LocalStep == LocalInv /\ [LocalNext]_localVars => LocalInv'
<1>. SUFFICES ASSUME LocalInv, [LocalNext]_localVars PROVE LocalInv'
  OBVIOUS
<1>1. LocalTypes
  BY DEF LocalInv
<1>2. CASE UNCHANGED localVars
  <2>1. UNCHANGED <<job, dir, file, version, disk, request>>
    BY <1>2 DEF localVars
  <2>2. LocalTypes'
    BY <1>1, <2>1 DEF LocalTypes
  <2>3. \A f \in FileIds : FileFits(f)' /\ VersionFits(f)'
    BY <2>1 DEF LocalInv, FileFits, VersionFits, Written
  <2>4. ASSUME NEW r \in Requests PROVE RequestFits(r)'
    <3>1. RequestFits(r)
      BY DEF LocalInv
    <3>2. UploadFits(r)'
      BY <2>1, <3>1 DEF RequestFits, UploadFits, Stage, HasBody, Kind, Upload
    <3>3. ObjectFits(r)'
      BY <2>1, <3>1 DEF RequestFits, ObjectFits, Stage, Object, Written
    <3>4. PlaceFits(r)'
      BY <2>1, <3>1 DEF RequestFits, PlaceFits, Stage, Creates, Kind, Written
    <3>5. QED BY <3>2, <3>3, <3>4 DEF RequestFits
  <2>5. Object(Old)' = "whole"
    BY <2>1 DEF LocalInv, Object
  <2>6. QED BY <2>2, <2>3, <2>4, <2>5 DEF LocalInv
<1>3. ASSUME NEW r \in Requests, QuietStep(r), UNCHANGED <<dir, file, version>>,
             Trouble \/ UNCHANGED job
      PROVE  LocalInv'
  <2>1. dir' \in {"live", "trash"}
    BY <1>1, <1>3 DEF LocalTypes
  <2>2. QED BY <1>1, <1>3, <2>1, TroubleJob, QuietInv
<1>4. ASSUME NEW r \in Requests,
             \/ Arrive(r) \/ FilePart(r) \/ BadField(r) \/ FileIsWritten(r) \/ FileFails(r)
             \/ Abort(r) \/ ParserFinish(r) \/ ReceiveSettles(r)
      PROVE  LocalInv'
  <2>1. QuietStep(r)
    BY <1>4, ReceiveSteps, EarlySteps
  <2>2. UNCHANGED <<dir, file, version>> /\ (Trouble \/ UNCHANGED job)
    BY <1>4 DEF Arrive, FilePart, BadField, FileIsWritten, FileFails, Abort, ParserFinish,
       ReceiveSettles, OnlyRequests
  <2>3. QED BY <1>3, <2>1, <2>2
<1>5. ASSUME NEW r \in Requests,
             \/ Check(r) \/ Put(r) \/ PutFails(r) \/ Link(r) \/ Tidy(r) \/ TidyFails(r)
      PROVE  LocalInv'
  <2>1. QuietStep(r)
    BY <1>5, CheckQuiet, CopySteps, TidySteps
  <2>2. UNCHANGED <<dir, file, version>> /\ (Trouble \/ UNCHANGED job)
    BY <1>5 DEF Check, Put, PutFails, Link, Tidy, TidyFails, OnlyRequests
  <2>3. QED BY <1>3, <2>1, <2>2
<1>6. ASSUME NEW r \in Requests,
             \/ ChooseName(r) \/ NoPlace(r) \/ Refused(r) \/ Conflict(r)
             \/ DeleteOrphan(r) \/ CannotDelete(r) \/ Cleanup(r)
      PROVE  LocalInv'
  <2>1. QuietStep(r)
    BY <1>6, EarlySteps, NamingSteps, RemovalSteps
  <2>2. UNCHANGED <<dir, file, version>> /\ (Trouble \/ UNCHANGED job)
    BY <1>6 DEF ChooseName, NoPlace, Refused, Conflict, DeleteOrphan, CannotDelete, Cleanup,
       OnlyRequests
  <2>3. QED BY <1>3, <2>1, <2>2
<1>7. ASSUME NEW r \in Requests, Commit(r) \/ CommitFails(r)
      PROVE  LocalInv'
  BY <1>7, CommitSteps DEF Commit, CommitFails
<1>8. CASE ToggleFolder
  <2>1. /\ UNCHANGED <<file, version, disk, request>> /\ dir' \in {"live", "trash"}
        /\ job' \in LocalJob /\ job'.kind = job.kind
    BY <1>1, <1>8, TroubleJob DEF ToggleFolder
  <2>2. LocalTypes'
    BY <1>1, <2>1 DEF LocalTypes
  <2>3. \A f \in FileIds : FileFits(f)' /\ VersionFits(f)'
    BY <2>1 DEF LocalInv, FileFits, VersionFits, Written
  <2>4. ASSUME NEW r \in Requests PROVE RequestFits(r)'
    <3>1. RequestFits(r)
      BY DEF LocalInv
    <3>2. UploadFits(r)'
      BY <2>1, <3>1 DEF RequestFits, UploadFits, Stage, HasBody, Kind, Upload
    <3>3. ObjectFits(r)'
      BY <2>1, <3>1 DEF RequestFits, ObjectFits, Stage, Object, Written
    <3>4. PlaceFits(r)'
      BY <2>1, <3>1 DEF RequestFits, PlaceFits, Stage, Creates, Kind, Written
    <3>5. QED BY <3>2, <3>3, <3>4 DEF RequestFits
  <2>5. Object(Old)' = "whole"
    BY <2>1 DEF LocalInv, Object
  <2>6. QED BY <2>2, <2>3, <2>4, <2>5 DEF LocalInv
<1>9. CASE Die
  BY <1>9, DieKeeps
<1>10. QED BY <1>2, <1>4, <1>5, <1>6, <1>7, <1>8, <1>9 DEF LocalNext

LEMMA LocalStart == LocalInit => LocalInv
<1>. SUFFICES ASSUME LocalInit PROVE LocalInv
  OBVIOUS
<1>1. /\ Old \notin Requests /\ NoFile \notin FileIds /\ Old \in FileIds
      /\ Requests \subseteq FileIds
  BY LocalConstants DEF FileIds
<1>2. job \in LocalJob
  BY LocalConstants DEF LocalInit, LocalJob
<1>3. /\ file \in [FileIds -> FileRow] /\ version \in [FileIds -> VersionRow]
      /\ file[Old].there /\ file[Old].current = Old /\ file[Old].counter = 1
      /\ version[Old].of = Old /\ version[Old].number = 1
      /\ \A f \in FileIds \ {Old} : ~file[f].there /\ version[f].of = NoFile
  BY <1>1 DEF LocalInit, FileRow, VersionRow
<1>4. /\ disk \in LocalDisk /\ disk.partial = {} /\ disk.object[Old] = "whole"
      /\ \A r \in Requests : disk.upload[r] = "absent" /\ disk.object[r] = "absent"
  BY <1>1 DEF LocalInit, LocalDisk, Bytes
<1>5. NewBody \in Body
  <2>1. 0 \in 0..2
    OBVIOUS
  <2>2. QED BY <2>1 DEF NewBody, Body
<1>6. /\ request \in [Requests -> RequestState]
      /\ \A r \in Requests : request[r].stage = "idle" /\ request[r].body = NewBody
  <2>1. 0 \in 0 .. MaxTries
    BY LocalConstants
  <2>2. QED BY <1>5, <2>1 DEF LocalInit, RequestState, Stages, Bytes
<1>7. LocalTypes
  BY <1>2, <1>3, <1>4, <1>6 DEF LocalTypes, LocalInit
<1>8. \A f \in FileIds : FileFits(f) /\ VersionFits(f)
  <2>1. FileFits(Old) /\ VersionFits(Old)
    BY <1>1, <1>3 DEF FileFits, VersionFits
  <2>2. \A f \in FileIds \ {Old} : FileFits(f) /\ VersionFits(f)
    BY <1>3 DEF FileFits, VersionFits, Written
  <2>3. QED BY <2>1, <2>2
<1>9. ASSUME NEW r \in Requests PROVE RequestFits(r)
  <2>1. /\ Stage(r) = "idle" /\ request[r].body = NewBody /\ Upload(r) = "absent"
        /\ Object(r) = "absent" /\ r \notin disk.partial /\ ~Written(r) /\ ~file[r].there
    BY <1>1, <1>3, <1>4, <1>6 DEF Stage, Upload, Object, Written
  <2>2. UploadFits(r)
    BY <2>1 DEF UploadFits
  <2>3. ObjectFits(r)
    BY <2>1 DEF ObjectFits
  <2>4. PlaceFits(r)
    BY <2>1 DEF PlaceFits, Placed
  <2>5. QED BY <2>2, <2>3, <2>4 DEF RequestFits
<1>10. QED BY <1>4, <1>7, <1>8, <1>9 DEF LocalInv, Object

LEMMA LocalAlways == LocalSpec => []LocalInv
BY LocalStart, LocalStep, PTL DEF LocalSpec

\* The variables of local files keep their types, and the rows refer to each
\* other: a file that is there has its current version, whose number is the
\* file's counter, and no version of it has a number above that.
THEOREM LocalTypesHold == LocalSpec => []LocalTypeOK
<1>1. LocalInv => LocalTypeOK
  <2>. SUFFICES ASSUME LocalInv PROVE LocalTypeOK
    OBVIOUS
  <2>1. LocalTypes
    BY DEF LocalInv
  <2>2. ASSUME NEW f \in FileIds, file[f].there
        PROVE  /\ version[file[f].current].of = f
               /\ version[file[f].current].number = file[f].counter
               /\ \A v \in FileIds : version[v].of = f => version[v].number \in 1..file[f].counter
    <3>1. FileFits(f) /\ NoFile \notin FileIds
      BY LocalConstants DEF LocalInv
    <3>2. \A v \in FileIds : VersionFits(v)
      BY DEF LocalInv
    <3>3. QED BY <2>2, <3>1, <3>2 DEF FileFits, VersionFits, Written
  <2>3. QED BY <2>1, <2>2 DEF LocalTypes, LocalTypeOK, LocalJob, LocalDisk
<1>2. QED BY <1>1, LocalAlways, PTL

\* The tables and the disk agree, whatever the parser, the disk, the database
\* and the death of the process do: every version has all its bytes, unless the
\* answer to its commit was lost; and what a request leaves behind when nothing
\* kept it from its clean-up are the bytes of a version.
THEOREM BytesMatch == LocalSpec => []BytesMatchRows
<1>1. LocalInv => BytesMatchRows
  <2>. SUFFICES ASSUME LocalInv PROVE BytesMatchRows
    OBVIOUS
  <2>1. ASSUME NEW v \in FileIds, version[v].of # NoFile
        PROVE  disk.object[v] = "whole" \/ (v \in Requests /\ request[v].unsure)
    <3>1. CASE v \in Requests
      BY <2>1, <3>1 DEF LocalInv, RequestFits, ObjectFits, Written, Object
    <3>2. CASE v = Old
      BY <3>2 DEF LocalInv, Object
    <3>3. QED BY <3>1, <3>2 DEF FileIds
  <2>2. ASSUME NEW r \in Requests, At(r, "ended"), ~request[r].spoilt
        PROVE  /\ disk.upload[r] = "absent" /\ r \notin disk.partial
               /\ disk.object[r] # "absent" => version[r].of # NoFile
    BY <2>2 DEF LocalInv, RequestFits, UploadFits, ObjectFits, At, Stage, Written, Object, Upload
  <2>3. QED BY <2>1, <2>2 DEF BytesMatchRows
<1>2. QED BY <1>1, LocalAlways, PTL
-----------------------------------------------------------------------------
(* The backfill: what a command may rely on where it stands.               *)

BackfillCorpus == [left : Nat, buried : SUBSET Corpus, file : [Corpus -> CorpusFile]]
BackfillTypes ==
    /\ corpus \in BackfillCorpus
    /\ index \in [Corpus -> Document]
    /\ task \in [Corpus -> [Positions -> TaskState]]
    /\ command \in [Commands -> Command]

Covered(c, f) ==
    \/ index[f] = Current(f)
    \/ HasRevisions(f) /\ task[f][File(f).sequence] # "none"
    \/ f \in command[c].failed \cup corpus.buried

\* The rows of the batch's second page have been read.
ReadingLegacy == {"document", "extract", "check", "write"}
CommandFits(c) ==
    /\ command[c].pc = "idle" => command[c].cursor = 0
    /\ command[c].pc \in ReadingLegacy => command[c].tasks = {}
    /\ \A item \in command[c].tasks : item.at # 0

\* A page that ended at `last` has read f.
Within(last, f) == last = 0 \/ f <= last
ItemOf(f) == [file |-> f, at |-> Current(f).at]
SteadyFits(c, f) ==
    /\ Meant(f) /\ command[c].pc # "idle"
    /\ f <= command[c].cursor \/ command[c].pc = "done" => Covered(c, f)
    /\ /\ command[c].pc \in ReadingLegacy \cup {"tasks"} /\ HasRevisions(f)
       /\ Within(command[c].last.provider, f)
       => Covered(c, f) \/ ItemOf(f) \in command[c].tasks
    /\ /\ command[c].pc \in ReadingLegacy /\ IsLegacy(f)
       /\ Within(command[c].last.legacy, f)
       => Covered(c, f) \/ ItemOf(f) \in command[c].legacy

BackfillInv ==
    /\ BackfillTypes
    /\ \A f \in Corpus : task[f][0] = "none"
    /\ \A c \in Commands : CommandFits(c)
    /\ \A c \in Commands : \A f \in command[c].steady : SteadyFits(c, f)

-----------------------------------------------------------------------------
(* The backfill: what a step leaves as it was.                             *)

\* A file that a step does not change stays covered.
Keeps(f) ==
    /\ File(f)' = File(f)
    /\ \A s \in Positions : task[f][s] # "none" => task'[f][s] # "none"
    /\ \/ index'[f] = Current(f) \/ f \in corpus'.buried
       \/ index'[f] = index[f] /\ f \notin corpus.buried

LEMMA SameFile ==
    ASSUME NEW f \in Corpus, File(f)' = File(f)
    PROVE  /\ Current(f)' = Current(f) /\ (HasRevisions(f)' <=> HasRevisions(f))
           /\ (IsLegacy(f)' <=> IsLegacy(f)) /\ (Meant(f)' <=> Meant(f))
           /\ ItemOf(f)' = ItemOf(f)
BY DEF Current, HasRevisions, IsLegacy, Meant, ItemOf

LEMMA FileFacts ==
    ASSUME BackfillTypes, NEW f \in Corpus
    PROVE  /\ File(f) \in CorpusFile /\ f \in Nat /\ f # 0
           /\ File(f).sequence \in Positions /\ File(f).version \in Positions
           /\ Current(f).at \in Positions
           /\ HasRevisions(f) => Current(f).at # 0
<1>1. File(f) \in CorpusFile /\ f \in Nat /\ f # 0
  BY BackfillConstants DEF BackfillTypes, BackfillCorpus, File
<1>2. File(f).sequence \in Positions /\ File(f).version \in Positions
  BY <1>1 DEF CorpusFile
<1>3. Current(f).at \in {File(f).sequence, File(f).version}
      /\ (HasRevisions(f) => Current(f).at = File(f).sequence)
  BY DEF Current
<1>4. HasRevisions(f) => File(f).sequence # 0
  BY <1>2, BackfillConstants DEF HasRevisions, Positions
<1>5. QED BY <1>1, <1>2, <1>3, <1>4

LEMMA CoveredStays ==
    ASSUME BackfillTypes, NEW c \in Commands, NEW f \in Corpus, Keeps(f), Covered(c, f),
           command[c].failed \subseteq command'[c].failed
    PROVE  Covered(c, f)'
<1>1. Current(f)' = Current(f) /\ (HasRevisions(f)' <=> HasRevisions(f)) /\ File(f)' = File(f)
  BY SameFile DEF Keeps
<1>2. CASE HasRevisions(f) /\ task[f][File(f).sequence] # "none"
  BY <1>1, <1>2, FileFacts DEF Keeps, Covered
<1>3. CASE index[f] = Current(f) \/ f \in command[c].failed \/ f \in corpus.buried
  BY <1>1, <1>3 DEF Keeps, Covered
<1>4. QED BY <1>2, <1>3 DEF Covered

\* A command that does not move, and a file it still takes for steady.
LEMMA SteadyStays ==
    ASSUME BackfillInv, NEW c \in Commands, NEW f \in command[c].steady, Keeps(f),
           \A k \in {"pc", "cursor", "tasks", "legacy", "last", "failed"} :
              command'[c][k] = command[c][k]
    PROVE  SteadyFits(c, f)'
<1>1. /\ command'[c].pc = command[c].pc /\ command'[c].cursor = command[c].cursor
      /\ command'[c].tasks = command[c].tasks /\ command'[c].legacy = command[c].legacy
      /\ command'[c].last = command[c].last /\ command'[c].failed = command[c].failed
  OBVIOUS
<1>2. BackfillTypes /\ SteadyFits(c, f) /\ f \in Corpus
  BY DEF BackfillInv, BackfillTypes, Command
<1>3. Covered(c, f) => Covered(c, f)'
  BY <1>1, <1>2, CoveredStays
<1>4. /\ ItemOf(f)' = ItemOf(f) /\ (HasRevisions(f)' <=> HasRevisions(f))
      /\ (IsLegacy(f)' <=> IsLegacy(f)) /\ (Meant(f)' <=> Meant(f))
  BY <1>2, SameFile DEF Keeps
<1>5. QED BY <1>1, <1>2, <1>3, <1>4 DEF SteadyFits

LEMMA FitStays ==
    ASSUME BackfillInv, NEW c \in Commands,
           \A k \in {"pc", "cursor", "tasks"} : command'[c][k] = command[c][k]
    PROVE  CommandFits(c)'
<1>1. /\ command'[c].pc = command[c].pc /\ command'[c].cursor = command[c].cursor
      /\ command'[c].tasks = command[c].tasks
  OBVIOUS
<1>2. CommandFits(c)
  BY DEF BackfillInv
<1>3. QED BY <1>1, <1>2 DEF CommandFits

\* A step of one command, and what is left to show of it.
OwnStep(c, row) ==
    /\ row \in Command /\ Advance(c, row)
    /\ corpus' \in BackfillCorpus /\ index' \in [Corpus -> Document]
    /\ task' \in [Corpus -> [Positions -> TaskState]]
    /\ \A f \in Corpus : task'[f][0] = "none" /\ Keeps(f)
    /\ CommandFits(c)'
    /\ \A f \in row.steady : SteadyFits(c, f)'

LEMMA OwnInv ==
    ASSUME BackfillInv, NEW c \in Commands, NEW row, OwnStep(c, row)
    PROVE  BackfillInv'
<1>1. /\ command' \in [Commands -> Command] /\ command'[c] = row
      /\ \A b \in Commands \ {c} : command'[b] = command[b]
  BY DEF BackfillInv, BackfillTypes, OwnStep, Advance
<1>2. BackfillTypes'
  BY <1>1 DEF OwnStep, BackfillTypes
<1>3. \A b \in Commands : CommandFits(b)'
  BY <1>1, FitStays DEF OwnStep
<1>4. ASSUME NEW b \in Commands \ {c}, NEW f \in command[b].steady PROVE SteadyFits(b, f)'
  <2>1. f \in Corpus
    BY DEF BackfillInv, BackfillTypes, Command
  <2>2. QED BY <1>1, <2>1, SteadyStays DEF OwnStep
<1>5. \A b \in Commands : \A f \in command'[b].steady : SteadyFits(b, f)'
  BY <1>1, <1>4 DEF OwnStep
<1>6. QED BY <1>2, <1>3, <1>5 DEF OwnStep, BackfillInv

LEMMA NothingWritten ==
    ASSUME BackfillInv, UNCHANGED <<corpus, index, task>>
    PROVE  /\ corpus' \in BackfillCorpus /\ index' \in [Corpus -> Document]
           /\ task' \in [Corpus -> [Positions -> TaskState]]
           /\ \A f \in Corpus : task'[f][0] = "none" /\ Keeps(f)
<1>1. BackfillTypes /\ \A f \in Corpus : task[f][0] = "none"
  BY DEF BackfillInv
<1>2. QED BY <1>1 DEF BackfillTypes, Keeps, File

LEMMA CommandFacts ==
    ASSUME BackfillInv, NEW c \in Commands
    PROVE  /\ BackfillTypes /\ command[c] \in Command /\ CommandFits(c)
           /\ \A f \in command[c].steady : f \in Corpus /\ SteadyFits(c, f)
           /\ \A item \in command[c].tasks \cup command[c].legacy :
                 item.file \in Corpus /\ item.at \in Positions
BY DEF BackfillInv, BackfillTypes, Command, Item

-----------------------------------------------------------------------------
(* The backfill: the steps of a command.                                   *)

LEMMA CorpusNumbers == \A f \in Corpus \cup {0} : f \in Nat
<1>1. Corpus \subseteq Nat
  BY BackfillConstants
<1>2. QED BY <1>1

\* From a page: what is chosen, and within the page's end, has been taken.
LEMMA PageTakes ==
    ASSUME BackfillTypes, NEW c \in Commands, NEW chosen \in SUBSET Corpus,
           NEW taken \in SUBSET Corpus, NEW last \in Corpus \cup {0},
           Page(c, chosen, taken, last)
    PROVE  /\ taken \subseteq chosen
           /\ \A f \in chosen : f > command[c].cursor /\ Within(last, f) => f \in taken
<1>1. /\ Corpus \subseteq Nat \ {0} /\ command[c].cursor \in Corpus \cup {0}
  BY BackfillConstants DEF BackfillTypes, Command
<1>2. ASSUME NEW f \in chosen, f > command[c].cursor, Within(last, f), f \notin taken
      PROVE  FALSE
  <2>1. CASE Cardinality(taken) = BatchLimit
    <3>1. last \in taken /\ last < f /\ last # 0
      BY <1>1, <1>2, <2>1 DEF Page
    <3>2. f \in Nat /\ last \in Nat
      BY <1>2, CorpusNumbers
    <3>3. f <= last
      BY <1>2, <3>1 DEF Within
    <3>4. QED BY <3>1, <3>2, <3>3
  <2>2. CASE Cardinality(taken) # BatchLimit
    BY <1>2, <2>2 DEF Page
  <2>3. QED BY <2>1, <2>2
<1>3. taken \subseteq chosen
  BY DEF Page
<1>4. QED BY <1>2, <1>3

LEMMA ItemsFacts ==
    ASSUME BackfillTypes, NEW taken \in SUBSET Corpus
    PROVE  /\ ItemsOf(taken) \in SUBSET Item
           /\ \A f \in taken : ItemOf(f) \in ItemsOf(taken)
           /\ \A item \in ItemsOf(taken) : \E f \in taken : item = ItemOf(f)
BY FileFacts DEF ItemsOf, Item, ItemOf

LEMMA StartSteps ==
    ASSUME BackfillInv, NEW c \in Commands, StartCommand(c)
    PROVE  BackfillInv'
<1>. DEFINE steady == {f \in Corpus : Meant(f)}
            row == [command[c] EXCEPT !.pc = "provider", !.steady = steady]
<1>1. /\ command[c] \in Command /\ CommandFits(c) /\ command[c].pc = "idle"
      /\ UNCHANGED <<corpus, index, task>> /\ Advance(c, row) /\ BackfillTypes
  BY CommandFacts DEF StartCommand
<1>2. /\ row \in Command /\ row.pc = "provider" /\ row.steady = steady
      /\ row.cursor = command[c].cursor /\ row.tasks = command[c].tasks
  BY <1>1 DEF Command
<1>3. command'[c] = row
  BY <1>1 DEF Advance, BackfillTypes
<1>4. CommandFits(c)'
  BY <1>1, <1>2, <1>3 DEF CommandFits, ReadingLegacy
<1>5. ASSUME NEW f \in steady PROVE SteadyFits(c, f)'
  <2>1. Meant(f)'
    BY <1>1 DEF Meant, HasRevisions, IsLegacy, File
  <2>2. ~(f <= command'[c].cursor)
    BY <1>1, <1>2, <1>3, BackfillConstants DEF CommandFits
  <2>3. QED BY <1>2, <1>3, <2>1, <2>2 DEF SteadyFits, ReadingLegacy
<1>6. OwnStep(c, row)
  BY <1>1, <1>2, <1>4, <1>5, NothingWritten DEF OwnStep
<1>7. QED BY <1>6, OwnInv

\* What one command's step without a write owes to a steady file.
LEMMA ReadStep ==
    ASSUME BackfillInv, NEW c \in Commands, NEW row \in Command, Advance(c, row),
           UNCHANGED <<corpus, index, task>>,
           row.steady = command[c].steady, command[c].failed \subseteq row.failed,
           row.pc # "idle",
           row.pc \in ReadingLegacy => row.tasks = {},
           \A item \in row.tasks : item.at # 0,
           \A f \in row.steady :
              /\ f <= row.cursor \/ row.pc = "done" => Covered(c, f) \/ f \in row.failed
              /\ /\ row.pc \in ReadingLegacy \cup {"tasks"} /\ HasRevisions(f)
                 /\ Within(row.last.provider, f)
                 => Covered(c, f) \/ f \in row.failed \/ ItemOf(f) \in row.tasks
              /\ /\ row.pc \in ReadingLegacy /\ IsLegacy(f)
                 /\ Within(row.last.legacy, f)
                 => Covered(c, f) \/ f \in row.failed \/ ItemOf(f) \in row.legacy
    PROVE  BackfillInv'
<1>1. BackfillTypes
  BY DEF BackfillInv
<1>2. command'[c] = row
  BY <1>1 DEF Advance, BackfillTypes
<1>3. CommandFits(c)'
  BY <1>2 DEF CommandFits
<1>4. ASSUME NEW f \in row.steady PROVE SteadyFits(c, f)'
  <2>1. f \in Corpus /\ SteadyFits(c, f) /\ Keeps(f)
    BY CommandFacts, NothingWritten
  <2>2. Covered(c, f) \/ f \in row.failed => Covered(c, f)'
    <3>1. CASE Covered(c, f)
      BY <1>1, <1>2, <2>1, <3>1, CoveredStays
    <3>2. CASE f \in row.failed
      BY <1>2, <3>2 DEF Covered
    <3>3. QED BY <3>1, <3>2
  <2>3. /\ ItemOf(f)' = ItemOf(f) /\ (HasRevisions(f)' <=> HasRevisions(f))
        /\ (IsLegacy(f)' <=> IsLegacy(f)) /\ (Meant(f)' <=> Meant(f))
    BY <2>1, SameFile DEF Keeps
  <2>4. QED BY <1>2, <2>1, <2>2, <2>3 DEF SteadyFits
<1>5. OwnStep(c, row)
  BY <1>3, <1>4, NothingWritten DEF OwnStep
<1>6. QED BY <1>5, OwnInv

LEMMA PageSteps ==
    ASSUME BackfillInv, NEW c \in Commands, ReadRevised(c) \/ ReadLegacy(c)
    PROVE  BackfillInv'
<1>1. /\ command[c] \in Command /\ CommandFits(c) /\ BackfillTypes
      /\ UNCHANGED <<corpus, index, task>>
  BY CommandFacts DEF ReadRevised, ReadLegacy
<1>2. command[c].cursor \in Nat /\ Corpus \subseteq Nat
  <2>1. command[c].cursor \in Corpus \cup {0}
    BY <1>1 DEF Command
  <2>2. QED BY <2>1, CorpusNumbers
<1>3. CASE ReadRevised(c)
  <2>. DEFINE chosen == {f \in Corpus : File(f).live /\ HasRevisions(f)}
  <2>1. PICK taken \in SUBSET Corpus, last \in Corpus \cup {0} :
           /\ Page(c, chosen, taken, last)
           /\ Advance(c, [command[c] EXCEPT !.pc = "tasks", !.tasks = ItemsOf(taken),
                                            !.last.provider = last])
    BY <1>3 DEF ReadRevised
  <2>. DEFINE ends == [command[c].last EXCEPT !.provider = last]
              row == [command[c] EXCEPT !.pc = "tasks", !.tasks = ItemsOf(taken), !.last = ends]
  <2>2. Advance(c, row)
    BY <2>1
  <2>3. ends \in [provider : Corpus \cup {0}, legacy : Corpus \cup {0}] /\ ends.provider = last
    BY <1>1 DEF Command
  <2>4. ItemsOf(taken) \in SUBSET Item
    BY <1>1, ItemsFacts
  <2>. HIDE DEF ends
  <2>5. /\ row \in Command /\ row.pc = "tasks" /\ row.tasks = ItemsOf(taken)
        /\ row.last = ends /\ row.cursor = command[c].cursor
        /\ row.steady = command[c].steady /\ row.failed = command[c].failed
    BY <1>1, <2>3, <2>4 DEF Command
  <2>. HIDE DEF row
  <2>6. taken \subseteq chosen
        /\ \A f \in chosen : f > command[c].cursor /\ Within(last, f) => f \in taken
    <3>1. chosen \in SUBSET Corpus
      OBVIOUS
    <3>2. QED BY <1>1, <2>1, <3>1, PageTakes
  <2>7. \A item \in row.tasks : item.at # 0
    <3>1. ASSUME NEW item \in ItemsOf(taken) PROVE item.at # 0
      <4>1. PICK f \in taken : item = ItemOf(f)
        BY <1>1, ItemsFacts
      <4>2. HasRevisions(f) /\ f \in Corpus
        BY <2>6
      <4>3. QED BY <1>1, <4>1, <4>2, FileFacts DEF ItemOf
    <3>2. QED BY <2>5, <3>1
  <2>8. ASSUME NEW f \in row.steady
        PROVE  /\ f <= row.cursor => Covered(c, f)
               /\ HasRevisions(f) /\ Within(row.last.provider, f)
                  => Covered(c, f) \/ ItemOf(f) \in row.tasks
    <3>1. f \in Corpus /\ SteadyFits(c, f)
      BY <2>5, CommandFacts
    <3>2. f <= command[c].cursor => Covered(c, f)
      BY <3>1 DEF SteadyFits
    <3>3. ASSUME HasRevisions(f), Within(last, f), f > command[c].cursor
          PROVE  ItemOf(f) \in row.tasks
      <4>1. f \in chosen
        BY <3>1, <3>3 DEF SteadyFits, Meant
      <4>2. f \in taken
        BY <2>6, <3>3, <4>1
      <4>3. QED BY <1>1, <2>5, <4>2, ItemsFacts
    <3>4. f <= command[c].cursor \/ f > command[c].cursor
      BY <1>2, <3>1
    <3>5. QED BY <2>3, <2>5, <3>2, <3>3, <3>4
  <2>9. QED BY <1>1, <2>2, <2>5, <2>7, <2>8, ReadStep DEF ReadingLegacy
<1>4. CASE ReadLegacy(c)
  <2>. DEFINE chosen == {f \in Corpus : File(f).live /\ IsLegacy(f)}
  <2>1. PICK taken \in SUBSET Corpus, last \in Corpus \cup {0} :
           /\ Page(c, chosen, taken, last)
           /\ Advance(c, [command[c] EXCEPT !.pc = "document", !.legacy = ItemsOf(taken),
                                            !.last.legacy = last])
    BY <1>4 DEF ReadLegacy
  <2>. DEFINE ends == [command[c].last EXCEPT !.legacy = last]
              row == [command[c] EXCEPT !.pc = "document", !.legacy = ItemsOf(taken), !.last = ends]
  <2>2. Advance(c, row) /\ command[c].pc = "tasks" /\ command[c].tasks = {}
    BY <1>4, <2>1 DEF ReadLegacy
  <2>3. ends \in [provider : Corpus \cup {0}, legacy : Corpus \cup {0}] /\ ends.legacy = last
        /\ ends.provider = command[c].last.provider
    BY <1>1 DEF Command
  <2>4. ItemsOf(taken) \in SUBSET Item
    BY <1>1, ItemsFacts
  <2>. HIDE DEF ends
  <2>5. /\ row \in Command /\ row.pc = "document" /\ row.legacy = ItemsOf(taken)
        /\ row.last = ends /\ row.cursor = command[c].cursor /\ row.tasks = {}
        /\ row.steady = command[c].steady /\ row.failed = command[c].failed
    BY <1>1, <2>2, <2>3, <2>4 DEF Command
  <2>. HIDE DEF row
  <2>6. taken \subseteq chosen
        /\ \A f \in chosen : f > command[c].cursor /\ Within(last, f) => f \in taken
    <3>1. chosen \in SUBSET Corpus
      OBVIOUS
    <3>2. QED BY <1>1, <2>1, <3>1, PageTakes
  <2>7. ASSUME NEW f \in row.steady
        PROVE  /\ f <= row.cursor => Covered(c, f)
               /\ HasRevisions(f) /\ Within(row.last.provider, f) => Covered(c, f)
               /\ IsLegacy(f) /\ Within(row.last.legacy, f)
                  => Covered(c, f) \/ ItemOf(f) \in row.legacy
    <3>1. f \in Corpus /\ SteadyFits(c, f)
      BY <2>5, CommandFacts
    <3>2. /\ f <= command[c].cursor => Covered(c, f)
          /\ HasRevisions(f) /\ Within(command[c].last.provider, f) => Covered(c, f)
      BY <2>2, <3>1 DEF SteadyFits
    <3>3. ASSUME IsLegacy(f), Within(last, f), f > command[c].cursor
          PROVE  ItemOf(f) \in row.legacy
      <4>1. f \in chosen
        BY <3>1, <3>3 DEF SteadyFits, Meant
      <4>2. f \in taken
        BY <2>6, <3>3, <4>1
      <4>3. QED BY <1>1, <2>5, <4>2, ItemsFacts
    <3>4. f <= command[c].cursor \/ f > command[c].cursor
      BY <1>2, <3>1
    <3>5. QED BY <2>3, <2>5, <3>2, <3>3, <3>4
  <2>8. QED BY <1>1, <2>2, <2>5, <2>7, ReadStep DEF ReadingLegacy
<1>5. QED BY <1>3, <1>4

LEMMA EnqueueSteps ==
    ASSUME BackfillInv, NEW c \in Commands, EnqueueTask(c)
    PROVE  BackfillInv'
<1>1. /\ command[c] \in Command /\ CommandFits(c) /\ BackfillTypes
      /\ UNCHANGED <<corpus, index>> /\ command[c].pc = "tasks"
  BY CommandFacts DEF EnqueueTask
<1>2. PICK item \in command[c].tasks :
         /\ Advance(c, [command[c] EXCEPT !.tasks = @ \ {item}])
         /\ \/ task' = task
               /\ \/ index[item.file] = [by |-> "revision", at |-> item.at]
                  \/ task[item.file][item.at] # "none"
            \/ task' = [task EXCEPT ![item.file][item.at] = "waiting"]
  BY DEF EnqueueTask
<1>. DEFINE row == [command[c] EXCEPT !.tasks = @ \ {item}]
<1>3. /\ row \in Command /\ row.pc = "tasks" /\ row.tasks = command[c].tasks \ {item}
      /\ row.last = command[c].last /\ row.cursor = command[c].cursor
      /\ row.steady = command[c].steady /\ row.failed = command[c].failed
  BY <1>1 DEF Command
<1>4. Advance(c, row)
  BY <1>2
<1>. HIDE DEF row
<1>5. command'[c] = row
  BY <1>1, <1>4 DEF Advance, BackfillTypes
<1>6. item.file \in Corpus /\ item.at \in Positions /\ item.at # 0
  BY <1>1, CommandFacts DEF CommandFits
<1>7. /\ task' \in [Corpus -> [Positions -> TaskState]]
      /\ \A f \in Corpus : task'[f][0] = "none"
      /\ \A f \in Corpus : \A s \in Positions : task[f][s] # "none" => task'[f][s] # "none"
  <2>1. /\ task \in [Corpus -> [Positions -> TaskState]]
        /\ \A f \in Corpus : task[f][0] = "none"
    BY DEF BackfillInv, BackfillTypes
  <2>2. CASE task' = task
    BY <2>1, <2>2
  <2>3. CASE task' = [task EXCEPT ![item.file][item.at] = "waiting"]
    <3>1. "waiting" \in TaskState /\ "waiting" # "none" /\ 0 \in Positions
      BY BackfillConstants DEF TaskState, Positions
    <3>2. task' = [task EXCEPT ![item.file] = [task[item.file] EXCEPT ![item.at] = "waiting"]]
      BY <2>3
    <3>3. QED BY <1>6, <2>1, <3>1, <3>2
  <2>4. QED BY <1>2, <2>2, <2>3
<1>8. \A f \in Corpus : Keeps(f)
  BY <1>1, <1>7 DEF Keeps, File
<1>9. CommandFits(c)'
  BY <1>1, <1>3, <1>5 DEF CommandFits, ReadingLegacy
<1>10. ASSUME NEW f \in row.steady PROVE SteadyFits(c, f)'
  <2>1. f \in Corpus /\ SteadyFits(c, f) /\ Keeps(f)
    BY <1>3, <1>8, CommandFacts
  <2>2. Covered(c, f) => Covered(c, f)'
    BY <1>1, <1>3, <1>5, <2>1, CoveredStays
  <2>3. /\ ItemOf(f)' = ItemOf(f) /\ (HasRevisions(f)' <=> HasRevisions(f))
        /\ (IsLegacy(f)' <=> IsLegacy(f)) /\ (Meant(f)' <=> Meant(f))
        /\ Current(f)' = Current(f) /\ File(f)' = File(f)
    BY <2>1, SameFile DEF Keeps
  <2>4. HasRevisions(f) /\ item = ItemOf(f) => Covered(c, f)'
    <3>1. SUFFICES ASSUME HasRevisions(f), item = ItemOf(f) PROVE Covered(c, f)'
      OBVIOUS
    <3>2. item.file = f /\ item.at = File(f).sequence
          /\ Current(f) = [by |-> "revision", at |-> File(f).sequence]
      BY <3>1 DEF ItemOf, Current
    <3>3. CASE index[f] = [by |-> "revision", at |-> File(f).sequence]
      BY <1>1, <2>3, <3>2, <3>3 DEF Covered
    <3>4. CASE task'[f][File(f).sequence] # "none"
      BY <2>3, <3>1, <3>4 DEF Covered
    <3>5. CASE task' = [task EXCEPT ![item.file][item.at] = "waiting"]
      <4>1. task'[f][File(f).sequence] = "waiting"
        BY <1>1, <1>6, <2>1, <3>2, <3>5 DEF BackfillTypes
      <4>2. QED BY <3>4, <4>1
    <3>6. QED BY <1>2, <3>2, <3>3, <3>4, <3>5
  <2>5. /\ command'[c].pc = "tasks" /\ command[c].pc = "tasks"
        /\ command'[c].tasks = command[c].tasks \ {item}
        /\ command'[c].last = command[c].last /\ command'[c].cursor = command[c].cursor
    BY <1>1, <1>3, <1>5
  <2>6. f <= command[c].cursor => Covered(c, f)
    BY <2>1 DEF SteadyFits
  <2>7. HasRevisions(f) /\ Within(command[c].last.provider, f)
        => Covered(c, f)' \/ ItemOf(f) \in command[c].tasks \ {item}
    <3>1. HasRevisions(f) /\ Within(command[c].last.provider, f)
          => Covered(c, f) \/ ItemOf(f) \in command[c].tasks
      BY <2>1, <2>5 DEF SteadyFits, ReadingLegacy
    <3>2. QED BY <2>2, <2>4, <3>1
  <2>8. Meant(f)'
    BY <2>1, <2>3 DEF SteadyFits
  <2>9. QED BY <2>2, <2>3, <2>5, <2>6, <2>7, <2>8 DEF SteadyFits, ReadingLegacy, Within
<1>11. OwnStep(c, row)
  BY <1>1, <1>3, <1>4, <1>7, <1>8, <1>9, <1>10 DEF OwnStep, BackfillTypes
<1>12. QED BY <1>11, OwnInv

\* A file of the second page that its command leaves behind.
LEMMA NextFileFacts ==
    ASSUME BackfillInv, NEW c \in Commands, NEW item \in command[c].legacy
    PROVE  /\ NextFile(c, item) \in Command /\ NextFile(c, item).pc = "document"
           /\ NextFile(c, item).legacy = command[c].legacy \ {item}
           /\ \A k \in {"tasks", "last", "cursor", "steady", "failed"} :
                 NextFile(c, item)[k] = command[c][k]
<1>1. command[c] \in Command
  BY CommandFacts
<1>2. QED BY <1>1 DEF NextFile, Command

\* Its item was read while the file was as it is.
LEMMA SteadyLegacy ==
    ASSUME BackfillInv, NEW c \in Commands, NEW f \in command[c].steady, IsLegacy(f)
    PROVE  /\ File(f).sequence = 0 /\ File(f).live /\ ~HasRevisions(f)
           /\ Current(f) = [by |-> "version", at |-> File(f).version]
           /\ ItemOf(f).file = f /\ ItemOf(f).at = File(f).version
<1>1. Meant(f) /\ ~HasRevisions(f)
  BY CommandFacts DEF SteadyFits, IsLegacy, HasRevisions
<1>2. QED BY <1>1 DEF IsLegacy, Meant, Current, ItemOf

\* The command reads of one file of the second page: it is done with it only if
\* it is covered.
LEMMA FileReadSteps ==
    ASSUME BackfillInv, NEW c \in Commands, NEW item \in command[c].legacy,
           LookAtDocument(c, item) \/ Extract(c, item) \/ CheckCurrent(c, item)
    PROVE  BackfillInv'
<1>1. /\ command[c] \in Command /\ CommandFits(c) /\ BackfillTypes
      /\ UNCHANGED <<corpus, index, task>> /\ command[c].pc \in ReadingLegacy
      /\ command[c].tasks = {}
  BY CommandFacts DEF LookAtDocument, Extract, CheckCurrent, AtItem, ReadingLegacy, CommandFits
<1>2. \A f \in command[c].steady : SteadyFits(c, f) /\ f \in Corpus
  BY CommandFacts
<1>3. ASSUME NEW pc \in {"extract", "check", "write"},
             Advance(c, [command[c] EXCEPT !.pc = pc])
      PROVE  BackfillInv'
  <2>. DEFINE row == [command[c] EXCEPT !.pc = pc]
  <2>1. /\ row \in Command /\ row.pc = pc /\ row.tasks = {} /\ row.legacy = command[c].legacy
        /\ row.last = command[c].last /\ row.cursor = command[c].cursor
        /\ row.steady = command[c].steady /\ row.failed = command[c].failed
    BY <1>1 DEF Command
  <2>. HIDE DEF row
  <2>2. \A f \in row.steady :
           /\ f <= row.cursor => Covered(c, f)
           /\ HasRevisions(f) /\ Within(row.last.provider, f) => Covered(c, f)
           /\ IsLegacy(f) /\ Within(row.last.legacy, f)
              => Covered(c, f) \/ ItemOf(f) \in row.legacy
    BY <1>1, <1>2, <2>1 DEF SteadyFits
  <2>3. Advance(c, row)
    BY <1>3 DEF row
  <2>4. row.pc # "idle" /\ row.pc # "done"
    BY <2>1
  <2>5. QED BY <1>1, <2>1, <2>2, <2>3, <2>4, ReadStep
<1>4. ASSUME NEW failed \in SUBSET {item.file}, NEW row,
             row = [NextFile(c, item) EXCEPT !.failed = @ \cup failed], Advance(c, row),
             \A f \in command[c].steady :
                IsLegacy(f) /\ item = ItemOf(f) => Covered(c, f) \/ f \in failed
      PROVE  BackfillInv'
  <2>1. /\ NextFile(c, item) \in Command /\ NextFile(c, item).pc = "document"
        /\ NextFile(c, item).legacy = command[c].legacy \ {item}
        /\ NextFile(c, item).tasks = {} /\ NextFile(c, item).last = command[c].last
        /\ NextFile(c, item).cursor = command[c].cursor
        /\ NextFile(c, item).steady = command[c].steady
        /\ NextFile(c, item).failed = command[c].failed
    BY <1>1, NextFileFacts
  <2>2. failed \subseteq Corpus
    BY CommandFacts
  <2>3. /\ row \in Command /\ row.pc = "document" /\ row.tasks = {}
        /\ row.legacy = command[c].legacy \ {item}
        /\ row.last = command[c].last /\ row.cursor = command[c].cursor
        /\ row.steady = command[c].steady /\ row.failed = command[c].failed \cup failed
    BY <1>4, <2>1, <2>2 DEF Command
  <2>4. \A f \in row.steady :
           /\ f <= row.cursor => Covered(c, f)
           /\ HasRevisions(f) /\ Within(row.last.provider, f) => Covered(c, f)
           /\ IsLegacy(f) /\ Within(row.last.legacy, f)
              => Covered(c, f) \/ f \in row.failed \/ ItemOf(f) \in row.legacy
    BY <1>1, <1>2, <1>4, <2>3 DEF SteadyFits
  <2>5. row.pc # "idle" /\ row.pc # "done"
    BY <2>3
  <2>6. QED BY <1>1, <1>4, <2>3, <2>4, <2>5, ReadStep
<1>5. ASSUME Advance(c, NextFile(c, item)),
             \A f \in command[c].steady : IsLegacy(f) /\ item = ItemOf(f) => Covered(c, f)
      PROVE  BackfillInv'
  <2>1. {} \in SUBSET {item.file}
    OBVIOUS
  <2>2. NextFile(c, item) = [NextFile(c, item) EXCEPT !.failed = @ \cup {}]
    <3>1. NextFile(c, item) \in Command
      BY NextFileFacts
    <3>2. QED BY <3>1 DEF Command
  <2>3. QED BY <1>4, <1>5, <2>1, <2>2
<1>6. CASE LookAtDocument(c, item)
  <2>1. CASE index[item.file] = [by |-> "version", at |-> item.at]
    <3>1. Advance(c, NextFile(c, item))
      BY <1>6, <2>1 DEF LookAtDocument
    <3>2. ASSUME NEW f \in command[c].steady, IsLegacy(f), item = ItemOf(f)
          PROVE  Covered(c, f)
      BY <2>1, <3>2, SteadyLegacy DEF Covered
    <3>3. QED BY <1>5, <3>1, <3>2
  <2>2. CASE index[item.file] # [by |-> "version", at |-> item.at]
    BY <1>3, <1>6, <2>2 DEF LookAtDocument
  <2>3. QED BY <2>1, <2>2
<1>7. CASE Extract(c, item)
  <2>1. CASE Advance(c, [command[c] EXCEPT !.pc = "check"])
    BY <1>3, <2>1
  <2>2. CASE Advance(c, [NextFile(c, item) EXCEPT !.failed = @ \cup {item.file}])
    <3>1. \A f \in command[c].steady : IsLegacy(f) /\ item = ItemOf(f) => f \in {item.file}
      BY DEF ItemOf
    <3>2. QED BY <1>4, <2>2, <3>1
  <2>3. QED BY <1>7, <2>1, <2>2 DEF Extract
<1>8. CASE CheckCurrent(c, item)
  <2>. DEFINE agrees == /\ File(item.file).sequence = 0 /\ File(item.file).version = item.at
                        /\ File(item.file).live
  <2>1. CASE agrees
    BY <1>3, <1>8, <2>1 DEF CheckCurrent
  <2>2. CASE ~agrees
    <3>1. Advance(c, NextFile(c, item))
      BY <1>8, <2>2 DEF CheckCurrent
    <3>2. ASSUME NEW f \in command[c].steady, IsLegacy(f), item = ItemOf(f)
          PROVE  FALSE
      BY <2>2, <3>2, SteadyLegacy
    <3>3. QED BY <1>5, <3>1, <3>2
  <2>3. QED BY <2>1, <2>2
<1>9. QED BY <1>6, <1>7, <1>8

LEMMA WriteSteps ==
    ASSUME BackfillInv, NEW c \in Commands, NEW item \in command[c].legacy, WriteDocument(c, item)
    PROVE  BackfillInv'
<1>. DEFINE row == NextFile(c, item)
            document == [by |-> "version", at |-> item.at]
<1>1. /\ command[c] \in Command /\ CommandFits(c) /\ BackfillTypes
      /\ task' = task /\ command[c].pc = "write" /\ command[c].tasks = {}
      /\ item.file \in Corpus /\ item.at \in Positions /\ Advance(c, row)
      /\ index' = [index EXCEPT ![item.file] = document]
  BY CommandFacts DEF WriteDocument, AtItem, ReadingLegacy, CommandFits
<1>2. corpus' = [corpus EXCEPT !.buried = IF document = Current(item.file) THEN @ \ {item.file}
                                          ELSE @ \cup {item.file}]
  BY DEF WriteDocument
<1>3. /\ corpus' \in BackfillCorpus /\ corpus'.file = corpus.file
      /\ document = Current(item.file) => corpus'.buried = corpus.buried \ {item.file}
      /\ document # Current(item.file) => corpus'.buried = corpus.buried \cup {item.file}
  BY <1>1, <1>2 DEF BackfillTypes, BackfillCorpus
<1>4. index' \in [Corpus -> Document] /\ index'[item.file] = document
      /\ \A f \in Corpus \ {item.file} : index'[f] = index[f]
  BY <1>1 DEF BackfillTypes, Document
<1>5. ASSUME NEW f \in Corpus PROVE Keeps(f)
  <2>1. File(f)' = File(f)
    BY <1>3 DEF File
  <2>2. \/ index'[f] = Current(f) \/ f \in corpus'.buried
        \/ index'[f] = index[f] /\ f \notin corpus.buried
    <3>1. CASE f = item.file
      BY <1>3, <1>4, <3>1
    <3>2. CASE f # item.file
      BY <1>3, <1>4, <3>2
    <3>3. QED BY <3>1, <3>2
  <2>3. QED BY <1>1, <2>1, <2>2 DEF Keeps
<1>6. /\ row \in Command /\ row.pc = "document" /\ row.tasks = {}
      /\ row.legacy = command[c].legacy \ {item}
      /\ row.last = command[c].last /\ row.cursor = command[c].cursor
      /\ row.steady = command[c].steady /\ row.failed = command[c].failed
  BY <1>1, NextFileFacts
<1>7. command'[c] = row
  BY <1>1 DEF Advance, BackfillTypes
<1>. HIDE DEF row
<1>8. CommandFits(c)'
  BY <1>6, <1>7 DEF CommandFits
<1>9. ASSUME NEW f \in row.steady PROVE SteadyFits(c, f)'
  <2>1. f \in Corpus /\ f \in command[c].steady /\ SteadyFits(c, f) /\ Keeps(f)
    BY <1>5, <1>6, CommandFacts
  <2>2. Covered(c, f) => Covered(c, f)'
    BY <1>1, <1>6, <1>7, <2>1, CoveredStays
  <2>3. /\ ItemOf(f)' = ItemOf(f) /\ (HasRevisions(f)' <=> HasRevisions(f))
        /\ (IsLegacy(f)' <=> IsLegacy(f)) /\ (Meant(f)' <=> Meant(f))
        /\ Current(f)' = Current(f)
    BY <2>1, SameFile DEF Keeps
  <2>4. IsLegacy(f) /\ item = ItemOf(f) => Covered(c, f)'
    <3>1. SUFFICES ASSUME IsLegacy(f), item = ItemOf(f) PROVE Covered(c, f)'
      OBVIOUS
    <3>2. item.file = f /\ document = Current(f)
      BY <2>1, <3>1, SteadyLegacy
    <3>3. QED BY <1>4, <2>3, <3>2 DEF Covered
  <2>5. /\ f <= command[c].cursor => Covered(c, f)
        /\ HasRevisions(f) /\ Within(command[c].last.provider, f) => Covered(c, f)
    BY <1>1, <2>1 DEF SteadyFits, ReadingLegacy
  <2>6. IsLegacy(f) /\ Within(command[c].last.legacy, f)
        => Covered(c, f)' \/ ItemOf(f) \in command[c].legacy \ {item}
    <3>1. IsLegacy(f) /\ Within(command[c].last.legacy, f)
          => Covered(c, f) \/ ItemOf(f) \in command[c].legacy
      BY <1>1, <2>1 DEF SteadyFits, ReadingLegacy
    <3>2. QED BY <2>2, <2>4, <3>1
  <2>7. Meant(f)'
    BY <2>1, <2>3 DEF SteadyFits
  <2>8. command'[c].pc = "document" /\ command'[c].legacy = command[c].legacy \ {item}
        /\ command'[c].last = command[c].last /\ command'[c].cursor = command[c].cursor
    BY <1>6, <1>7
  <2>9. QED BY <2>2, <2>3, <2>5, <2>6, <2>7, <2>8 DEF SteadyFits, ReadingLegacy, Within
<1>10. OwnStep(c, row)
  BY <1>1, <1>3, <1>4, <1>5, <1>6, <1>8, <1>9 DEF OwnStep, BackfillTypes, BackfillInv
<1>11. QED BY <1>10, OwnInv

\* The cursor that a batch answers with passes over no file that it has not read.
LEMMA AnswerSteps ==
    ASSUME BackfillInv, NEW c \in Commands, Answer(c)
    PROVE  BackfillInv'
<1>. DEFINE last == command[c].last
            next == NextCursor(last)
            row == [command[c] EXCEPT !.pc = IF next = 0 THEN "done" ELSE "provider", !.cursor = next]
<1>1. /\ command[c] \in Command /\ CommandFits(c) /\ BackfillTypes
      /\ UNCHANGED <<corpus, index, task>> /\ command[c].pc = "document"
      /\ command[c].legacy = {} /\ command[c].tasks = {} /\ Advance(c, row)
  BY CommandFacts DEF Answer, ReadingLegacy, CommandFits
<1>2. /\ last.provider \in Corpus \cup {0} /\ last.legacy \in Corpus \cup {0}
      /\ Corpus \subseteq Nat \ {0}
  BY <1>1, BackfillConstants DEF Command
<1>3. next \in Corpus \cup {0}
  BY <1>2 DEF NextCursor
<1>4. /\ next = 0 => last.provider = 0 /\ last.legacy = 0
      /\ \A f \in Corpus : next # 0 /\ f <= next => Within(last.provider, f) /\ Within(last.legacy, f)
  <2>1. next = 0 => last.provider = 0 /\ last.legacy = 0
    BY <1>2 DEF NextCursor
  <2>2. ASSUME NEW f \in Corpus, next # 0, f <= next
        PROVE  Within(last.provider, f) /\ Within(last.legacy, f)
    <3>1. f \in Nat /\ last.provider \in Nat /\ last.legacy \in Nat
      BY <1>2, CorpusNumbers
    <3>2. CASE last.provider = 0
      BY <2>2, <3>1, <3>2 DEF NextCursor, Within
    <3>3. CASE last.provider # 0 /\ (last.legacy = 0 \/ last.provider < last.legacy)
      BY <2>2, <3>1, <3>3 DEF NextCursor, Within
    <3>4. CASE last.provider # 0 /\ ~(last.legacy = 0 \/ last.provider < last.legacy)
      BY <2>2, <3>1, <3>4 DEF NextCursor, Within
    <3>5. QED BY <3>2, <3>3, <3>4
  <2>3. QED BY <2>1, <2>2
<1>5. /\ row \in Command /\ row.cursor = next /\ row.tasks = {}
      /\ row.pc = IF next = 0 THEN "done" ELSE "provider"
      /\ row.last = last /\ row.steady = command[c].steady /\ row.failed = command[c].failed
  BY <1>1, <1>3 DEF Command
<1>. HIDE DEF row, next, last
<1>6. ASSUME NEW f \in row.steady, f <= row.cursor \/ row.pc = "done" PROVE Covered(c, f)
  <2>1. f \in Corpus /\ SteadyFits(c, f)
    BY <1>5, CommandFacts
  <2>2. Within(last.provider, f) /\ Within(last.legacy, f)
    <3>1. CASE next = 0
      BY <1>4, <3>1 DEF Within
    <3>2. CASE next # 0
      BY <1>4, <1>5, <1>6, <2>1, <3>2
    <3>3. QED BY <3>1, <3>2
  <2>3. CASE HasRevisions(f)
    BY <1>1, <2>1, <2>2, <2>3 DEF SteadyFits, ReadingLegacy, last
  <2>4. CASE IsLegacy(f)
    BY <1>1, <2>1, <2>2, <2>4 DEF SteadyFits, ReadingLegacy, last
  <2>5. QED BY <2>1, <2>3, <2>4 DEF SteadyFits, Meant
<1>7. row.pc # "idle" /\ row.pc \notin ReadingLegacy \cup {"tasks"}
  BY <1>5 DEF ReadingLegacy
<1>8. QED BY <1>1, <1>5, <1>6, <1>7, ReadStep

LEMMA CommandSteps ==
    ASSUME BackfillInv, NEW c \in Commands, CommandStep(c)
    PROVE  BackfillInv'
BY StartSteps, PageSteps, EnqueueSteps, FileReadSteps, WriteSteps, AnswerSteps DEF CommandStep

-----------------------------------------------------------------------------
(* The backfill: the files meanwhile.                                      *)

\* A changed file is steady for no command; the others keep what they have.
LEMMA FileChanges ==
    ASSUME BackfillInv, NEW f \in Corpus, NEW row \in CorpusFile, Becomes(f, row),
           index' = index, task' \in [Corpus -> [Positions -> TaskState]],
           \A g \in Corpus : task'[g][0] = "none",
           \A g \in Corpus \ {f} : task'[g] = task[g]
    PROVE  BackfillInv'
<1>1. /\ BackfillTypes /\ corpus.left \in Nat /\ corpus.left > 0
  BY DEF BackfillInv, BackfillTypes, BackfillCorpus, Becomes
<1>2. /\ corpus' \in BackfillCorpus /\ corpus'.buried = corpus.buried
      /\ \A g \in Corpus \ {f} : corpus'.file[g] = corpus.file[g]
  <2>. DEFINE files == [corpus.file EXCEPT ![f] = row]
  <2>1. corpus' = [corpus EXCEPT !.file = files, !.left = corpus.left - 1]
    BY DEF Becomes
  <2>2. files \in [Corpus -> CorpusFile] /\ \A g \in Corpus \ {f} : files[g] = corpus.file[g]
    BY <1>1 DEF BackfillTypes, BackfillCorpus
  <2>3. corpus.left - 1 \in Nat
    BY <1>1
  <2>. HIDE DEF files
  <2>4. QED BY <1>1, <2>1, <2>2, <2>3 DEF BackfillTypes, BackfillCorpus
<1>3. ASSUME NEW c \in Commands
      PROVE  /\ command'[c] \in Command /\ command'[c].steady = command[c].steady \ {f}
             /\ \A k \in {"pc", "cursor", "tasks", "legacy", "last", "failed"} :
                   command'[c][k] = command[c][k]
  <2>1. command'[c] = [command[c] EXCEPT !.steady = @ \ {f}]
    BY DEF Becomes
  <2>2. /\ command'[c] \in Command /\ command'[c].steady = command[c].steady \ {f}
        /\ command'[c].pc = command[c].pc /\ command'[c].cursor = command[c].cursor
        /\ command'[c].tasks = command[c].tasks /\ command'[c].legacy = command[c].legacy
        /\ command'[c].last = command[c].last /\ command'[c].failed = command[c].failed
    <3>1. command[c] \in Command
      BY <1>1 DEF BackfillTypes
    <3>2. QED BY <2>1, <3>1 DEF Command
  <2>3. QED BY <2>2
<1>4. command' = [c \in Commands |-> command'[c]]
  BY DEF Becomes
<1>5. BackfillTypes'
  BY <1>1, <1>2, <1>3, <1>4 DEF BackfillTypes
<1>6. \A c \in Commands : CommandFits(c)'
  BY <1>3, FitStays
<1>7. ASSUME NEW c \in Commands, NEW g \in command'[c].steady PROVE SteadyFits(c, g)'
  <2>1. g \in command[c].steady /\ g \in Corpus \ {f}
    BY <1>3, CommandFacts
  <2>2. Keeps(g)
    BY <1>2, <2>1 DEF Keeps, File
  <2>3. QED BY <1>3, <2>1, <2>2, SteadyStays
<1>8. QED BY <1>5, <1>6, <1>7 DEF BackfillInv

LEMMA ChangeSteps ==
    ASSUME BackfillInv, NEW f \in Corpus,
           NewVersion(f) \/ Migrate(f) \/ NewRevision(f) \/ TrashOrRestore(f)
    PROVE  BackfillInv'
<1>1. /\ BackfillTypes /\ File(f) \in CorpusFile /\ File(f).sequence \in Positions
      /\ File(f).version \in Positions /\ task \in [Corpus -> [Positions -> TaskState]]
      /\ \A g \in Corpus : task[g][0] = "none"
  BY FileFacts DEF BackfillInv, BackfillTypes
<1>2. MaxContent \in Nat
  BY BackfillConstants
<1>3. CASE NewVersion(f)
  <2>1. File(f).version + 1 \in Positions
    BY <1>1, <1>2, <1>3 DEF NewVersion, Positions
  <2>2. [File(f) EXCEPT !.version = @ + 1] \in CorpusFile
    BY <1>1, <2>1 DEF CorpusFile
  <2>3. QED BY <1>1, <1>3, <2>2, FileChanges DEF NewVersion
<1>4. CASE Migrate(f)
  <2>1. [File(f) EXCEPT !.backing = "GOOGLE_DRIVE"] \in CorpusFile
    BY <1>1 DEF CorpusFile
  <2>2. QED BY <1>1, <1>4, <2>1, FileChanges DEF Migrate
<1>5. CASE NewRevision(f)
  <2>. DEFINE s == File(f).sequence + 1
              own == [task[f] EXCEPT ![s] = "waiting"]
  <2>1. s \in Positions /\ s # 0 /\ Becomes(f, [File(f) EXCEPT !.sequence = s])
        /\ task' = [task EXCEPT ![f] = own] /\ index' = index
    BY <1>1, <1>2, <1>5 DEF NewRevision, Positions
  <2>. HIDE DEF s
  <2>2. [File(f) EXCEPT !.sequence = s] \in CorpusFile
    BY <1>1, <2>1 DEF CorpusFile
  <2>3. own \in [Positions -> TaskState] /\ own[0] = "none"
    <3>1. "waiting" \in TaskState /\ 0 \in Positions
      BY <1>2 DEF TaskState, Positions
    <3>2. QED BY <1>1, <2>1, <3>1
  <2>. HIDE DEF own
  <2>4. /\ task' \in [Corpus -> [Positions -> TaskState]]
        /\ \A g \in Corpus : task'[g][0] = "none"
        /\ \A g \in Corpus \ {f} : task'[g] = task[g]
    BY <1>1, <2>1, <2>3
  <2>5. QED BY <2>1, <2>2, <2>4, FileChanges
<1>6. CASE TrashOrRestore(f)
  <2>1. [File(f) EXCEPT !.live = ~@] \in CorpusFile
    BY <1>1 DEF CorpusFile
  <2>2. QED BY <1>1, <1>6, <2>1, FileChanges DEF TrashOrRestore
<1>7. QED BY <1>3, <1>4, <1>5, <1>6

\* The worker publishes nothing but what the file holds.
LEMMA WorkerSteps ==
    ASSUME BackfillInv, NEW f \in Corpus, NEW s \in Positions, WorkerIndexes(f, s)
    PROVE  BackfillInv'
<1>1. /\ BackfillTypes /\ File(f) \in CorpusFile /\ task \in [Corpus -> [Positions -> TaskState]]
      /\ index \in [Corpus -> Document] /\ \A g \in Corpus : task[g][0] = "none"
      /\ UNCHANGED <<corpus, command>> /\ task[f][s] = "waiting"
  BY FileFacts DEF BackfillInv, BackfillTypes, WorkerIndexes
<1>2. s # 0 /\ s \in Nat
  BY <1>1, BackfillConstants DEF Positions
<1>3. /\ task' \in [Corpus -> [Positions -> TaskState]]
      /\ \A g \in Corpus : task'[g][0] = "none"
      /\ \A g \in Corpus, r \in Positions : task[g][r] # "none" => task'[g][r] # "none"
  <2>. DEFINE own == [task[f] EXCEPT ![s] = "done"]
  <2>1. task' = [task EXCEPT ![f] = own]
    BY DEF WorkerIndexes
  <2>2. "done" \in TaskState /\ "done" # "none" /\ 0 \in Positions
    BY BackfillConstants DEF TaskState, Positions
  <2>3. own \in [Positions -> TaskState] /\ own[0] = "none"
        /\ \A r \in Positions : task[f][r] # "none" => own[r] # "none"
    BY <1>1, <1>2, <2>2
  <2>. HIDE DEF own
  <2>4. QED BY <1>1, <2>1, <2>3
<1>4. /\ index' \in [Corpus -> Document]
      /\ \A g \in Corpus : index'[g] = index[g] \/ index'[g] = Current(g)
  <2>. DEFINE document == [by |-> "revision", at |-> s]
  <2>1. CASE File(f).sequence = s /\ File(f).live
    <3>1. document \in Document /\ index' = [index EXCEPT ![f] = document]
      BY <2>1 DEF Document, WorkerIndexes
    <3>2. document = Current(f)
      BY <1>2, <2>1 DEF Current, HasRevisions
    <3>. HIDE DEF document
    <3>3. QED BY <1>1, <3>1, <3>2
  <2>2. CASE ~(File(f).sequence = s /\ File(f).live)
    BY <1>1, <2>2 DEF WorkerIndexes
  <2>3. QED BY <2>1, <2>2
<1>5. \A g \in Corpus : Keeps(g)
  BY <1>1, <1>3, <1>4 DEF Keeps, File
<1>6. BackfillTypes'
  BY <1>1, <1>3, <1>4 DEF BackfillTypes
<1>7. \A c \in Commands : CommandFits(c)'
  BY <1>1, FitStays
<1>8. ASSUME NEW c \in Commands, NEW g \in command'[c].steady PROVE SteadyFits(c, g)'
  <2>1. g \in command[c].steady /\ g \in Corpus
    BY <1>1, CommandFacts
  <2>2. QED BY <1>1, <1>5, <2>1, SteadyStays
<1>9. QED BY <1>3, <1>6, <1>7, <1>8 DEF BackfillInv

-----------------------------------------------------------------------------
(* The backfill: its theorems.                                             *)

LEMMA BackfillStarts == BackfillInit => BackfillInv
<1>1. SUFFICES ASSUME BackfillInit PROVE BackfillInv
  OBVIOUS
<1>2. PICK c \in Corpora :
         /\ corpus = [left |-> c.left, buried |-> {}, file |-> [f \in Corpus |->
              [backing |-> IF f \in c.revised THEN "GOOGLE_DRIVE" ELSE "LOCAL",
               version |-> IF f \in c.there THEN 1 ELSE 0,
               sequence |-> IF f \in c.revised THEN 1 ELSE 0, live |-> f \in c.there]]]
         /\ command = [b \in Commands |->
              [pc |-> IF b \in c.commands THEN "idle" ELSE "done", cursor |-> 0, tasks |-> {},
               legacy |-> {}, last |-> [provider |-> 0, legacy |-> 0], steady |-> {},
               failed |-> {}]]
  BY <1>1 DEF BackfillInit
<1>3. 0 \in Positions /\ 1 \in Positions /\ c.left \in Nat
  BY BackfillConstants DEF Positions
<1>4. corpus \in BackfillCorpus
  <2>1. \A f \in Corpus : (f \in c.there) \in BOOLEAN
    OBVIOUS
  <2>2. corpus.file \in [Corpus -> CorpusFile]
    BY <1>2, <1>3 DEF CorpusFile
  <2>3. QED BY <1>2, <1>3, <2>2 DEF BackfillCorpus
<1>5. index \in [Corpus -> Document]
  BY <1>1, <1>3 DEF BackfillInit, Document, NoDocument
<1>6. /\ task \in [Corpus -> [Positions -> TaskState]]
      /\ \A f \in Corpus : task[f][0] = "none"
  BY <1>1, <1>3 DEF BackfillInit, TaskState
<1>7. command \in [Commands -> Command]
  BY <1>2 DEF Command
<1>8. ASSUME NEW b \in Commands
      PROVE  /\ command[b].pc \in {"idle", "done"} /\ command[b].cursor = 0
             /\ command[b].tasks = {} /\ command[b].steady = {}
  BY <1>2
<1>9. \A b \in Commands : CommandFits(b)
  BY <1>8 DEF CommandFits, ReadingLegacy
<1>10. QED BY <1>4, <1>5, <1>6, <1>7, <1>8, <1>9 DEF BackfillInv, BackfillTypes

LEMMA BackfillKeeps == BackfillInv /\ [BackfillNext]_backfillVars => BackfillInv'
<1>1. SUFFICES ASSUME BackfillInv, [BackfillNext]_backfillVars PROVE BackfillInv'
  OBVIOUS
<1>2. CASE UNCHANGED backfillVars
  BY <1>1, <1>2 DEF backfillVars, BackfillInv, BackfillTypes, CommandFits, SteadyFits, Covered,
     ItemOf, Current, Meant, HasRevisions, IsLegacy, File
<1>3. CASE BackfillNext
  BY <1>1, <1>3, ChangeSteps, WorkerSteps, CommandSteps DEF BackfillNext
<1>4. QED BY <1>1, <1>2, <1>3

\* Files, documents, tasks and commands stay of their types: every cursor that a
\* batch answers with is that of a file, or none (backfill-core.ts, nextCursor).
THEOREM BackfillTypesHold == BackfillSpec => []BackfillTypeOK
<1>1. BackfillInv => BackfillTypeOK
  BY DEF BackfillInv, BackfillTypes, BackfillCorpus, BackfillTypeOK
<1>2. QED BY <1>1, BackfillStarts, BackfillKeeps, PTL DEF BackfillSpec

\* One cursor serves two kinds of file that interleave, in pages that end where
\* they may, while files change and other operators run the command: none that
\* stayed as it was is passed over by it (backfill-core.ts and the two
\* backfills), whatever the batch limit and the order of the files.
THEOREM BackfillMissesNone == BackfillSpec => []BackfillReachesAll
<1>1. BackfillInv => BackfillReachesAll
  <2>1. SUFFICES ASSUME BackfillInv, NEW c \in Commands, command[c].pc = "done",
                        NEW f \in command[c].steady
                 PROVE  Covered(c, f)
    BY DEF BackfillReachesAll, Covered
  <2>2. QED BY <2>1, CommandFacts DEF SteadyFits
<1>2. QED BY <1>1, BackfillStarts, BackfillKeeps, PTL DEF BackfillSpec

-----------------------------------------------------------------------------
(* The tree: every argument about ancestors is one about sets that hold    *)
(* with a node what it lies in.                                            *)

LEMMA PlaceFacts == Place \subseteq Ids \cup {Root} /\ Root \notin Ids /\ FolderIds \subseteq Ids
BY TreeConstants DEF Place

LEMMA WalkIs ==
    ASSUME NEW parent \in [Ids -> Place], NEW n \in Ids \cup {Root}, NEW up \in SUBSET Ids
    PROVE  /\ Walk(parent, n, up) \subseteq Ids
           /\ n \in Ids => n \in Walk(parent, n, up)
           /\ n = Root => Walk(parent, n, up) = {}
           /\ Upwards(parent, Walk(parent, n, up), up)
           /\ \A S \in SUBSET Ids :
                 n \in S \cup {Root} /\ Upwards(parent, S, up) => Walk(parent, n, up) \subseteq S
<1>1. /\ Walk(parent, n, up) \subseteq Ids
      /\ \A S \in SUBSET Ids :
            n \in S \cup {Root} /\ Upwards(parent, S, up) => Walk(parent, n, up) \subseteq S
  BY DEF Walk
<1>2. n \in Ids => n \in Walk(parent, n, up)
  BY PlaceFacts DEF Walk
<1>3. n = Root => Walk(parent, n, up) = {}
  <2>1. Upwards(parent, {}, up) /\ {} \in SUBSET Ids
    BY DEF Upwards
  <2>2. QED BY <1>1, <2>1
<1>4. ASSUME NEW m \in Walk(parent, n, up) \cap up, parent[m] # Root
      PROVE  parent[m] \in Walk(parent, n, up)
  <2>1. m \in Ids /\ parent[m] \in Ids
    BY <1>1, <1>4, PlaceFacts
  <2>2. ASSUME NEW S \in SUBSET Ids, n \in S \cup {Root}, Upwards(parent, S, up)
        PROVE  parent[m] \in S
    BY <1>1, <1>4, <2>2 DEF Upwards
  <2>3. QED BY <2>1, <2>2 DEF Walk
<1>5. QED BY <1>1, <1>2, <1>3, <1>4 DEF Upwards

LEMMA WalkGoesOn ==
    ASSUME NEW parent \in [Ids -> Place], NEW n \in Ids \cup {Root}, NEW up \in SUBSET Ids,
           NEW m \in Walk(parent, n, up)
    PROVE  m \in Ids /\ Walk(parent, m, up) \subseteq Walk(parent, n, up)
<1>1. Walk(parent, n, up) \in SUBSET Ids /\ Upwards(parent, Walk(parent, n, up), up)
  BY WalkIs
<1>2. m \in Ids
  BY <1>1
<1>3. QED BY <1>1, <1>2, WalkIs

\* The first step of a walk.
LEMMA WalkSteps ==
    ASSUME NEW parent \in [Ids -> Place], NEW n \in Ids, NEW up \in SUBSET Ids
    PROVE  /\ Walk(parent, n, up) \subseteq {n} \cup Walk(parent, parent[n], up)
           /\ n \in up => Walk(parent, parent[n], up) \subseteq Walk(parent, n, up)
<1>1. parent[n] \in Ids \cup {Root}
  BY PlaceFacts
<1>. DEFINE S == {n} \cup Walk(parent, parent[n], up)
<1>2. S \in SUBSET Ids /\ n \in S
  BY <1>1, WalkIs
<1>3. Upwards(parent, Walk(parent, parent[n], up), up)
      /\ (parent[n] \in Ids => parent[n] \in Walk(parent, parent[n], up))
  BY <1>1, WalkIs
<1>4. Upwards(parent, S, up)
  BY <1>1, <1>3 DEF Upwards
<1>5. Walk(parent, n, up) \subseteq S
  BY <1>2, <1>4, WalkIs
<1>6. ASSUME n \in up PROVE Walk(parent, parent[n], up) \subseteq Walk(parent, n, up)
  <2>1. CASE parent[n] = Root
    BY <2>1, WalkIs
  <2>2. CASE parent[n] # Root
    <3>1. parent[n] \in Walk(parent, n, up)
      BY <1>6, <2>2, WalkIs DEF Upwards
    <3>2. QED BY <3>1, WalkGoesOn
  <2>3. QED BY <2>1, <2>2
<1>7. QED BY <1>5, <1>6

LEMMA WalkFarther ==
    ASSUME NEW parent \in [Ids -> Place], NEW n \in Ids \cup {Root}, NEW up \in SUBSET Ids
    PROVE  Walk(parent, n, up) \subseteq Walk(parent, n, Ids)
<1>1. Walk(parent, n, Ids) \in SUBSET Ids /\ n \in Walk(parent, n, Ids) \cup {Root}
      /\ Upwards(parent, Walk(parent, n, Ids), Ids)
  BY WalkIs
<1>2. Upwards(parent, Walk(parent, n, Ids), up)
  BY <1>1 DEF Upwards
<1>3. QED BY <1>1, <1>2, WalkIs

\* A walk that meets no node with another parent is the same.
LEMMA WalkSame ==
    ASSUME NEW parent \in [Ids -> Place], NEW other \in [Ids -> Place],
           NEW n \in Ids \cup {Root}, NEW up \in SUBSET Ids,
           \A m \in Walk(parent, n, up) \cap up : other[m] = parent[m]
    PROVE  Walk(other, n, up) \subseteq Walk(parent, n, up)
<1>1. Walk(parent, n, up) \in SUBSET Ids /\ n \in Walk(parent, n, up) \cup {Root}
      /\ Upwards(parent, Walk(parent, n, up), up)
  BY WalkIs
<1>2. Upwards(other, Walk(parent, n, up), up)
  BY <1>1 DEF Upwards
<1>3. QED BY <1>1, <1>2, WalkIs

\* What an operation marked, and the way up to the root of it.
MarkedBy(o) == {n \in Ids : node[n].mark = o}
UpTo(o) == MarkedBy(o) \ {trashed[o].root}
\* A node whose own permissions end the walk: nothing above it is marked, or the
\* operation that marked it marked all up to its root.
CutOff(n) ==
    /\ node[n].mark = NoTrash => \A m \in Chain(n) : node[m].mark = NoTrash
    /\ node[n].mark # NoTrash =>
          \A m \in Walk(Parents, n, UpTo(node[n].mark)) : node[m].mark = node[n].mark
\* A folder that is about to be created is not there, and nobody else creates it.
CreateFits(r) ==
    change[r].pc = "create" =>
        /\ change[r].node \notin Present /\ change[r].at \in Present \cup {Root}
        /\ \A q \in TreeRequests \ {r} : change[q].pc = "create" => change[q].node # change[r].node
InPlace == \A n \in Present : node[n].parent \in Present \cup {Root}
Rooted == \A S \in SUBSET Present : S # {} => \E n \in S : node[n].parent \notin S
MarksOpen == \A n \in Ids : node[n].mark # NoTrash => n \in Present /\ trashed[node[n].mark].open
NodesFit ==
    /\ InPlace /\ Rooted /\ MarksOpen
    /\ \A n \in Present : ~node[n].inherit => CutOff(n)
    /\ \A r \in TreeRequests : CreateFits(r)

LEMMA NodeFacts ==
    ASSUME TreeTypeOK
    PROVE  /\ Parents \in [Ids -> Place] /\ Present \subseteq Ids
           /\ Inheriting \in SUBSET Ids /\ Place \subseteq Ids \cup {Root} /\ Root \notin Ids
           /\ \A n \in Ids :
                 /\ node[n] \in NodeRow /\ Parents[n] = node[n].parent /\ node[n].parent \in Place
                 /\ node[n].mark \in TrashOps \cup {NoTrash}
           /\ \A o \in TrashOps : o # NoTrash /\ UpTo(o) \in SUBSET Ids
<1>1. \A n \in Ids : node[n] \in NodeRow
  BY DEF TreeTypeOK
<1>2. \A n \in Ids : node[n].parent \in Place /\ node[n].mark \in TrashOps \cup {NoTrash}
  BY <1>1 DEF NodeRow
<1>3. QED BY <1>1, <1>2, PlaceFacts, TreeConstants DEF Parents, Present, Inheriting, UpTo, MarkedBy

LEMMA ChainPresent ==
    ASSUME TreeTypeOK, InPlace, NEW n \in Present \cup {Root}
    PROVE  Chain(n) \subseteq Present
<1>1. Present \in SUBSET Ids /\ Upwards(Parents, Present, Ids) /\ n \in Ids \cup {Root}
  BY NodeFacts DEF Upwards, InPlace
<1>2. QED BY <1>1, NodeFacts, WalkIs DEF Chain

\* No node is above itself.
LEMMA NotWithinItself ==
    ASSUME TreeTypeOK, InPlace, Rooted, NEW n \in Present
    PROVE  n \notin Chain(node[n].parent)
<1>. DEFINE S == {m \in Present : n \in Chain(m)}
<1>1. SUFFICES ASSUME n \in Chain(node[n].parent) PROVE FALSE
  OBVIOUS
<1>2. n \in Chain(n) /\ n \in Ids /\ Ids \in SUBSET Ids
  BY NodeFacts, WalkIs DEF Chain
<1>3. ASSUME NEW m \in S PROVE node[m].parent \in S
  <2>1. m \in Ids /\ n \in Walk(Parents, m, Ids) /\ m \in Present
        /\ Parents[m] = node[m].parent
    BY <1>3, NodeFacts DEF Chain
  <2>2. n \in {m} \cup Walk(Parents, node[m].parent, Ids)
    BY <1>2, <2>1, NodeFacts, WalkSteps
  <2>3. n \in Chain(node[m].parent)
    BY <1>1, <2>2 DEF Chain
  <2>4. node[m].parent # Root
    <3>1. Chain(Root) = {}
      BY NodeFacts, WalkIs DEF Chain
    <3>2. QED BY <2>3, <3>1
  <2>5. QED BY <2>1, <2>3, <2>4 DEF InPlace
<1>4. S \in SUBSET Present /\ n \in S
  BY <1>2
<1>5. QED BY <1>3, <1>4 DEF Rooted

\* What a reader is shown has nothing marked above it, although the walk that
\* says so may have ended before.
LEMMA SeenChain ==
    ASSUME TreeTypeOK, NodesFit, NEW n \in Ids, Seen(n)
    PROVE  \A m \in Chain(n) : m \in Present /\ node[m].mark = NoTrash
<1>. DEFINE S == {m \in Present : Seen(m)}
<1>1. Parents \in [Ids -> Place] /\ Present \subseteq Ids /\ Inheriting \in SUBSET Ids
      /\ Ids \in SUBSET Ids /\ n \in Present
  BY NodeFacts DEF Seen
<1>2. ASSUME NEW m \in S PROVE node[m].mark = NoTrash
  <2>1. m \in Walk(Parents, m, Inheriting)
    BY <1>1, WalkIs
  <2>2. QED BY <2>1 DEF Seen
<1>3. ASSUME NEW m \in S, node[m].parent # Root PROVE Seen(node[m].parent)
  <2>. DEFINE p == node[m].parent
  <2>1. m \in Ids /\ p \in Present /\ Parents[m] = p
    BY <1>1, <1>3, NodeFacts DEF NodesFit, InPlace
  <2>2. CASE m \in Inheriting
    <3>1. Walk(Parents, p, Inheriting) \subseteq Walk(Parents, m, Inheriting)
      BY <1>1, <2>1, <2>2, WalkSteps
    <3>2. QED BY <2>1, <3>1 DEF Seen
  <2>3. CASE m \notin Inheriting
    <3>1. \A k \in Chain(m) : node[k].mark = NoTrash
      BY <1>2, <2>1, <2>3 DEF NodesFit, CutOff, Inheriting
    <3>2. Walk(Parents, p, Inheriting) \subseteq Walk(Parents, p, Ids)
      BY <1>1, <2>1, WalkFarther
    <3>3. Walk(Parents, p, Ids) \subseteq Chain(m)
      BY <1>1, <2>1, WalkSteps DEF Chain
    <3>4. QED BY <2>1, <3>1, <3>2, <3>3 DEF Seen
  <2>4. QED BY <2>2, <2>3
<1>4. S \in SUBSET Ids /\ Upwards(Parents, S, Ids)
  <2>1. \A m \in S : Parents[m] = node[m].parent
    BY <1>1, NodeFacts
  <2>2. QED BY <1>1, <1>3, <2>1 DEF Upwards, Seen
<1>5. Chain(n) \subseteq S
  BY <1>1, <1>4, WalkIs DEF Chain
<1>6. QED BY <1>2, <1>5

-----------------------------------------------------------------------------
(* The tree: types.                                                        *)

LEMMA TreeParts ==
    ASSUME TreeTypeOK
    PROVE  /\ 1 \in TreeNames /\ NoChange \in TreeChange /\ NothingShown \in [Ids -> Nat]
           /\ \A n \in Ids : n \in TreeNames
           /\ (\E event : Allowed(event)) /\ Spend => world' \in Tree
           /\ Tick => moment' \in Moments
           /\ \A changed : Disturb(changed) => listing' \in Listing
<1>1. \A n \in Ids : n \in TreeNames
  BY TreeConstants DEF TreeNames
<1>2. 1 \in TreeNames
  <2>1. PICK n \in Ids : n \in TreeNames
    BY <1>1, TreeConstants
  <2>2. n \in Nat /\ 1 <= n /\ n <= MaxName /\ MaxName \in Nat
    BY <2>1, TreeConstants DEF TreeNames
  <2>3. QED BY <2>2 DEF TreeNames
<1>3. NoChange \in TreeChange
  <2>1. (CHOOSE n \in Ids : TRUE) \in Ids
    BY TreeConstants
  <2>2. QED BY <1>2, <2>1 DEF NoChange, TreeChange, Place
<1>4. NothingShown \in [Ids -> Nat]
  BY DEF NothingShown
<1>5. ASSUME NEW event, Allowed(event), Spend PROVE world' \in Tree
  <2>1. world \in Tree /\ world.left > 0
    BY <1>5 DEF TreeTypeOK, Allowed
  <2>2. world.left \in Nat
    BY <2>1 DEF Tree
  <2>3. world.left - 1 \in Nat
    BY <2>1, <2>2
  <2>4. world' = [world EXCEPT !.left = world.left - 1]
    BY <1>5 DEF Spend
  <2>5. QED BY <2>1, <2>3, <2>4 DEF Tree
<1>6. Tick => moment' \in Moments
  BY DEF Tick
<1>7. ASSUME NEW changed, Disturb(changed) PROVE listing' \in Listing
  <2>1. listing \in Listing
    BY DEF TreeTypeOK
  <2>. DEFINE slips == listing.slipped
                 \/ (listing.pc = "nodes" /\ \E k \in listing.ids : k.node \in changed)
  <2>2. listing' = [listing EXCEPT !.stayed = listing.stayed \ changed, !.slipped = slips]
    BY <1>7 DEF Disturb
  <2>3. slips \in BOOLEAN
    BY <2>1 DEF Listing
  <2>4. listing.stayed \ changed \in SUBSET Ids
    BY <2>1 DEF Listing
  <2>. HIDE DEF slips
  <2>5. QED BY <2>1, <2>2, <2>3, <2>4 DEF Listing
<1>8. QED BY <1>1, <1>2, <1>3, <1>4, <1>5, <1>6, <1>7

\* A row that a step writes.
LEMMA RowTypes ==
    ASSUME TreeTypeOK, NEW n \in Ids
    PROVE  /\ node[n] \in NodeRow
           /\ \A d \in Place, m \in Moments :
                 [node[n] EXCEPT !.parent = d, !.modified = m] \in NodeRow
           /\ \A name \in TreeNames, m \in Moments :
                 [node[n] EXCEPT !.name = name, !.modified = m] \in NodeRow
           /\ \A mark \in TrashOps \cup {NoTrash}, m \in Moments :
                 [node[n] EXCEPT !.mark = mark, !.modified = m] \in NodeRow
           /\ \A m \in Moments : [node[n] EXCEPT !.modified = m] \in NodeRow
           /\ [node[n] EXCEPT !.there = FALSE] \in NodeRow
           /\ \A p \in Principals : [node[n] EXCEPT !.owners = @ \cup {p}] \in NodeRow
           /\ \A p \in Principals : [node[n] EXCEPT !.owners = @ \ {p}] \in NodeRow
           /\ [node[n] EXCEPT !.inherit = ~@] \in NodeRow
<1>1. node[n] \in NodeRow
  BY DEF TreeTypeOK
<1>2. QED BY <1>1 DEF NodeRow

\* What a step that moves rows of nodes only owes to the types.
LEMMA RowsTyped ==
    ASSUME TreeTypeOK, NEW n \in Ids, NEW row \in NodeRow, node' = [node EXCEPT ![n] = row],
           world' \in Tree, moment' \in Moments, listing' \in Listing,
           trashed' = trashed, change' \in [TreeRequests -> TreeChange]
    PROVE  TreeTypeOK'
BY DEF TreeTypeOK

LEMMA RequestsTyped ==
    ASSUME TreeTypeOK, NEW r \in TreeRequests,
           \/ CreateInsert(r) \/ RenameWrite(r)
           \/ \E n \in Ids, name \in TreeNames :
                RenameCheck(r, n, name) \/ \E d \in Place : CreateCheck(r, n, d, name)
    PROVE  TreeTypeOK'
<1>1. change \in [TreeRequests -> TreeChange] /\ change[r] \in TreeChange
      /\ change[r].node \in Ids /\ change[r].at \in Place /\ change[r].name \in TreeNames
  <2>1. change \in [TreeRequests -> TreeChange]
    BY DEF TreeTypeOK
  <2>2. QED BY <2>1 DEF TreeChange
<1>2. EndChange(r) => change' \in [TreeRequests -> TreeChange]
  BY <1>1, TreeParts DEF EndChange
<1>3. CASE CreateInsert(r)
  <2>. DEFINE c == change[r]
  <2>1. /\ change' \in [TreeRequests -> TreeChange] /\ UNCHANGED <<world, trashed, listing>>
        /\ \/ UNCHANGED <<node, moment>>
           \/ /\ Tick
              /\ \E p \in Principals :
                   node' = [node EXCEPT ![c.node] =
                     [there |-> TRUE, parent |-> c.at, name |-> c.name, inherit |-> TRUE,
                      mark |-> NoTrash, modified |-> moment', owners |-> {p}]]
    BY <1>2, <1>3 DEF CreateInsert
  <2>2. CASE UNCHANGED <<node, moment>>
    BY <2>1, <2>2 DEF TreeTypeOK
  <2>3. CASE ~UNCHANGED <<node, moment>>
    <3>1. moment' \in Moments
      BY <2>1, <2>3, TreeParts
    <3>2. PICK p \in Principals :
            node' = [node EXCEPT ![c.node] =
                     [there |-> TRUE, parent |-> c.at, name |-> c.name, inherit |-> TRUE,
                      mark |-> NoTrash, modified |-> moment', owners |-> {p}]]
      BY <2>1, <2>3
    <3>3. [there |-> TRUE, parent |-> c.at, name |-> c.name, inherit |-> TRUE,
           mark |-> NoTrash, modified |-> moment', owners |-> {p}] \in NodeRow
      BY <1>1, <3>1 DEF NodeRow
    <3>4. world' \in Tree /\ listing' \in Listing
      BY <2>1 DEF TreeTypeOK
    <3>5. QED BY <1>1, <2>1, <3>1, <3>2, <3>3, <3>4, RowsTyped
  <2>4. QED BY <2>2, <2>3
<1>4. CASE RenameWrite(r)
  <2>. DEFINE n == change[r].node
  <2>1. /\ change' \in [TreeRequests -> TreeChange] /\ UNCHANGED <<world, trashed>>
        /\ \/ UNCHANGED <<node, moment, listing>>
           \/ /\ Tick /\ Disturb({n})
              /\ node' = [node EXCEPT ![n].name = change[r].name,
                                      ![n].modified = IF n \in FolderIds THEN moment' ELSE @]
    BY <1>2, <1>4 DEF RenameWrite
  <2>2. CASE UNCHANGED <<node, moment, listing>>
    BY <2>1, <2>2 DEF TreeTypeOK
  <2>3. CASE ~UNCHANGED <<node, moment, listing>>
    <3>1. moment' \in Moments /\ listing' \in Listing
      BY <2>1, <2>3, TreeParts
    <3>2. world' \in Tree
      BY <2>1 DEF TreeTypeOK
    <3>. DEFINE m == IF n \in FolderIds THEN moment' ELSE node[n].modified
    <3>3. m \in Moments
      BY <1>1, <3>1, RowTypes DEF NodeRow
    <3>4. node' = [node EXCEPT ![n] = [node[n] EXCEPT !.name = change[r].name, !.modified = m]]
      <4>1. node \in [Ids -> NodeRow] /\ node[n] \in NodeRow
        BY <1>1 DEF TreeTypeOK
      <4>2. node' = [node EXCEPT ![n].name = change[r].name,
                                 ![n].modified = IF n \in FolderIds THEN moment' ELSE @]
        BY <2>1, <2>3
      <4>3. QED BY <1>1, <4>1, <4>2 DEF NodeRow
    <3>. HIDE DEF m
    <3>5. [node[n] EXCEPT !.name = change[r].name, !.modified = m] \in NodeRow
      BY <1>1, <3>3, RowTypes
    <3>6. QED BY <1>1, <2>1, <3>1, <3>2, <3>4, <3>5, RowsTyped
  <2>4. QED BY <2>2, <2>3
<1>5. ASSUME NEW n \in Ids, NEW name \in TreeNames, RenameCheck(r, n, name) PROVE TreeTypeOK'
  <2>1. [NoChange EXCEPT !.pc = "rename", !.node = n, !.name = name] \in TreeChange
    BY TreeParts DEF TreeChange
  <2>2. world' \in Tree
    BY <1>5, TreeParts DEF RenameCheck
  <2>3. QED BY <1>1, <1>5, <2>1, <2>2 DEF RenameCheck, TreeTypeOK
<1>6. ASSUME NEW n \in Ids, NEW name \in TreeNames, NEW d \in Place, CreateCheck(r, n, d, name)
      PROVE  TreeTypeOK'
  <2>1. [pc |-> "create", node |-> n, at |-> d, name |-> name] \in TreeChange
    BY DEF TreeChange
  <2>2. world' \in Tree
    BY <1>6, TreeParts DEF CreateCheck
  <2>3. QED BY <1>1, <1>6, <2>1, <2>2 DEF CreateCheck, TreeTypeOK
<1>7. QED BY <1>3, <1>4, <1>5, <1>6

LEMMA MarkTyped ==
    ASSUME TreeTypeOK, NEW marked, NEW mark \in TrashOps \cup {NoTrash}, moment' \in Moments,
           Mark(marked, mark)
    PROVE  node' \in [Ids -> NodeRow]
<1>1. ASSUME NEW n \in Ids PROVE node'[n] \in NodeRow
  <2>. DEFINE m == IF n \in FolderIds THEN moment' ELSE node[n].modified
  <2>1. m \in Moments
    BY RowTypes DEF NodeRow
  <2>2. node'[n] = IF n \notin marked THEN node[n]
                   ELSE [node[n] EXCEPT !.mark = mark, !.modified = m]
    BY DEF Mark
  <2>. HIDE DEF m
  <2>3. CASE n \notin marked
    BY <2>2, <2>3, RowTypes
  <2>4. CASE n \in marked
    <3>1. [node[n] EXCEPT !.mark = mark, !.modified = m] \in NodeRow
      BY <2>1, RowTypes
    <3>2. QED BY <2>2, <2>4, <3>1
  <2>5. QED BY <2>3, <2>4
<1>2. node' = [n \in Ids |-> node'[n]]
  BY DEF Mark
<1>3. QED BY <1>1, <1>2

LEMMA ChangesTyped ==
    ASSUME TreeTypeOK, NEW n \in Ids,
           \/ ContentChanges(n) \/ RemoveFile(n) \/ SetInheritance(n)
           \/ \E d \in Place : MoveNode(n, d)
           \/ \E o \in TrashOps : TrashNode(n, o) \/ RestoreNode(o)
           \/ \E p \in Principals : SetOwner(n, p) \/ RemoveOwner(n, p)
    PROVE  TreeTypeOK'
<1>1. /\ node \in [Ids -> NodeRow] /\ node[n] \in NodeRow /\ trashed \in [TrashOps -> TrashRow]
      /\ change \in [TreeRequests -> TreeChange] /\ listing \in Listing /\ moment \in Moments
      /\ node[n].parent \in Place /\ node[n].modified \in Moments
  BY DEF TreeTypeOK, NodeRow
<1>2. CASE ContentChanges(n)
  <2>1. world' \in Tree /\ moment' \in Moments /\ listing' \in Listing
    BY <1>2, TreeParts DEF ContentChanges
  <2>2. PICK m \in 0..moment' : node' = [node EXCEPT ![n].modified = m]
    BY <1>2 DEF ContentChanges
  <2>3. m \in Moments
    BY <2>1, TreeConstants DEF Moments
  <2>4. QED BY <1>1, <1>2, <2>1, <2>2, <2>3, RowTypes, RowsTyped DEF ContentChanges
<1>3. CASE RemoveFile(n)
  <2>1. world' \in Tree /\ listing' \in Listing
    BY <1>3, TreeParts DEF RemoveFile
  <2>2. node' = [node EXCEPT ![n] = [node[n] EXCEPT !.there = FALSE]]
    BY <1>3 DEF RemoveFile
  <2>3. QED BY <1>1, <1>3, <2>1, <2>2, RowTypes, RowsTyped DEF RemoveFile
<1>4. ASSUME NEW row \in NodeRow, Grant(n, row) PROVE TreeTypeOK'
  <2>1. world' \in Tree
    BY <1>4, TreeParts DEF Grant
  <2>2. QED BY <1>1, <1>4, <2>1, RowsTyped DEF Grant
<1>5. CASE SetInheritance(n) \/ \E p \in Principals : SetOwner(n, p) \/ RemoveOwner(n, p)
  BY <1>4, <1>5, RowTypes DEF SetInheritance, SetOwner, RemoveOwner
<1>6. ASSUME NEW d \in Place, MoveNode(n, d) PROVE TreeTypeOK'
  <2>1. world' \in Tree /\ moment' \in Moments /\ listing' \in Listing
    BY <1>6, TreeParts DEF MoveNode
  <2>. DEFINE m == IF n \in FolderIds THEN moment' ELSE node[n].modified
  <2>2. m \in Moments
    BY <1>1, <2>1
  <2>3. node' = [node EXCEPT ![n] = [node[n] EXCEPT !.parent = d, !.modified = m]]
    <3>1. node' = [node EXCEPT ![n].parent = d,
                               ![n].modified = IF n \in FolderIds THEN moment' ELSE @]
      BY <1>6 DEF MoveNode
    <3>2. QED BY <1>1, <3>1 DEF NodeRow
  <2>. HIDE DEF m
  <2>4. QED BY <1>1, <1>6, <2>1, <2>2, <2>3, RowTypes, RowsTyped DEF MoveNode
<1>7. ASSUME NEW o \in TrashOps, TrashNode(n, o) PROVE TreeTypeOK'
  <2>1. world' \in Tree /\ moment' \in Moments /\ listing' \in Listing
    BY <1>7, TreeParts DEF TrashNode
  <2>2. node' \in [Ids -> NodeRow]
    BY <1>7, <2>1, MarkTyped DEF TrashNode
  <2>3. trashed' \in [TrashOps -> TrashRow]
    BY <1>1, <1>7 DEF TrashNode, TrashRow
  <2>4. QED BY <1>1, <1>7, <2>1, <2>2, <2>3 DEF TrashNode, TreeTypeOK
<1>8. ASSUME NEW o \in TrashOps, RestoreNode(o) PROVE TreeTypeOK'
  <2>1. world' \in Tree /\ moment' \in Moments /\ listing' \in Listing
    BY <1>8, TreeParts DEF RestoreNode
  <2>2. node' \in [Ids -> NodeRow]
    BY <1>8, <2>1, MarkTyped DEF RestoreNode
  <2>3. trashed' \in [TrashOps -> TrashRow]
    BY <1>1, <1>8 DEF RestoreNode, TrashRow
  <2>4. QED BY <1>1, <1>8, <2>1, <2>2, <2>3 DEF RestoreNode, TreeTypeOK
<1>9. QED BY <1>2, <1>3, <1>5, <1>6, <1>7, <1>8

LEMMA RowListed ==
    ASSUME TreeTypeOK, NEW n \in Ids
    PROVE  RowOf(n) \in ListedRow /\ RowOf(n).node = n /\ SortValue(n) \in Nat /\ n \in Nat
<1>1. node[n].name \in TreeNames /\ node[n].modified \in Moments
  BY DEF TreeTypeOK, NodeRow
<1>2. SortValue(n) \in TreeNames \cup Moments
  BY <1>1 DEF SortValue
<1>3. QED BY <1>2, TreeConstants DEF RowOf, ListedRow, TreeNames, Moments

LEMMA ListingTyped ==
    ASSUME TreeTypeOK,
           \/ \E d \in Place, sort \in SortKeys, ascending \in BOOLEAN :
                StartListing(d, sort, ascending)
           \/ Browse \/ ReadIds \/ ReadNodes
    PROVE  TreeTypeOK'
<1>1. listing \in Listing /\ Present \subseteq Ids
  BY NodeFacts DEF TreeTypeOK
<1>2. SUFFICES UNCHANGED <<world, node, trashed, change, moment>> /\ listing' \in Listing
  BY DEF TreeTypeOK
<1>3. UNCHANGED <<world, node, trashed, change, moment>>
  BY DEF StartListing, Browse, ReadIds, ReadNodes
<1>4. ASSUME NEW d \in Place, NEW sort \in SortKeys, NEW ascending \in BOOLEAN,
             StartListing(d, sort, ascending)
      PROVE  listing' \in Listing
  <2>. DEFINE there == {n \in ChildrenOf(d) : node[n].mark = NoTrash}
  <2>1. there \in SUBSET Ids
    BY <1>1 DEF ChildrenOf
  <2>2. listing' = [listing EXCEPT !.pc = "browse", !.folder = d, !.sort = sort,
                                   !.ascending = ascending, !.stayed = there]
    BY <1>4 DEF StartListing
  <2>. HIDE DEF there
  <2>3. QED BY <1>1, <2>1, <2>2 DEF Listing
<1>5. CASE Browse
  <2>1. CASE OpenPlace(listing.folder)
    BY <1>1, <1>3, <1>5, <2>1 DEF Browse, Listing
  <2>2. CASE ~OpenPlace(listing.folder)
    <3>1. NothingShown \in [Ids -> Nat]
      BY TreeParts
    <3>2. listing' = [listing EXCEPT !.pc = "idle", !.shown = NothingShown, !.cursor = {},
                                     !.stayed = {}, !.slipped = FALSE]
      BY <1>5, <2>2 DEF Browse
    <3>3. QED BY <1>1, <1>3, <3>1, <3>2 DEF Listing
  <2>3. QED BY <2>1, <2>2
<1>6. CASE ReadIds
  <2>. DEFINE found == {n \in ChildrenOf(listing.folder) : node[n].mark = NoTrash /\ AfterCursor(n)}
  <2>1. PICK taken \in SUBSET {RowOf(n) : n \in found} :
           listing' = [listing EXCEPT !.pc = "nodes", !.ids = taken]
    BY <1>6 DEF ReadIds
  <2>2. found \subseteq Ids
    BY <1>1 DEF ChildrenOf
  <2>3. taken \in SUBSET ListedRow
    BY <2>1, <2>2, RowListed
  <2>4. listing' = [listing EXCEPT !.pc = "nodes", !.ids = taken] /\ listing \in Listing
    BY <1>1, <2>1
  <2>5. QED BY <1>3, <2>3, <2>4 DEF Listing
<1>7. CASE ReadNodes
  <2>. DEFINE rows == {k \in listing.ids : k.node \in Present}
              more == Cardinality(rows) > PageLimit
  <2>1. PICK piece \in SUBSET rows, end \in SUBSET rows :
           listing' = [listing EXCEPT !.pc = IF more THEN "browse" ELSE "done", !.ids = {},
               !.shown = [n \in Ids |-> IF \E k \in piece : k.node = n THEN @[n] + 1 ELSE @[n]],
               !.cursor = {RowOf(k.node) : k \in end}]
    BY <1>7 DEF ReadNodes
  <2>. DEFINE shown == [n \in Ids |-> IF \E k \in piece : k.node = n THEN listing.shown[n] + 1
                                      ELSE listing.shown[n]]
              cursor == {RowOf(k.node) : k \in end}
              pc == IF more THEN "browse" ELSE "done"
  <2>2. listing' = [listing EXCEPT !.pc = pc, !.ids = {}, !.shown = shown, !.cursor = cursor]
    BY <2>1
  <2>3. shown \in [Ids -> Nat]
    BY <1>1 DEF Listing
  <2>4. cursor \in SUBSET ListedRow
    BY <1>1, <2>1, RowListed
  <2>5. pc \in {"browse", "done"}
    OBVIOUS
  <2>. HIDE DEF shown, cursor, pc
  <2>6. QED BY <1>1, <1>3, <2>2, <2>3, <2>4, <2>5 DEF Listing
<1>8. QED BY <1>3, <1>4, <1>5, <1>6, <1>7

LEMMA TreeTypesNext == TreeTypeOK /\ [TreeNext]_treeVars => TreeTypeOK'
<1>1. SUFFICES ASSUME TreeTypeOK, [TreeNext]_treeVars PROVE TreeTypeOK'
  OBVIOUS
<1>2. CASE UNCHANGED treeVars
  BY <1>1, <1>2 DEF TreeTypeOK, treeVars
<1>3. CASE TreeNext
  <2>1. \E n \in Ids : TRUE
    BY TreeConstants
  <2>2. QED BY <1>1, <1>3, <2>1, RequestsTyped, ChangesTyped, ListingTyped DEF TreeNext
<1>4. QED BY <1>1, <1>2, <1>3

LEMMA TreeTypesInit == TreeInit => TreeTypeOK
<1>1. SUFFICES ASSUME TreeInit PROVE TreeTypeOK
  OBVIOUS
<1>2. world \in Tree /\ world.there \subseteq Ids /\ world.parent \in [Ids -> Place]
      /\ world.modified \in [Ids -> Moments] /\ world.moment \in Moments
  <2>1. world \in Tree
    BY <1>1, TreesAreTrees DEF TreeInit
  <2>2. QED BY <2>1 DEF Tree
<1>3. /\ \A n \in Ids : n \in TreeNames
      /\ NoChange \in TreeChange /\ NothingShown \in [Ids -> Nat]
      /\ (CHOOSE n \in Ids : TRUE) \in Ids /\ (CHOOSE p \in Principals : TRUE) \in Principals
  <2>1. NoChange \in TreeChange
    <3>1. 1 \in TreeNames
      <4>1. PICK n \in Ids : n \in 1..MaxName /\ MaxName \in Nat
        BY TreeConstants
      <4>2. QED BY <4>1 DEF TreeNames
    <3>2. (CHOOSE n \in Ids : TRUE) \in Ids
      BY TreeConstants
    <3>3. QED BY <3>1, <3>2 DEF NoChange, TreeChange, Place
  <2>2. QED BY <2>1, TreeConstants DEF TreeNames, NothingShown
<1>4. node \in [Ids -> NodeRow]
  BY <1>1, <1>2, <1>3 DEF TreeInit, NodeRow
<1>5. trashed \in [TrashOps -> TrashRow]
  BY <1>1, <1>3 DEF TreeInit, TrashRow, Place
<1>6. change \in [TreeRequests -> TreeChange]
  BY <1>1, <1>3 DEF TreeInit
<1>7. listing \in Listing
  BY <1>1, <1>3 DEF TreeInit, Listing, Place, SortKeys
<1>8. moment \in Moments
  BY <1>1, <1>2 DEF TreeInit
<1>9. QED BY <1>2, <1>4, <1>5, <1>6, <1>7, <1>8 DEF TreeTypeOK

-----------------------------------------------------------------------------
(* The tree: what steps keep of its invariant.                             *)

LEMMA ChainSame ==
    ASSUME TreeTypeOK, TreeTypeOK', NEW n \in Ids \cup {Root},
           \A m \in Chain(n) : node'[m].parent = node[m].parent
    PROVE  Chain(n)' \subseteq Chain(n)
<1>1. Parents \in [Ids -> Place] /\ Parents' \in [Ids -> Place]
      /\ \A m \in Ids : Parents[m] = node[m].parent /\ Parents'[m] = node'[m].parent
  <2>1. Parents \in [Ids -> Place] /\ \A m \in Ids : Parents[m] = node[m].parent
    BY NodeFacts
  <2>2. \A m \in Ids : node'[m].parent \in Place
    BY DEF TreeTypeOK, NodeRow
  <2>3. QED BY <2>1, <2>2 DEF Parents
<1>2. Chain(n) \subseteq Ids /\ Ids \in SUBSET Ids
  BY <1>1, WalkIs DEF Chain
<1>3. \A m \in Walk(Parents, n, Ids) \cap Ids : Parents'[m] = Parents[m]
  BY <1>1, <1>2 DEF Chain
<1>4. QED BY <1>1, <1>2, <1>3, WalkSame DEF Chain

\* A node below the root of an operation, and other nodes of other operations.
LEMMA MarkedStays ==
    ASSUME TreeTypeOK, TreeTypeOK', NEW n \in Ids, NEW o \in TrashOps, node[n].mark = o,
           CutOff(n), trashed'[o].root = trashed[o].root,
           \A m \in Ids : node'[m].mark = o <=> node[m].mark = o,
           \A m \in Ids : node[m].mark = o => node'[m].parent = node[m].parent
    PROVE  CutOff(n)'
<1>1. /\ Parents \in [Ids -> Place] /\ Parents' \in [Ids -> Place]
      /\ \A m \in Ids : Parents[m] = node[m].parent /\ Parents'[m] = node'[m].parent
      /\ UpTo(o)' = UpTo(o) /\ UpTo(o) \in SUBSET Ids /\ o # NoTrash
  <2>1. Parents \in [Ids -> Place] /\ \A m \in Ids : Parents[m] = node[m].parent
        /\ UpTo(o) \in SUBSET Ids /\ o # NoTrash
    BY NodeFacts
  <2>2. \A m \in Ids : node'[m].parent \in Place
    BY DEF TreeTypeOK, NodeRow
  <2>3. UpTo(o)' = UpTo(o)
    BY DEF UpTo, MarkedBy
  <2>4. QED BY <2>1, <2>2, <2>3 DEF Parents
<1>2. \A m \in Walk(Parents, n, UpTo(o)) : node[m].mark = o /\ m \in Ids
  BY <1>1, WalkIs DEF CutOff
<1>3. \A m \in Walk(Parents, n, UpTo(o)) \cap UpTo(o) : Parents'[m] = Parents[m]
  BY <1>1, <1>2
<1>4. Walk(Parents', n, UpTo(o)) \subseteq Walk(Parents, n, UpTo(o))
  BY <1>1, <1>3, WalkSame
<1>5. \A m \in Walk(Parents', n, UpTo(o)') : node'[m].mark = o
  BY <1>1, <1>2, <1>4
<1>6. node'[n].mark = o
  OBVIOUS
<1>7. QED BY <1>1, <1>5, <1>6 DEF CutOff

\* Steps that move nothing and mark nothing.
LEMMA SameWays ==
    ASSUME TreeTypeOK, TreeTypeOK', NodesFit, trashed' = trashed,
           \A n \in Ids : node'[n].parent = node[n].parent /\ node'[n].mark = node[n].mark,
           Present' \subseteq Present, InPlace', MarksOpen',
           \A n \in Present : ~node'[n].inherit => ~node[n].inherit \/ CutOff(n),
           \A r \in TreeRequests : CreateFits(r)'
    PROVE  NodesFit'
<1>1. Present \subseteq Ids
  BY NodeFacts
<1>2. Rooted'
  <2>1. SUFFICES ASSUME NEW S \in SUBSET Present', S # {}
                 PROVE  \E n \in S : node'[n].parent \notin S
    BY DEF Rooted
  <2>2. S \in SUBSET Present
    OBVIOUS
  <2>3. QED BY <1>1, <2>1, <2>2 DEF NodesFit, Rooted
<1>3. ASSUME NEW n \in Present', ~node'[n].inherit PROVE CutOff(n)'
  <2>1. CutOff(n) /\ n \in Ids /\ n \in Present
    BY <1>1, <1>3 DEF NodesFit
  <2>2. CASE node[n].mark = NoTrash
    <3>1. Chain(n)' \subseteq Chain(n) /\ Chain(n) \subseteq Ids
      <4>1. Chain(n) \subseteq Ids
        BY <2>1, NodeFacts, WalkIs DEF Chain
      <4>2. QED BY <2>1, <4>1, ChainSame
    <3>2. QED BY <2>1, <2>2, <3>1 DEF CutOff
  <2>3. CASE node[n].mark # NoTrash
    <3>1. node[n].mark \in TrashOps
      BY <2>1, <2>3, NodeFacts
    <3>2. QED BY <2>1, <3>1, MarkedStays
  <2>4. QED BY <2>2, <2>3
<1>4. QED BY <1>2, <1>3 DEF NodesFit

LEMMA CreatesStay ==
    ASSUME NodesFit, Present' = Present,
           \A r \in TreeRequests : change'[r].pc = "create" => change'[r] = change[r]
    PROVE  \A r \in TreeRequests : CreateFits(r)'
BY DEF NodesFit, CreateFits

\* Steps that leave all of a node that the tree is made of.
LEMMA SameTree ==
    ASSUME TreeTypeOK, TreeTypeOK', NodesFit, trashed' = trashed,
           \A n \in Ids : /\ node'[n].parent = node[n].parent /\ node'[n].mark = node[n].mark
                          /\ node'[n].there = node[n].there,
           \A n \in Present : ~node'[n].inherit => ~node[n].inherit \/ CutOff(n),
           Present' = Present => \A r \in TreeRequests : CreateFits(r)'
    PROVE  NodesFit'
<1>1. Present' = Present /\ Present \subseteq Ids
  BY NodeFacts DEF Present
<1>2. InPlace' /\ MarksOpen'
  BY <1>1 DEF NodesFit, InPlace, MarksOpen
<1>3. QED BY <1>1, <1>2, SameWays

\* Its destination may have gone to the trash since it was looked at: the new
\* folder inherits, so that nobody is shown it.
LEMMA InsertFits ==
    ASSUME TreeTypeOK, TreeTypeOK', NodesFit, NEW r \in TreeRequests, CreateInsert(r)
    PROVE  NodesFit'
<1>. DEFINE k == change[r].node
<1>1. /\ change \in [TreeRequests -> TreeChange] /\ k \in Ids /\ change[r].pc = "create"
      /\ node \in [Ids -> NodeRow] /\ Present \subseteq Ids /\ trashed' = trashed
      /\ change' = [change EXCEPT ![r] = NoChange] /\ NoChange.pc = "idle"
  BY NodeFacts DEF TreeTypeOK, TreeChange, CreateInsert, EndChange, NoChange
<1>2. \A q \in TreeRequests : change'[q].pc = "create" => change'[q] = change[q] /\ q # r
  BY <1>1
<1>3. k \notin Present /\ change[r].at \in Present \cup {Root}
      /\ \A q \in TreeRequests \ {r} : change[q].pc = "create" => change[q].node # k
  BY <1>1 DEF NodesFit, CreateFits
<1>4. CASE node' = node
  <2>1. Present' = Present
    BY <1>4 DEF Present
  <2>2. \A q \in TreeRequests : CreateFits(q)'
    BY <1>2, <2>1, CreatesStay
  <2>3. QED BY <1>1, <1>4, <2>2, SameTree
<1>5. CASE node' # node
  <2>1. /\ \A n \in Ids \ {k} : node'[n] = node[n]
        /\ node'[k].there /\ node'[k].parent = change[r].at /\ node'[k].inherit
        /\ node'[k].mark = NoTrash
    <3>1. PICK p \in Principals :
            node' = [node EXCEPT ![k] =
              [there |-> TRUE, parent |-> change[r].at, name |-> change[r].name, inherit |-> TRUE,
               mark |-> NoTrash, modified |-> moment', owners |-> {p}]]
      BY <1>5 DEF CreateInsert
    <3>2. QED BY <1>1, <3>1
  <2>2. Present' = Present \cup {k} /\ k # Root
    BY <1>1, <2>1, NodeFacts DEF Present
  <2>3. \A n \in Present : node'[n] = node[n] /\ n # k
    BY <1>1, <1>3, <2>1
  <2>4. InPlace'
    BY <1>3, <2>1, <2>2, <2>3 DEF NodesFit, InPlace
  <2>5. Rooted'
    <3>1. SUFFICES ASSUME NEW S \in SUBSET Present', S # {}
                   PROVE  \E n \in S : node'[n].parent \notin S
      BY DEF Rooted
    <3>2. CASE S \subseteq {k}
      <4>1. k \in S /\ node'[k].parent \notin S
        BY <1>3, <2>1, <2>2, <3>1, <3>2
      <4>2. QED BY <4>1
    <3>3. CASE ~(S \subseteq {k})
      <4>1. S \ {k} \in SUBSET Present /\ S \ {k} # {}
        BY <2>2, <3>3
      <4>2. PICK n \in S \ {k} : node[n].parent \notin S \ {k}
        BY <4>1 DEF NodesFit, Rooted
      <4>3. n \in Present /\ node[n].parent # k
        BY <1>3, <2>2, <4>1 DEF NodesFit, InPlace
      <4>4. QED BY <2>3, <4>2, <4>3
    <3>4. QED BY <3>2, <3>3
  <2>6. node[k].mark = NoTrash
    BY <1>1, <1>3 DEF NodesFit, MarksOpen
  <2>7. \A n \in Ids : node'[n].mark = node[n].mark
    BY <2>1, <2>6
  <2>8. MarksOpen'
    BY <1>1, <2>2, <2>7 DEF NodesFit, MarksOpen
  <2>9. ASSUME NEW n \in Present', ~node'[n].inherit PROVE CutOff(n)'
    <3>1. n \in Present /\ n \in Ids /\ CutOff(n) /\ node'[n].mark = node[n].mark
      BY <1>1, <2>1, <2>2, <2>3, <2>9 DEF NodesFit
    <3>2. CASE node[n].mark = NoTrash
      <4>1. Chain(n) \subseteq Present
        BY <3>1, ChainPresent DEF NodesFit
      <4>2. Chain(n)' \subseteq Chain(n)
        BY <2>3, <3>1, <4>1, ChainSame
      <4>3. QED BY <1>1, <2>7, <3>1, <3>2, <4>1, <4>2 DEF CutOff
    <3>3. CASE node[n].mark # NoTrash
      <4>1. node[n].mark \in TrashOps
        BY <3>1, <3>3, NodeFacts
      <4>2. \A m \in Ids : node[m].mark = node[n].mark => node'[m].parent = node[m].parent
        BY <2>1, <2>6, <3>3
      <4>3. QED BY <1>1, <2>7, <3>1, <4>1, <4>2, MarkedStays
    <3>4. QED BY <3>2, <3>3
  <2>10. \A q \in TreeRequests : CreateFits(q)'
    BY <1>1, <1>2, <1>3, <2>2 DEF NodesFit, CreateFits
  <2>11. QED BY <2>4, <2>5, <2>8, <2>9, <2>10 DEF NodesFit
<1>6. QED BY <1>4, <1>5

LEMMA MoveFits ==
    ASSUME TreeTypeOK, TreeTypeOK', NodesFit, NEW n \in Ids, NEW d \in Place, MoveNode(n, d)
    PROVE  NodesFit'
<1>1. /\ node \in [Ids -> NodeRow] /\ Present \subseteq Ids /\ d \in Ids \cup {Root}
      /\ trashed' = trashed /\ change' = change /\ Ids \in SUBSET Ids
      /\ Parents \in [Ids -> Place] /\ \A m \in Ids : Parents[m] = node[m].parent
  BY NodeFacts DEF TreeTypeOK, MoveNode
<1>2. /\ \A m \in Ids \ {n} : node'[m] = node[m]
      /\ node'[n].parent = d /\ node'[n].there = node[n].there /\ node'[n].mark = node[n].mark
      /\ node'[n].inherit = node[n].inherit
  <2>1. node[n] \in NodeRow
    BY <1>1
  <2>2. node' = [node EXCEPT ![n].parent = d,
                             ![n].modified = IF n \in FolderIds THEN moment' ELSE @]
    BY DEF MoveNode
  <2>3. QED BY <1>1, <2>1, <2>2 DEF NodeRow
<1>3. \A m \in Ids : /\ node'[m].mark = node[m].mark /\ node'[m].there = node[m].there
                     /\ node'[m].inherit = node[m].inherit
  BY <1>2
<1>4. Present' = Present
  BY <1>3 DEF Present
<1>5. n \in Present /\ node[n].mark = NoTrash /\ Seen(n)
  <2>1. Seen(n) /\ n \in Walk(Parents, n, Inheriting)
    BY <1>1, NodeFacts, WalkIs DEF MoveNode
  <2>2. QED BY <2>1 DEF Seen
\* The destination is in place, and nothing above it is marked or is the node.
<1>6. d \in Present \cup {Root} /\ n \notin Chain(d)
      /\ Chain(d) \subseteq Ids /\ \A m \in Chain(d) : node[m].mark = NoTrash
  <2>1. CASE d = Root
    BY <1>1, <2>1, WalkIs DEF Chain
  <2>2. CASE d # Root
    <3>1. Seen(d) /\ d \in Ids /\ n \notin Chain(d)
      BY <1>1, <2>2 DEF MoveNode, OpenPlace
    <3>2. d \in Present
      BY <3>1 DEF Seen
    <3>3. \A m \in Chain(d) : m \in Present /\ node[m].mark = NoTrash
      BY <3>1, SeenChain
    <3>4. QED BY <1>1, <3>1, <3>2, <3>3
  <2>3. QED BY <2>1, <2>2
<1>7. InPlace'
  BY <1>1, <1>2, <1>4, <1>6 DEF NodesFit, InPlace
<1>8. Rooted'
  <2>1. SUFFICES ASSUME NEW S \in SUBSET Present, S # {}, \A m \in S : node'[m].parent \in S
                 PROVE  FALSE
    BY <1>4 DEF Rooted
  <2>2. CASE n \notin S
    BY <1>1, <1>2, <2>1, <2>2 DEF NodesFit, Rooted
  <2>3. CASE n \in S
    <3>. DEFINE T == S \cap Chain(d)
    <3>1. d \in S /\ d \in Ids
      BY <1>1, <1>2, <2>1, <2>3
    <3>2. d \in Chain(d) /\ Upwards(Parents, Chain(d), Ids)
      BY <1>1, <3>1, WalkIs DEF Chain
    <3>3. ASSUME NEW m \in T PROVE node[m].parent \in T
      <4>1. m \in Ids /\ m # n /\ node[m].parent \in S
        BY <1>1, <1>2, <1>6, <2>1
      <4>2. node[m].parent \in Chain(d) \cup {Root}
        BY <1>1, <3>2, <4>1 DEF Upwards
      <4>3. Root \notin S
        BY <1>1, NodeFacts
      <4>4. QED BY <4>1, <4>2, <4>3
    <3>4. T \in SUBSET Present /\ d \in T
      BY <2>1, <3>1, <3>2
    <3>5. QED BY <3>3, <3>4 DEF NodesFit, Rooted
  <2>4. QED BY <2>2, <2>3
<1>9. MarksOpen'
  BY <1>1, <1>3, <1>4 DEF NodesFit, MarksOpen
<1>10. ASSUME NEW m \in Present', ~node'[m].inherit PROVE CutOff(m)'
  <2>1. CutOff(m) /\ m \in Ids /\ m \in Present
    BY <1>1, <1>3, <1>4, <1>10 DEF NodesFit
  <2>2. CASE node[m].mark = NoTrash
    <3>. DEFINE T == Chain(m) \cup Chain(d)
    <3>1. \A k \in T : node[k].mark = NoTrash
      BY <1>6, <2>1, <2>2 DEF CutOff
    <3>2. m \in Chain(m) /\ Chain(m) \subseteq Ids /\ Upwards(Parents, Chain(m), Ids)
      BY <1>1, <2>1, WalkIs DEF Chain
    <3>3. Upwards(Parents, Chain(d), Ids) /\ (d # Root => d \in Chain(d))
      BY <1>1, WalkIs DEF Chain
    <3>4. Parents' \in [Ids -> Place] /\ \A k \in Ids : Parents'[k] = node'[k].parent
      <4>1. \A k \in Ids : node'[k].parent \in Place
        BY DEF TreeTypeOK, NodeRow
      <4>2. QED BY <4>1 DEF Parents
    <3>5. Upwards(Parents', T, Ids)
      <4>1. ASSUME NEW k \in T PROVE Parents'[k] \in T \cup {Root}
        <5>1. k \in Ids
          BY <1>6, <3>2
        <5>2. CASE k = n
          BY <1>2, <3>3, <3>4, <5>1, <5>2
        <5>3. CASE k # n
          <6>1. Parents'[k] = Parents[k]
            BY <1>1, <1>2, <3>4, <5>1, <5>3
          <6>2. QED BY <3>2, <3>3, <5>1, <6>1 DEF Upwards
        <5>4. QED BY <5>2, <5>3
      <4>2. QED BY <4>1 DEF Upwards
    <3>6. T \in SUBSET Ids /\ m \in T
      BY <1>6, <3>2
    <3>7. Walk(Parents', m, Ids) \subseteq T
      BY <1>1, <2>1, <3>4, <3>5, <3>6, WalkIs
    <3>8. Chain(m)' \subseteq T
      BY <3>7 DEF Chain
    <3>9. QED BY <1>3, <2>1, <2>2, <3>1, <3>6, <3>8 DEF CutOff
  <2>3. CASE node[m].mark # NoTrash
    <3>1. node[m].mark \in TrashOps
      BY <2>1, <2>3, NodeFacts
    <3>2. \A k \in Ids : node[k].mark = node[m].mark => node'[k].parent = node[k].parent
      BY <1>2, <1>5, <2>3
    <3>3. QED BY <1>1, <1>3, <2>1, <3>1, <3>2, MarkedStays
  <2>4. QED BY <2>2, <2>3
<1>11. \A r \in TreeRequests : CreateFits(r)'
  BY <1>1, <1>4, CreatesStay
<1>12. QED BY <1>7, <1>8, <1>9, <1>10, <1>11 DEF NodesFit

LEMMA MarkIs ==
    ASSUME TreeTypeOK, NEW marked \in SUBSET Ids, NEW mark, Mark(marked, mark)
    PROVE  \A m \in Ids :
              /\ node'[m].parent = node[m].parent /\ node'[m].there = node[m].there
              /\ node'[m].inherit = node[m].inherit
              /\ node'[m].mark = IF m \in marked THEN mark ELSE node[m].mark
<1>1. SUFFICES ASSUME NEW m \in Ids
               PROVE  /\ node'[m].parent = node[m].parent /\ node'[m].there = node[m].there
                      /\ node'[m].inherit = node[m].inherit
                      /\ node'[m].mark = IF m \in marked THEN mark ELSE node[m].mark
  OBVIOUS
<1>2. node[m] \in NodeRow
  BY DEF TreeTypeOK
<1>. DEFINE moved == IF m \in FolderIds THEN moment' ELSE node[m].modified
<1>3. node'[m] = IF m \notin marked THEN node[m]
                 ELSE [node[m] EXCEPT !.mark = mark, !.modified = moved]
  BY DEF Mark
<1>. HIDE DEF moved
<1>4. CASE m \in marked
  <2>1. node'[m] = [node[m] EXCEPT !.mark = mark, !.modified = moved]
    BY <1>3, <1>4
  <2>2. QED BY <1>2, <1>4, <2>1 DEF NodeRow
<1>5. CASE m \notin marked
  BY <1>3, <1>5
<1>6. QED BY <1>4, <1>5

\* All that is below the root is marked, but what an earlier operation marked.
LEMMA TrashFits ==
    ASSUME TreeTypeOK, TreeTypeOK', NodesFit, NEW n \in Ids, NEW o \in TrashOps, TrashNode(n, o)
    PROVE  NodesFit'
<1>. DEFINE marked == {m \in Below(n) : node[m].mark = NoTrash}
<1>1. /\ Present \subseteq Ids /\ Ids \in SUBSET Ids /\ o # NoTrash
      /\ Parents \in [Ids -> Place] /\ \A m \in Ids : Parents[m] = node[m].parent
      /\ marked \in SUBSET Present /\ marked \in SUBSET Ids /\ change' = change
  BY NodeFacts DEF TrashNode, Below
<1>2. /\ trashed \in [TrashOps -> TrashRow] /\ ~trashed[o].open
      /\ trashed' = [trashed EXCEPT ![o] = [open |-> TRUE, root |-> n, origin |-> node[n].parent]]
      /\ Mark(marked, o)
  BY DEF TreeTypeOK, TrashNode
<1>3. \A m \in Ids :
         /\ node'[m].parent = node[m].parent /\ node'[m].there = node[m].there
         /\ node'[m].inherit = node[m].inherit
         /\ node'[m].mark = IF m \in marked THEN o ELSE node[m].mark
  <2>1. Mark(marked, o) /\ marked \in SUBSET Ids
    BY <1>1, <1>2
  <2>. HIDE DEF marked
  <2>2. QED BY <2>1, MarkIs
<1>4. /\ trashed'[o].open /\ trashed'[o].root = n
      /\ \A p \in TrashOps \ {o} : trashed'[p] = trashed[p]
  BY <1>2
<1>5. /\ Present' = Present /\ Parents' = Parents /\ \A m \in Ids : Chain(m)' = Chain(m)
  BY <1>3 DEF Present, Parents, Chain
<1>6. InPlace' /\ Rooted'
  BY <1>1, <1>3, <1>5 DEF NodesFit, InPlace, Rooted
<1>7. \A m \in Ids : node[m].mark # o
  BY <1>1, <1>2 DEF NodesFit, MarksOpen
<1>8. MarksOpen'
  <2>1. SUFFICES ASSUME NEW m \in Ids, node'[m].mark # NoTrash
                 PROVE  m \in Present /\ trashed'[node'[m].mark].open
    BY <1>5 DEF MarksOpen
  <2>2. CASE m \in marked
    BY <1>1, <1>3, <1>4, <2>2
  <2>3. CASE m \notin marked
    <3>1. node'[m].mark = node[m].mark /\ node[m].mark \in TrashOps \ {o}
      BY <1>3, <1>7, <2>1, <2>3, NodeFacts
    <3>2. QED BY <1>4, <2>1, <3>1 DEF NodesFit, MarksOpen
  <2>4. QED BY <2>2, <2>3
<1>9. ASSUME NEW k \in Present', ~node'[k].inherit PROVE CutOff(k)'
  <2>1. CutOff(k) /\ k \in Ids /\ k \in Present
    BY <1>1, <1>3, <1>5, <1>9 DEF NodesFit
  <2>2. k \in Chain(k) /\ Chain(k) \subseteq Present /\ Upwards(Parents, Chain(k), Ids)
    BY <1>1, <2>1, ChainPresent, WalkIs DEF Chain, NodesFit
  <2>3. CASE k \in marked
    <3>. DEFINE S == Chain(k) \cap marked
    <3>1. \A m \in Chain(k) : node[m].mark = NoTrash
      BY <2>1, <2>3 DEF CutOff
    <3>2. UpTo(o)' \in SUBSET Ids /\ n \notin UpTo(o)'
      BY <1>4 DEF UpTo, MarkedBy
    <3>3. ASSUME NEW m \in S, m # n PROVE Parents[m] \in S
      <4>1. m \in Ids /\ n \in Chain(m) /\ m \in Present
        BY <1>1, <3>3 DEF Below
      <4>2. n \in Chain(Parents[m])
        BY <1>1, <3>3, <4>1, WalkSteps DEF Chain
      <4>3. Parents[m] # Root
        BY <1>1, <4>2, WalkIs DEF Chain
      <4>4. Parents[m] \in Chain(k)
        BY <2>2, <4>1, <4>3 DEF Upwards
      <4>5. QED BY <2>2, <3>1, <4>2, <4>4 DEF Below
    <3>4. Upwards(Parents, S, UpTo(o)')
      BY <3>2, <3>3 DEF Upwards
    <3>5. S \in SUBSET Ids /\ k \in S
      BY <1>1, <2>2, <2>3
    <3>6. Walk(Parents, k, UpTo(o)') \subseteq S
      BY <1>1, <2>1, <3>2, <3>4, <3>5, WalkIs
    <3>7. \A m \in Walk(Parents', k, UpTo(o)') : node'[m].mark = o
      BY <1>3, <1>5, <3>5, <3>6
    <3>8. node'[k].mark = o
      BY <1>3, <2>1, <2>3
    <3>9. QED BY <1>1, <3>7, <3>8 DEF CutOff
  <2>4. CASE k \notin marked /\ node[k].mark = NoTrash
    <3>1. \A m \in Chain(k) : node[m].mark = NoTrash
      BY <2>1, <2>4 DEF CutOff
    <3>2. ASSUME NEW m \in Chain(k) PROVE m \notin marked
      <4>1. SUFFICES ASSUME m \in marked PROVE FALSE
        OBVIOUS
      <4>2. n \in Chain(m)
        BY <4>1 DEF Below
      <4>3. Chain(m) \subseteq Chain(k)
        BY <1>1, <2>1, WalkGoesOn DEF Chain
      <4>4. k \in Below(n)
        BY <2>1, <4>2, <4>3 DEF Below
      <4>5. QED BY <2>4, <4>4
    <3>3. \A m \in Chain(k) : node'[m].mark = NoTrash
      BY <1>1, <1>3, <2>2, <3>1, <3>2
    <3>4. QED BY <1>5, <2>1, <2>2, <3>3 DEF CutOff
  <2>5. CASE k \notin marked /\ node[k].mark # NoTrash
    <3>. DEFINE p == node[k].mark
    <3>1. p \in TrashOps \ {o}
      BY <1>7, <2>1, <2>5, NodeFacts
    <3>2. \A m \in Ids : node'[m].mark = p <=> node[m].mark = p
      BY <1>3, <2>5, <3>1
    <3>3. trashed'[p].root = trashed[p].root
      BY <1>4, <3>1
    <3>4. QED BY <1>3, <2>1, <3>1, <3>2, <3>3, MarkedStays
  <2>6. QED BY <2>3, <2>4, <2>5
<1>10. \A r \in TreeRequests : CreateFits(r)'
  BY <1>1, <1>5, CreatesStay
<1>11. QED BY <1>6, <1>8, <1>9, <1>10 DEF NodesFit

\* What an operation marked comes back where nothing above is marked.
LEMMA RestoreFits ==
    ASSUME TreeTypeOK, TreeTypeOK', NodesFit, NEW o \in TrashOps, RestoreNode(o)
    PROVE  NodesFit'
<1>. DEFINE back == {m \in Present : node[m].mark = o}
            root == trashed[o].root
            origin == trashed[o].origin
<1>1. /\ Present \subseteq Ids /\ Ids \in SUBSET Ids /\ o # NoTrash
      /\ Parents \in [Ids -> Place] /\ \A m \in Ids : Parents[m] = node[m].parent
      /\ back \in SUBSET Present /\ back \in SUBSET Ids /\ change' = change
  BY NodeFacts DEF RestoreNode
<1>2. /\ trashed \in [TrashOps -> TrashRow] /\ trashed' = [trashed EXCEPT ![o].open = FALSE]
      /\ Mark(back, NoTrash) /\ node[root].parent = origin
      /\ \A m \in Chain(origin) : node[m].mark = NoTrash
  BY DEF TreeTypeOK, RestoreNode
<1>3. \A m \in Ids :
         /\ node'[m].parent = node[m].parent /\ node'[m].there = node[m].there
         /\ node'[m].inherit = node[m].inherit
         /\ node'[m].mark = IF m \in back THEN NoTrash ELSE node[m].mark
  <2>1. Mark(back, NoTrash) /\ back \in SUBSET Ids
    BY <1>1, <1>2
  <2>. HIDE DEF back
  <2>2. QED BY <2>1, MarkIs
<1>4. \A p \in TrashOps \ {o} : trashed'[p] = trashed[p]
  BY <1>2
<1>5. /\ Present' = Present /\ Parents' = Parents /\ \A m \in Ids : Chain(m)' = Chain(m)
  BY <1>3 DEF Present, Parents, Chain
<1>6. InPlace' /\ Rooted'
  BY <1>1, <1>3, <1>5 DEF NodesFit, InPlace, Rooted
<1>7. \A m \in Ids : node[m].mark = o => m \in back
  BY <1>1 DEF NodesFit, MarksOpen
<1>8. MarksOpen'
  <2>1. SUFFICES ASSUME NEW m \in Ids, node'[m].mark # NoTrash
                 PROVE  m \in Present /\ trashed'[node'[m].mark].open
    BY <1>5 DEF MarksOpen
  <2>2. node'[m].mark = node[m].mark /\ node[m].mark \in TrashOps \ {o}
    BY <1>3, <1>7, <2>1, NodeFacts
  <2>3. QED BY <1>4, <2>1, <2>2 DEF NodesFit, MarksOpen
<1>9. ASSUME NEW k \in Present', ~node'[k].inherit PROVE CutOff(k)'
  <2>1. CutOff(k) /\ k \in Ids /\ k \in Present
    BY <1>1, <1>3, <1>5, <1>9 DEF NodesFit
  <2>2. CASE k \in back
    <3>. DEFINE W == Walk(Parents, k, UpTo(o))
                T == W \cup Chain(origin)
    <3>1. \A m \in W : node[m].mark = o
      BY <1>1, <2>1, <2>2 DEF CutOff
    <3>2. origin \in Ids \cup {Root} /\ UpTo(o) \in SUBSET Ids
      BY <1>2, NodeFacts DEF TrashRow
    <3>3. /\ W \in SUBSET Ids /\ k \in W /\ Upwards(Parents, W, UpTo(o))
          /\ Chain(origin) \in SUBSET Ids /\ Upwards(Parents, Chain(origin), Ids)
          /\ origin \in Chain(origin) \cup {Root}
      BY <1>1, <2>1, <3>2, WalkIs DEF Chain
    <3>4. ASSUME NEW m \in W PROVE Parents[m] \in T \cup {Root}
      <4>1. CASE m = root
        BY <1>1, <1>2, <3>3, <4>1
      <4>2. CASE m # root
        <5>1. m \in UpTo(o)
          BY <3>1, <3>3, <4>2 DEF UpTo, MarkedBy
        <5>2. QED BY <3>3, <5>1 DEF Upwards
      <4>3. QED BY <4>1, <4>2
    <3>5. Upwards(Parents, T, Ids)
      BY <3>3, <3>4 DEF Upwards
    <3>6. Chain(k) \subseteq T
      BY <1>1, <2>1, <3>3, <3>5, WalkIs DEF Chain
    <3>7. \A m \in T : m \in Ids /\ node'[m].mark = NoTrash
      BY <1>2, <1>3, <1>7, <3>1, <3>3
    <3>8. QED BY <1>5, <2>1, <3>3, <3>6, <3>7 DEF CutOff
  <2>3. CASE k \notin back /\ node[k].mark = NoTrash
    <3>1. Chain(k) \subseteq Ids
      BY <1>1, <2>1, WalkIs DEF Chain
    <3>2. \A m \in Chain(k) : node'[m].mark = NoTrash
      BY <1>3, <2>1, <2>3, <3>1 DEF CutOff
    <3>3. node'[k].mark = NoTrash
      BY <1>3, <2>1, <2>3
    <3>4. QED BY <1>5, <2>1, <3>2, <3>3 DEF CutOff
  <2>4. CASE k \notin back /\ node[k].mark # NoTrash
    <3>. DEFINE p == node[k].mark
    <3>1. p \in TrashOps \ {o}
      BY <1>7, <2>1, <2>4, NodeFacts
    <3>2. \A m \in Ids : node'[m].mark = p <=> node[m].mark = p
      BY <1>3, <2>4, <3>1
    <3>3. trashed'[p].root = trashed[p].root
      BY <1>4, <3>1
    <3>4. QED BY <1>3, <2>1, <3>1, <3>2, <3>3, MarkedStays
  <2>5. QED BY <2>2, <2>3, <2>4
<1>10. \A r \in TreeRequests : CreateFits(r)'
  BY <1>1, <1>5, CreatesStay
<1>11. QED BY <1>6, <1>8, <1>9, <1>10 DEF NodesFit

LEMMA RemoveFits ==
    ASSUME TreeTypeOK, TreeTypeOK', NodesFit, NEW n \in Ids, RemoveFile(n)
    PROVE  NodesFit'
<1>1. /\ node \in [Ids -> NodeRow] /\ node[n] \in NodeRow /\ n \notin Place
      /\ node[n].mark = NoTrash /\ node' = [node EXCEPT ![n].there = FALSE]
      /\ trashed' = trashed /\ change' = change /\ Present \subseteq Ids
  BY NodeFacts, TreeConstants DEF TreeTypeOK, RemoveFile, Place
<1>2. \A m \in Ids :
         /\ node'[m].parent = node[m].parent /\ node'[m].mark = node[m].mark
         /\ node'[m].inherit = node[m].inherit
         /\ node'[m].there = IF m = n THEN FALSE ELSE node[m].there
  <2>1. \A m \in Ids : node[m] \in NodeRow
    BY <1>1
  <2>2. QED BY <1>1, <2>1 DEF NodeRow
<1>3. Present' = Present \ {n}
  BY <1>2 DEF Present
<1>4. InPlace'
  <2>1. \A m \in Present : node[m].parent \in Place
    BY <1>1, NodeFacts
  <2>2. QED BY <1>1, <1>2, <1>3, <2>1 DEF NodesFit, InPlace
<1>5. MarksOpen'
  BY <1>1, <1>2, <1>3 DEF NodesFit, MarksOpen
<1>6. \A r \in TreeRequests : CreateFits(r)'
  <2>1. \A r \in TreeRequests : change[r].at \in Place
    BY DEF TreeTypeOK, TreeChange
  <2>2. QED BY <1>1, <1>3, <2>1 DEF NodesFit, CreateFits
<1>7. \A m \in Present : ~node'[m].inherit => ~node[m].inherit \/ CutOff(m)
  BY <1>1, <1>2
<1>8. QED BY <1>1, <1>2, <1>3, <1>4, <1>5, <1>6, <1>7, SameWays

\* Whoever cuts a node off has seen it, so nothing above it is in the trash.
LEMMA GrantFits ==
    ASSUME TreeTypeOK, TreeTypeOK', NodesFit, NEW n \in Ids,
           SetInheritance(n) \/ \E p \in Principals : SetOwner(n, p) \/ RemoveOwner(n, p)
    PROVE  NodesFit'
<1>1. PICK row : /\ Grant(n, row) /\ row.parent = node[n].parent /\ row.mark = node[n].mark
                 /\ row.there = node[n].there
  <2>1. node[n] \in NodeRow
    BY DEF TreeTypeOK
  <2>2. CASE SetInheritance(n)
    <3>. DEFINE row == [node[n] EXCEPT !.inherit = ~@]
    <3>1. Grant(n, row)
      BY <2>2 DEF SetInheritance
    <3>2. row.parent = node[n].parent /\ row.mark = node[n].mark /\ row.there = node[n].there
      BY <2>1 DEF NodeRow
    <3>3. QED BY <3>1, <3>2
  <2>3. ASSUME NEW owners, Grant(n, [node[n] EXCEPT !.owners = owners])
        PROVE  \E row : /\ Grant(n, row) /\ row.parent = node[n].parent
                        /\ row.mark = node[n].mark /\ row.there = node[n].there
    <3>. DEFINE row == [node[n] EXCEPT !.owners = owners]
    <3>1. row.parent = node[n].parent /\ row.mark = node[n].mark /\ row.there = node[n].there
      BY <2>1 DEF NodeRow
    <3>2. QED BY <2>3, <3>1
  <2>4. ASSUME NEW p \in Principals, SetOwner(n, p) \/ RemoveOwner(n, p)
        PROVE  \E owners : Grant(n, [node[n] EXCEPT !.owners = owners])
    <3>1. CASE SetOwner(n, p)
      <4>1. Grant(n, [node[n] EXCEPT !.owners = node[n].owners \cup {p}])
        BY <3>1 DEF SetOwner
      <4>2. QED BY <4>1
    <3>2. CASE RemoveOwner(n, p)
      <4>1. Grant(n, [node[n] EXCEPT !.owners = node[n].owners \ {p}])
        BY <3>2 DEF RemoveOwner
      <4>2. QED BY <4>1
    <3>3. QED BY <2>4, <3>1, <3>2
  <2>5. QED BY <2>2, <2>3, <2>4
<1>2. /\ node \in [Ids -> NodeRow] /\ node' = [node EXCEPT ![n] = row]
      /\ trashed' = trashed /\ change' = change /\ node[n].mark = NoTrash /\ Seen(n)
  BY <1>1 DEF TreeTypeOK, Grant
<1>3. \A m \in Ids : /\ node'[m].parent = node[m].parent /\ node'[m].mark = node[m].mark
                     /\ node'[m].there = node[m].there /\ (m # n => node'[m] = node[m])
  BY <1>1, <1>2
<1>4. CutOff(n)
  BY <1>2, SeenChain DEF CutOff
<1>5. \A m \in Present : ~node'[m].inherit => ~node[m].inherit \/ CutOff(m)
  BY <1>3, <1>4, NodeFacts
<1>6. Present' = Present => \A r \in TreeRequests : CreateFits(r)'
  BY <1>2, CreatesStay
<1>7. QED BY <1>2, <1>3, <1>5, <1>6, SameTree

LEMMA QuietFits ==
    ASSUME TreeTypeOK, TreeTypeOK', NodesFit,
           \/ UNCHANGED treeVars
           \/ \E r \in TreeRequests : RenameWrite(r)
           \/ \E r \in TreeRequests, n \in Ids, name \in TreeNames : RenameCheck(r, n, name)
           \/ \E n \in Ids : ContentChanges(n)
           \/ \E d \in Place, sort \in SortKeys, ascending \in BOOLEAN :
                StartListing(d, sort, ascending)
           \/ Browse \/ ReadIds \/ ReadNodes
    PROVE  NodesFit'
<1>1. /\ node \in [Ids -> NodeRow] /\ change \in [TreeRequests -> TreeChange]
      /\ Present \subseteq Ids /\ NoChange.pc = "idle"
      /\ \A r \in TreeRequests : change[r].node \in Ids
  <2>1. node \in [Ids -> NodeRow] /\ change \in [TreeRequests -> TreeChange]
    BY DEF TreeTypeOK
  <2>2. QED BY <2>1, NodeFacts DEF TreeChange, NoChange
<1>2. SUFFICES /\ trashed' = trashed
               /\ \A n \in Ids : /\ node'[n].parent = node[n].parent
                                 /\ node'[n].mark = node[n].mark
                                 /\ node'[n].there = node[n].there
                                 /\ node'[n].inherit = node[n].inherit
               /\ \A r \in TreeRequests : change'[r].pc = "create" => change'[r] = change[r]
  BY <1>1, CreatesStay, SameTree
<1>3. CASE UNCHANGED <<node, trashed, change>>
  BY <1>3
<1>4. ASSUME NEW r \in TreeRequests, RenameWrite(r)
      PROVE  /\ trashed' = trashed
             /\ \A n \in Ids : /\ node'[n].parent = node[n].parent
                               /\ node'[n].mark = node[n].mark
                               /\ node'[n].there = node[n].there
                               /\ node'[n].inherit = node[n].inherit
             /\ \A q \in TreeRequests : change'[q].pc = "create" => change'[q] = change[q]
  <2>. DEFINE n == change[r].node
  <2>1. /\ trashed' = trashed /\ change' = [change EXCEPT ![r] = NoChange]
        /\ \/ node' = node
           \/ node' = [node EXCEPT ![n].name = change[r].name,
                                   ![n].modified = IF n \in FolderIds THEN moment' ELSE @]
    BY <1>4 DEF RenameWrite, EndChange
  <2>2. \A q \in TreeRequests : change'[q].pc = "create" => change'[q] = change[q]
    BY <1>1, <2>1
  <2>3. n \in Ids /\ node[n] \in NodeRow
    BY <1>1
  <2>4. ASSUME NEW m \in Ids
        PROVE  /\ node'[m].parent = node[m].parent /\ node'[m].mark = node[m].mark
               /\ node'[m].there = node[m].there /\ node'[m].inherit = node[m].inherit
    BY <1>1, <2>1, <2>3 DEF NodeRow
  <2>5. QED BY <2>1, <2>2, <2>4
<1>5. ASSUME NEW r \in TreeRequests, NEW n \in Ids, NEW name \in TreeNames, RenameCheck(r, n, name)
      PROVE  /\ UNCHANGED <<trashed, node>>
             /\ \A q \in TreeRequests : change'[q].pc = "create" => change'[q] = change[q]
  <2>1. [NoChange EXCEPT !.pc = "rename", !.node = n, !.name = name].pc = "rename"
    BY DEF NoChange
  <2>2. QED BY <1>1, <1>5, <2>1 DEF RenameCheck
<1>6. ASSUME NEW n \in Ids, ContentChanges(n)
      PROVE  /\ UNCHANGED <<trashed, change>>
             /\ \A m \in Ids : /\ node'[m].parent = node[m].parent
                               /\ node'[m].mark = node[m].mark
                               /\ node'[m].there = node[m].there
                               /\ node'[m].inherit = node[m].inherit
  <2>1. PICK moved : node' = [node EXCEPT ![n].modified = moved]
    BY <1>6 DEF ContentChanges
  <2>2. node[n] \in NodeRow
    BY <1>1
  <2>3. ASSUME NEW m \in Ids
        PROVE  /\ node'[m].parent = node[m].parent /\ node'[m].mark = node[m].mark
               /\ node'[m].there = node[m].there /\ node'[m].inherit = node[m].inherit
    BY <1>1, <2>1, <2>2 DEF NodeRow
  <2>4. QED BY <1>6, <2>3 DEF ContentChanges
<1>7. UNCHANGED treeVars \/ Browse \/ ReadIds \/ ReadNodes
      \/ (\E d \in Place, sort \in SortKeys, ascending \in BOOLEAN : StartListing(d, sort, ascending))
      => UNCHANGED <<node, trashed, change>>
  BY DEF treeVars, Browse, ReadIds, ReadNodes, StartListing
<1>8. QED BY <1>3, <1>4, <1>5, <1>6, <1>7

\* A folder is created where the request has seen a place.
LEMMA CheckFits ==
    ASSUME TreeTypeOK, TreeTypeOK', NodesFit, NEW r \in TreeRequests, NEW n \in Ids,
           NEW d \in Place, NEW name \in TreeNames, CreateCheck(r, n, d, name)
    PROVE  NodesFit'
<1>1. /\ change \in [TreeRequests -> TreeChange] /\ UNCHANGED <<node, trashed>>
      /\ n \notin Present /\ change[r].pc = "idle"
      /\ \A q \in TreeRequests : change[q].node # n \/ change[q].pc = "idle"
      /\ change' = [change EXCEPT ![r] = [pc |-> "create", node |-> n, at |-> d, name |-> name]]
  BY DEF TreeTypeOK, CreateCheck
<1>2. d \in Present \cup {Root}
  BY DEF CreateCheck, OpenPlace, Seen
<1>3. /\ change'[r] = [pc |-> "create", node |-> n, at |-> d, name |-> name]
      /\ \A q \in TreeRequests \ {r} : change'[q] = change[q]
  BY <1>1
<1>4. Present' = Present => \A q \in TreeRequests : CreateFits(q)'
  BY <1>1, <1>2, <1>3 DEF NodesFit, CreateFits
<1>5. QED BY <1>1, <1>4, SameTree

LEMMA NodesFitNext ==
    ASSUME TreeTypeOK, TreeTypeOK', NodesFit, [TreeNext]_treeVars
    PROVE  NodesFit'
BY InsertFits, MoveFits, TrashFits, RestoreFits, RemoveFits, GrantFits, QuietFits, CheckFits
   DEF TreeNext

LEMMA NodesFitInit == TreeInit => NodesFit
<1>1. SUFFICES ASSUME TreeInit PROVE NodesFit
  OBVIOUS
<1>2. /\ world.there \subseteq Ids /\ world \in Trees
      /\ \A n \in world.there : world.parent[n] \in world.there \cup {Root}
      /\ \A S \in SUBSET world.there : S # {} => \E n \in S : world.parent[n] \notin S
  BY <1>1, TreesAreTrees DEF TreeInit, Tree
<1>3. \A n \in Ids : /\ node[n].there <=> n \in world.there
                     /\ node[n].parent = world.parent[n] /\ node[n].inherit
                     /\ node[n].mark = NoTrash
  BY <1>1 DEF TreeInit
<1>4. Present = world.there
  BY <1>2, <1>3 DEF Present
<1>5. InPlace /\ Rooted /\ MarksOpen
  BY <1>2, <1>3, <1>4 DEF InPlace, Rooted, MarksOpen
<1>6. \A n \in Present : node[n].inherit
  BY <1>2, <1>3, <1>4
<1>7. \A r \in TreeRequests : CreateFits(r)
  BY <1>1 DEF TreeInit, NoChange, CreateFits
<1>8. QED BY <1>5, <1>6, <1>7 DEF NodesFit

-----------------------------------------------------------------------------
(* The listing of a folder, page by page.                                  *)

InFolder(n) == n \in ChildrenOf(listing.folder) /\ node[n].mark = NoTrash
Listed == {"browse", "ids", "nodes"}
\* What a page has read first: rows behind the cursor, and all that stayed there
\* unless the page is full with rows before it.
PageFits ==
    /\ \A k \in listing.ids : k.node \in Present /\ k = RowOf(k.node) /\ AfterCursor(k.node)
    /\ \A n \in listing.stayed : AfterCursor(n) =>
          \/ RowOf(n) \in listing.ids
          \/ /\ Cardinality(listing.ids) = PageLimit + 1
             /\ \A k \in listing.ids : Precedes(k, RowOf(n))
\* What stayed was shown up to the cursor, once, and not behind it.
ListingFits ==
    /\ listing.pc = "idle" => listing.cursor = {} /\ listing.shown = NothingShown
    /\ ~listing.slipped =>
          /\ listing.pc \in Listed =>
                \A n \in listing.stayed :
                   InFolder(n) /\ listing.shown[n] = (IF AfterCursor(n) THEN 0 ELSE 1)
          /\ listing.pc = "nodes" => PageFits
          /\ listing.pc = "done" => \A n \in listing.stayed : listing.shown[n] = 1

LEMMA OrderFacts ==
    ASSUME NEW k \in ListedRow, NEW l \in ListedRow, NEW m \in ListedRow
    PROVE  /\ ~Precedes(k, k) /\ (Precedes(k, l) => ~Precedes(l, k))
           /\ Precedes(k, l) /\ Precedes(l, m) => Precedes(k, m)
<1>1. \A r \in ListedRow : r.value \in Nat /\ r.node \in Nat
  <2>1. TreeNames \cup Moments \subseteq Nat
    BY TreeConstants DEF TreeNames, Moments
  <2>2. Ids \subseteq Nat
    BY <2>1, TreeConstants DEF TreeNames
  <2>3. ASSUME NEW r \in ListedRow PROVE r.value \in TreeNames \cup Moments /\ r.node \in Ids
    BY DEF ListedRow
  <2>4. QED BY <2>1, <2>2, <2>3
<1>2. k.value \in Nat /\ l.value \in Nat /\ m.value \in Nat
      /\ k.node \in Nat /\ l.node \in Nat /\ m.node \in Nat
  BY <1>1
<1>3. CASE listing.ascending
  BY <1>2, <1>3 DEF Precedes, Ordered
<1>4. CASE ~listing.ascending
  BY <1>2, <1>4 DEF Precedes, Ordered
<1>5. QED BY <1>3, <1>4

SameRow(n) ==
    /\ node'[n].there = node[n].there /\ node'[n].parent = node[n].parent
    /\ node'[n].mark = node[n].mark /\ node'[n].name = node[n].name
    /\ node'[n].modified = node[n].modified
SameListing ==
    \A field \in {"pc", "folder", "sort", "ascending", "cursor", "ids", "shown"} :
       listing'[field] = listing[field]

LEMMA ListingStays ==
    ASSUME TreeTypeOK, ListingFits, SameListing, listing'.stayed \subseteq listing.stayed,
           listing.slipped => listing'.slipped,
           ~listing'.slipped /\ listing.pc \in Listed => \A n \in listing'.stayed : SameRow(n),
           ~listing'.slipped /\ listing.pc = "nodes" => \A k \in listing.ids : SameRow(k.node)
    PROVE  ListingFits'
<1>1. /\ listing'.pc = listing.pc /\ listing'.folder = listing.folder
      /\ listing'.sort = listing.sort /\ listing'.ascending = listing.ascending
      /\ listing'.cursor = listing.cursor /\ listing'.ids = listing.ids
      /\ listing'.shown = listing.shown
  BY DEF SameListing
<1>2. listing \in Listing /\ Present \subseteq Ids
  BY NodeFacts DEF TreeTypeOK
<1>3. listing.stayed \subseteq Ids /\ \A k \in listing.ids : k.node \in Ids
  BY <1>2 DEF Listing, ListedRow
<1>4. \A k, l : Precedes(k, l)' <=> Precedes(k, l)
  BY <1>1 DEF Precedes, Ordered
<1>5. ASSUME NEW n \in Ids, SameRow(n)
      PROVE  /\ RowOf(n)' = RowOf(n) /\ (AfterCursor(n)' <=> AfterCursor(n))
             /\ (n \in Present' <=> n \in Present) /\ (InFolder(n)' <=> InFolder(n))
  <2>1. RowOf(n)' = RowOf(n)
    BY <1>1, <1>5 DEF RowOf, SortValue, SameRow
  <2>2. n \in Present' <=> n \in Present
    BY <1>5 DEF Present, SameRow
  <2>3. InFolder(n)' <=> InFolder(n)
    BY <1>1, <1>5, <2>2 DEF InFolder, ChildrenOf, SameRow
  <2>4. AfterCursor(n)' <=> AfterCursor(n)
    BY <1>1, <1>4, <2>1 DEF AfterCursor
  <2>5. QED BY <2>1, <2>2, <2>3, <2>4
<1>6. SUFFICES ASSUME ~listing'.slipped
               PROVE  /\ listing.pc \in Listed => \A n \in listing'.stayed :
                           InFolder(n)' /\ listing.shown[n] = (IF AfterCursor(n)' THEN 0 ELSE 1)
                      /\ listing.pc = "nodes" => PageFits'
                      /\ listing.pc = "done" => \A n \in listing'.stayed : listing.shown[n] = 1
  BY <1>1 DEF ListingFits
<1>7. ~listing.slipped
  BY <1>6
<1>8. ASSUME listing.pc \in Listed, NEW n \in listing'.stayed
      PROVE  InFolder(n)' /\ listing.shown[n] = (IF AfterCursor(n)' THEN 0 ELSE 1)
  <2>1. n \in Ids /\ SameRow(n) /\ n \in listing.stayed
    BY <1>3, <1>6, <1>8
  <2>2. QED BY <1>5, <1>7, <1>8, <2>1 DEF ListingFits
<1>9. ASSUME listing.pc = "nodes" PROVE PageFits'
  <2>1. PageFits
    BY <1>7, <1>9 DEF ListingFits
  <2>2. ASSUME NEW k \in listing.ids
        PROVE  k.node \in Present' /\ k = RowOf(k.node)' /\ AfterCursor(k.node)'
    <3>1. k.node \in Ids /\ SameRow(k.node)
      BY <1>3, <1>6, <1>9
    <3>2. QED BY <1>5, <2>1, <3>1 DEF PageFits
  <2>3. ASSUME NEW n \in listing'.stayed, AfterCursor(n)'
        PROVE  \/ RowOf(n)' \in listing.ids
               \/ /\ Cardinality(listing.ids) = PageLimit + 1
                  /\ \A k \in listing.ids : Precedes(k, RowOf(n))'
    <3>1. n \in Ids /\ SameRow(n) /\ n \in listing.stayed
      BY <1>3, <1>6, <1>9 DEF Listed
    <3>2. RowOf(n)' = RowOf(n) /\ AfterCursor(n)
      BY <1>5, <2>3, <3>1
    <3>3. QED BY <1>4, <2>1, <3>1, <3>2 DEF PageFits
  <2>4. QED BY <1>1, <2>2, <2>3 DEF PageFits
<1>10. QED BY <1>6, <1>7, <1>8, <1>9 DEF ListingFits

LEMMA Disturbed ==
    ASSUME TreeTypeOK, ListingFits, NEW changed, Disturb(changed),
           \A m \in Ids : m \notin changed => node'[m] = node[m]
    PROVE  ListingFits'
<1>. DEFINE slips == listing.slipped
               \/ (listing.pc = "nodes" /\ \E k \in listing.ids : k.node \in changed)
<1>1. /\ listing \in Listing
      /\ listing' = [listing EXCEPT !.stayed = listing.stayed \ changed, !.slipped = slips]
  BY DEF TreeTypeOK, Disturb
<1>. HIDE DEF slips
<1>2. /\ SameListing /\ listing'.stayed = listing.stayed \ changed /\ listing'.slipped = slips
  BY <1>1 DEF Listing, SameListing
<1>3. listing.stayed \subseteq Ids /\ \A k \in listing.ids : k.node \in Ids
  BY <1>1 DEF Listing, ListedRow
<1>4. \A m \in Ids : m \notin changed => SameRow(m)
  BY DEF SameRow
<1>5. QED BY <1>2, <1>3, <1>4, ListingStays DEF slips

LEMMA Undisturbed ==
    ASSUME TreeTypeOK, ListingFits, listing' = listing, \A m \in Present : SameRow(m)
    PROVE  ListingFits'
<1>1. SameListing
  BY DEF SameListing
<1>2. ~listing.slipped /\ listing.pc \in Listed => \A n \in listing.stayed : n \in Present
  BY DEF ListingFits, InFolder, ChildrenOf
<1>3. ~listing.slipped /\ listing.pc = "nodes" => \A k \in listing.ids : k.node \in Present
  BY DEF ListingFits, PageFits
<1>4. QED BY <1>1, <1>2, <1>3, ListingStays

\* What other users do while a folder is listed.
LEMMA OthersList ==
    ASSUME TreeTypeOK, NodesFit, ListingFits,
           \/ UNCHANGED treeVars
           \/ \E r \in TreeRequests : CreateInsert(r) \/ RenameWrite(r)
           \/ \E r \in TreeRequests, n \in Ids, name \in TreeNames :
                RenameCheck(r, n, name) \/ \E d \in Place : CreateCheck(r, n, d, name)
           \/ \E n \in Ids : ContentChanges(n) \/ RemoveFile(n) \/ SetInheritance(n)
                \/ \E d \in Place : MoveNode(n, d)
                \/ \E o \in TrashOps : TrashNode(n, o)
                \/ \E p \in Principals : SetOwner(n, p) \/ RemoveOwner(n, p)
           \/ \E o \in TrashOps : RestoreNode(o)
    PROVE  ListingFits'
<1>1. node \in [Ids -> NodeRow] /\ Present \subseteq Ids
      /\ \A r \in TreeRequests : change[r].node \in Ids
  <2>1. change \in [TreeRequests -> TreeChange]
    BY DEF TreeTypeOK
  <2>2. QED BY <2>1, NodeFacts DEF TreeTypeOK, TreeChange
<1>2. CASE UNCHANGED <<node, listing>>
  <2>1. \A m \in Present : SameRow(m)
    BY <1>2 DEF SameRow
  <2>2. QED BY <1>2, <2>1, Undisturbed
<1>3. ASSUME NEW r \in TreeRequests, CreateInsert(r) PROVE ListingFits'
  <2>1. listing' = listing
    BY <1>3 DEF CreateInsert
  <2>2. change[r].node \notin Present
    BY <1>3 DEF CreateInsert, NodesFit, CreateFits
  <2>3. \A m \in Ids : m # change[r].node => node'[m] = node[m]
    BY <1>1, <1>3 DEF CreateInsert
  <2>4. \A m \in Present : SameRow(m)
    BY <1>1, <2>2, <2>3 DEF SameRow
  <2>5. QED BY <2>1, <2>4, Undisturbed
<1>4. ASSUME NEW r \in TreeRequests, RenameWrite(r) PROVE ListingFits'
  <2>1. CASE UNCHANGED <<node, listing>>
    BY <1>2, <2>1
  <2>2. CASE ~UNCHANGED <<node, listing>>
    <3>. DEFINE n == change[r].node
    <3>1. Disturb({n}) /\ node' = [node EXCEPT ![n].name = change[r].name,
                            ![n].modified = IF n \in FolderIds THEN moment' ELSE @]
      BY <1>4, <2>2 DEF RenameWrite
    <3>2. \A m \in Ids : m \notin {n} => node'[m] = node[m]
      BY <1>1, <3>1
    <3>3. QED BY <3>1, <3>2, Disturbed
  <2>3. QED BY <2>1, <2>2
<1>5. ASSUME NEW n \in Ids,
             ContentChanges(n) \/ RemoveFile(n) \/ \E d \in Place : MoveNode(n, d)
      PROVE  ListingFits'
  <2>1. Disturb({n})
    BY <1>5 DEF ContentChanges, RemoveFile, MoveNode
  <2>2. \A m \in Ids : m \notin {n} => node'[m] = node[m]
    BY <1>1, <1>5 DEF ContentChanges, RemoveFile, MoveNode
  <2>3. QED BY <2>1, <2>2, Disturbed
<1>6. ASSUME NEW n \in Ids,
             SetInheritance(n) \/ \E p \in Principals : SetOwner(n, p) \/ RemoveOwner(n, p)
      PROVE  ListingFits'
  <2>1. node[n] \in NodeRow /\ listing' = listing
    BY <1>1, <1>6 DEF SetInheritance, SetOwner, RemoveOwner, Grant
  <2>2. ASSUME NEW row, Grant(n, row), row.there = node[n].there, row.parent = node[n].parent,
               row.mark = node[n].mark, row.name = node[n].name, row.modified = node[n].modified
        PROVE  \A m \in Present : SameRow(m)
    <3>1. node' = [node EXCEPT ![n] = row]
      BY <2>2 DEF Grant
    <3>2. QED BY <1>1, <2>2, <3>1 DEF SameRow
  <2>3. \A m \in Present : SameRow(m)
    <3>1. CASE SetInheritance(n)
      <4>. DEFINE row == [node[n] EXCEPT !.inherit = ~@]
      <4>1. Grant(n, row) /\ row.there = node[n].there /\ row.parent = node[n].parent
            /\ row.mark = node[n].mark /\ row.name = node[n].name
            /\ row.modified = node[n].modified
        BY <2>1, <3>1 DEF SetInheritance, NodeRow
      <4>. HIDE DEF row
      <4>2. QED BY <2>2, <4>1
    <3>2. ASSUME NEW p \in Principals, SetOwner(n, p) PROVE \A m \in Present : SameRow(m)
      <4>. DEFINE row == [node[n] EXCEPT !.owners = @ \cup {p}]
      <4>1. Grant(n, row) /\ row.there = node[n].there /\ row.parent = node[n].parent
            /\ row.mark = node[n].mark /\ row.name = node[n].name
            /\ row.modified = node[n].modified
        BY <2>1, <3>2 DEF SetOwner, NodeRow
      <4>. HIDE DEF row
      <4>2. QED BY <2>2, <4>1
    <3>3. ASSUME NEW p \in Principals, RemoveOwner(n, p) PROVE \A m \in Present : SameRow(m)
      <4>. DEFINE row == [node[n] EXCEPT !.owners = @ \ {p}]
      <4>1. Grant(n, row) /\ row.there = node[n].there /\ row.parent = node[n].parent
            /\ row.mark = node[n].mark /\ row.name = node[n].name
            /\ row.modified = node[n].modified
        BY <2>1, <3>3 DEF RemoveOwner, NodeRow
      <4>. HIDE DEF row
      <4>2. QED BY <2>2, <4>1
    <3>4. QED BY <1>6, <3>1, <3>2, <3>3
  <2>4. QED BY <2>1, <2>3, Undisturbed
<1>7. ASSUME NEW o \in TrashOps, NEW marked, NEW mark, Mark(marked, mark), Disturb(marked)
      PROVE  ListingFits'
  <2>1. \A m \in Ids : m \notin marked => node'[m] = node[m]
    BY <1>7 DEF Mark
  <2>2. QED BY <1>7, <2>1, Disturbed
<1>8. ASSUME NEW n \in Ids, NEW o \in TrashOps, TrashNode(n, o) \/ RestoreNode(o)
      PROVE  ListingFits'
  <2>1. \E marked, mark : Mark(marked, mark) /\ Disturb(marked)
    BY <1>8 DEF TrashNode, RestoreNode
  <2>2. QED BY <1>7, <2>1
<1>9. ASSUME NEW r \in TreeRequests, NEW n \in Ids, NEW name \in TreeNames,
             RenameCheck(r, n, name) \/ \E d \in Place : CreateCheck(r, n, d, name)
      PROVE  UNCHANGED <<node, listing>>
  BY <1>9 DEF RenameCheck, CreateCheck
<1>10. UNCHANGED treeVars => UNCHANGED <<node, listing>>
  BY DEF treeVars
<1>11. \E n \in Ids : TRUE
  BY TreeConstants
<1>12. QED BY <1>2, <1>3, <1>4, <1>5, <1>6, <1>8, <1>9, <1>10, <1>11

\* What the reader itself does.
LEMMA StartLists ==
    ASSUME TreeTypeOK, ListingFits, NEW d \in Place, NEW sort \in SortKeys,
           NEW ascending \in BOOLEAN, StartListing(d, sort, ascending)
    PROVE  ListingFits'
<1>. DEFINE stays == {n \in ChildrenOf(d) : node[n].mark = NoTrash}
<1>1. /\ listing \in Listing /\ node' = node /\ listing.pc = "idle"
      /\ listing' = [listing EXCEPT !.pc = "browse", !.folder = d, !.sort = sort,
                                    !.ascending = ascending, !.stayed = stays]
  BY DEF TreeTypeOK, StartListing
<1>. HIDE DEF stays
<1>2. /\ listing'.pc = "browse" /\ listing'.folder = d /\ listing'.stayed = stays
      /\ listing'.cursor = {} /\ listing'.shown = NothingShown
  BY <1>1 DEF Listing, ListingFits
<1>3. ASSUME NEW n \in stays PROVE InFolder(n)' /\ listing'.shown[n] = 0 /\ AfterCursor(n)'
  <2>1. n \in ChildrenOf(d) /\ node[n].mark = NoTrash /\ n \in Ids
    BY <1>3 DEF stays, ChildrenOf, Present
  <2>2. n \in Present' /\ node'[n].parent = d
    BY <1>1, <1>2, <2>1 DEF ChildrenOf, Present
  <2>3. QED BY <1>1, <1>2, <2>1, <2>2 DEF InFolder, ChildrenOf, AfterCursor, NothingShown
<1>4. QED BY <1>2, <1>3 DEF ListingFits

LEMMA BrowseLists ==
    ASSUME TreeTypeOK, ListingFits, Browse
    PROVE  ListingFits'
<1>1. listing \in Listing /\ node' = node /\ listing.pc = "browse"
  BY DEF TreeTypeOK, Browse
<1>2. CASE OpenPlace(listing.folder)
  <2>1. listing' = [listing EXCEPT !.pc = "ids"]
    BY <1>2 DEF Browse
  <2>2. /\ listing'.pc = "ids" /\ listing'.folder = listing.folder
        /\ listing'.sort = listing.sort /\ listing'.ascending = listing.ascending
        /\ listing'.cursor = listing.cursor /\ listing'.shown = listing.shown
        /\ listing'.stayed = listing.stayed /\ listing'.slipped = listing.slipped
    BY <1>1, <2>1 DEF Listing
  <2>3. ASSUME NEW n PROVE (InFolder(n)' <=> InFolder(n)) /\ (AfterCursor(n)' <=> AfterCursor(n))
    BY <1>1, <2>2
       DEF InFolder, ChildrenOf, Present, AfterCursor, Precedes, Ordered, RowOf, SortValue
  <2>4. QED BY <1>1, <2>2, <2>3 DEF ListingFits, Listed
<1>3. CASE ~OpenPlace(listing.folder)
  <2>1. listing' = [listing EXCEPT !.pc = "idle", !.shown = NothingShown, !.cursor = {},
                                   !.stayed = {}, !.slipped = FALSE]
    BY <1>3 DEF Browse
  <2>2. listing'.pc = "idle" /\ listing'.shown = NothingShown /\ listing'.cursor = {}
    BY <1>1, <2>1 DEF Listing
  <2>3. QED BY <2>2 DEF ListingFits, Listed
<1>4. QED BY <1>2, <1>3

LEMMA IdsList ==
    ASSUME TreeTypeOK, ListingFits, ReadIds
    PROVE  ListingFits'
<1>. DEFINE found == {n \in ChildrenOf(listing.folder) : node[n].mark = NoTrash /\ AfterCursor(n)}
            rows == {RowOf(n) : n \in found}
<1>1. listing \in Listing /\ node' = node /\ listing.pc = "ids"
  BY DEF TreeTypeOK, ReadIds
<1>2. PICK taken \in SUBSET rows :
        /\ FirstOf(rows, PageLimit + 1, taken)
        /\ listing' = [listing EXCEPT !.pc = "nodes", !.ids = taken]
  BY DEF ReadIds
<1>. HIDE DEF rows
<1>3. /\ listing'.pc = "nodes" /\ listing'.folder = listing.folder /\ listing'.ids = taken
      /\ listing'.sort = listing.sort /\ listing'.ascending = listing.ascending
      /\ listing'.cursor = listing.cursor /\ listing'.shown = listing.shown
      /\ listing'.stayed = listing.stayed /\ listing'.slipped = listing.slipped
  BY <1>1, <1>2 DEF Listing
<1>4. ASSUME NEW n
      PROVE  /\ (InFolder(n)' <=> InFolder(n)) /\ (AfterCursor(n)' <=> AfterCursor(n))
             /\ RowOf(n)' = RowOf(n)
  BY <1>1, <1>3 DEF InFolder, ChildrenOf, Present, AfterCursor, Precedes, Ordered, RowOf, SortValue
<1>5. \A k, l : Precedes(k, l)' <=> Precedes(k, l)
  BY <1>3 DEF Precedes, Ordered
<1>6. Present' = Present
  BY <1>1 DEF Present
<1>7. ASSUME NEW k \in taken
      PROVE  k.node \in Present' /\ k = RowOf(k.node)' /\ AfterCursor(k.node)'
  <2>1. PICK n \in found : k = RowOf(n)
    BY <1>2, <1>7 DEF rows
  <2>2. k.node = n /\ n \in Present /\ AfterCursor(n)
    BY <2>1 DEF RowOf, ChildrenOf
  <2>3. QED BY <1>4, <1>6, <2>1, <2>2
<1>8. ASSUME ~listing.slipped, NEW n \in listing.stayed, AfterCursor(n)
      PROVE  \/ RowOf(n) \in taken
             \/ /\ Cardinality(taken) = PageLimit + 1
                /\ \A k \in taken : Precedes(k, RowOf(n))
  <2>1. InFolder(n)
    BY <1>1, <1>8 DEF ListingFits, Listed
  <2>2. RowOf(n) \in rows
    BY <1>8, <2>1 DEF InFolder, rows
  <2>3. QED BY <1>2, <2>2 DEF FirstOf
<1>9. ~listing.slipped => PageFits'
  <2>1. SUFFICES ASSUME ~listing.slipped PROVE PageFits'
    OBVIOUS
  <2>2. ASSUME NEW n \in listing'.stayed, AfterCursor(n)'
        PROVE  \/ RowOf(n)' \in taken
               \/ /\ Cardinality(taken) = PageLimit + 1
                  /\ \A k \in taken : Precedes(k, RowOf(n))'
    <3>1. n \in listing.stayed /\ AfterCursor(n)
      BY <1>3, <1>4, <2>2
    <3>2. QED BY <1>4, <1>5, <1>8, <2>1, <3>1
  <2>3. QED BY <1>3, <1>7, <2>2 DEF PageFits
<1>10. QED BY <1>1, <1>3, <1>4, <1>9 DEF ListingFits, Listed

LEMMA NodesList ==
    ASSUME TreeTypeOK, ListingFits, ReadNodes
    PROVE  ListingFits'
<1>. DEFINE rows == {k \in listing.ids : k.node \in Present}
            more == Cardinality(rows) > PageLimit
<1>1. /\ listing \in Listing /\ node' = node /\ listing.pc = "nodes"
      /\ listing.shown \in [Ids -> Nat] /\ listing.ids \subseteq ListedRow
      /\ listing.cursor \subseteq ListedRow /\ listing.stayed \subseteq Ids
  BY DEF TreeTypeOK, ReadNodes, Listing
<1>2. PICK piece \in SUBSET rows, end \in SUBSET rows :
        /\ FirstOf(rows, PageLimit, piece)
        /\ IF more THEN \E last \in piece : end = {last} /\ \A k \in piece \ end : Precedes(k, last)
           ELSE end = {}
        /\ listing' = [listing EXCEPT !.pc = IF more THEN "browse" ELSE "done", !.ids = {},
             !.shown = [n \in Ids |-> IF \E k \in piece : k.node = n THEN @[n] + 1 ELSE @[n]],
             !.cursor = {RowOf(k.node) : k \in end}]
  BY DEF ReadNodes
<1>. HIDE DEF rows, more
<1>3. /\ listing'.pc = (IF more THEN "browse" ELSE "done") /\ listing'.folder = listing.folder
      /\ listing'.sort = listing.sort /\ listing'.ascending = listing.ascending
      /\ listing'.cursor = {RowOf(k.node) : k \in end}
      /\ listing'.stayed = listing.stayed /\ listing'.slipped = listing.slipped
      /\ \A n \in Ids : listing'.shown[n] = IF \E k \in piece : k.node = n THEN listing.shown[n] + 1
                                            ELSE listing.shown[n]
  BY <1>1, <1>2 DEF Listing
<1>4. SUFFICES ASSUME ~listing.slipped, NEW n \in listing.stayed
               PROVE  IF more
                      THEN InFolder(n)' /\ listing'.shown[n] = (IF AfterCursor(n)' THEN 0 ELSE 1)
                      ELSE listing'.shown[n] = 1
  BY <1>3 DEF ListingFits, Listed
<1>5. PageFits /\ InFolder(n) /\ listing.shown[n] = (IF AfterCursor(n) THEN 0 ELSE 1)
  BY <1>1, <1>4 DEF ListingFits, Listed
<1>6. rows = listing.ids /\ \A k \in listing.ids : k = RowOf(k.node) /\ AfterCursor(k.node)
  BY <1>5 DEF rows, PageFits
<1>7. InFolder(n)' /\ n \in Ids /\ RowOf(n)' = RowOf(n) /\ RowOf(n) \in ListedRow
  <2>1. n \in Ids
    BY <1>1, <1>4
  <2>2. RowOf(n) \in ListedRow
    BY <2>1, RowListed
  <2>3. QED BY <1>1, <1>3, <1>5, <2>1, <2>2 DEF InFolder, ChildrenOf, Present, RowOf, SortValue
<1>8. (\E k \in piece : k.node = n) <=> RowOf(n) \in piece
  BY <1>2, <1>6 DEF RowOf
<1>9. listing'.shown[n] = listing.shown[n] + (IF RowOf(n) \in piece THEN 1 ELSE 0)
  BY <1>1, <1>3, <1>7, <1>8
<1>10. RowOf(n) \in listing.ids => AfterCursor(n)
  BY <1>6 DEF RowOf
<1>11. AfterCursor(n) =>
          \/ RowOf(n) \in listing.ids
          \/ /\ Cardinality(listing.ids) = PageLimit + 1
             /\ \A k \in listing.ids : Precedes(k, RowOf(n))
  BY <1>4, <1>5 DEF PageFits
<1>12. PageLimit \in Nat
  BY TreeConstants
<1>13. CASE ~more
  <2>1. piece = listing.ids /\ Cardinality(listing.ids) # PageLimit + 1
    BY <1>2, <1>6, <1>12, <1>13 DEF FirstOf, more
  <2>2. QED BY <1>5, <1>9, <1>10, <1>11, <1>13, <2>1
<1>14. CASE more
  <2>1. PICK last \in piece : end = {last} /\ \A k \in piece \ end : Precedes(k, last)
    BY <1>2, <1>14
  <2>2. /\ last \in listing.ids /\ last \in ListedRow /\ last = RowOf(last.node)
        /\ AfterCursor(last.node)
    BY <1>1, <1>2, <1>6, <2>1
  <2>3. AfterCursor(n)' <=> Precedes(last, RowOf(n))
    <3>1. RowOf(last.node)' = last
      BY <1>1, <1>3, <2>2 DEF RowOf, SortValue
    <3>2. listing'.cursor = {last}
      BY <1>3, <2>1, <2>2
    <3>3. Precedes(last, RowOf(n))' <=> Precedes(last, RowOf(n))
      BY <1>3, <1>7 DEF Precedes, Ordered
    <3>5. QED BY <1>3, <1>7, <3>2 DEF AfterCursor, Precedes, Ordered
  <2>4. CASE ~AfterCursor(n)
    <3>1. ~Precedes(last, RowOf(n))
      <4>1. SUFFICES ASSUME Precedes(last, RowOf(n)) PROVE AfterCursor(n)
        BY <2>4
      <4>2. ASSUME NEW k \in listing.cursor PROVE Precedes(k, RowOf(n))
        <5>1. k \in ListedRow /\ Precedes(k, last)
          BY <1>1, <2>2, <4>2 DEF AfterCursor
        <5>2. QED BY <1>7, <2>2, <4>1, <5>1, OrderFacts
      <4>3. QED BY <4>2 DEF AfterCursor
    <3>2. RowOf(n) \notin piece
      BY <1>2, <1>6, <1>10, <2>4
    <3>3. QED BY <1>5, <1>7, <1>9, <1>14, <2>3, <2>4, <3>1, <3>2
  <2>5. CASE AfterCursor(n) /\ RowOf(n) \in piece
    <3>1. ~Precedes(last, RowOf(n))
      BY <1>7, <2>1, <2>2, <2>5, OrderFacts
    <3>2. QED BY <1>5, <1>7, <1>9, <1>14, <2>3, <2>5, <3>1
  <2>6. CASE AfterCursor(n) /\ RowOf(n) \notin piece
    <3>1. Precedes(last, RowOf(n))
      BY <1>2, <1>6, <1>11, <2>1, <2>2, <2>6 DEF FirstOf
    <3>2. QED BY <1>5, <1>7, <1>9, <1>14, <2>3, <2>6, <3>1
  <2>7. QED BY <2>4, <2>5, <2>6
<1>15. QED BY <1>13, <1>14

TreeInv == TreeTypeOK /\ NodesFit /\ ListingFits

LEMMA TreeInvInit == TreeInit => TreeInv
<1>1. SUFFICES ASSUME TreeInit PROVE ListingFits
  BY TreeTypesInit, NodesFitInit DEF TreeInv
<1>2. listing.pc = "idle" /\ listing.cursor = {} /\ listing.shown = NothingShown
  BY <1>1 DEF TreeInit
<1>3. QED BY <1>2 DEF ListingFits, Listed

LEMMA TreeInvNext == TreeInv /\ [TreeNext]_treeVars => TreeInv'
<1>1. SUFFICES ASSUME TreeTypeOK, NodesFit, ListingFits, [TreeNext]_treeVars PROVE TreeInv'
  BY DEF TreeInv
<1>2. TreeTypeOK' /\ NodesFit'
  BY <1>1, TreeTypesNext, NodesFitNext
<1>3. ListingFits'
  BY <1>1, OthersList, StartLists, BrowseLists, IdsList, NodesList DEF TreeNext
<1>4. QED BY <1>2, <1>3 DEF TreeInv

LEMMA TreeInvHolds == TreeSpec => []TreeInv
BY TreeInvInit, TreeInvNext, PTL DEF TreeSpec

\* Every row and every listing under way has its type, whatever is created,
\* moved, trashed, restored and listed, in whatever order (NodesService,
\* drive-sharing and trash services).
THEOREM TreeTypesHold == TreeSpec => []TreeTypeOK
<1>1. TreeInv => TreeTypeOK
  BY DEF TreeInv
<1>2. QED BY <1>1, TreeInvHolds, PTL

\* Folders form a tree, and whoever is shown a node is shown nothing that lies
\* below a folder in the trash, although the walk that decides this ends at the
\* first node that does not inherit: for any tree, any number of operations and
\* of requests under way (moveNode, trash, restore, resolveCapabilities).
THEOREM ShownIsLive == TreeSpec => []ShownIsInLiveTree
<1>1. TreeInv => ShownIsInLiveTree
  <2>1. SUFFICES ASSUME TreeInv, NEW n \in Present
                 PROVE  /\ n \notin Chain(node[n].parent)
                        /\ Seen(n) => \A m \in Chain(node[n].parent) \cup {n} :
                                         m \in Present /\ node[m].mark = NoTrash
    BY DEF ShownIsInLiveTree
  <2>2. TreeTypeOK /\ NodesFit /\ InPlace /\ Rooted
    BY <2>1 DEF TreeInv, NodesFit
  <2>3. n \in Ids
    BY DEF Present
  <2>4. n \notin Chain(node[n].parent)
    BY <2>1, <2>2, NotWithinItself
  <2>5. Chain(node[n].parent) \cup {n} \subseteq Chain(n)
    <3>1. n \in Chain(n)
      BY <2>2, <2>3, NodeFacts, WalkIs DEF Chain
    <3>2. Walk(Parents, Parents[n], Ids) \subseteq Walk(Parents, n, Ids)
      BY <2>2, <2>3, NodeFacts, WalkSteps
    <3>3. QED BY <2>2, <2>3, <3>1, <3>2, NodeFacts DEF Chain
  <2>6. Seen(n) => \A m \in Chain(n) : m \in Present /\ node[m].mark = NoTrash
    BY <2>2, <2>3, SeenChain
  <2>7. QED BY <2>4, <2>5, <2>6
<1>2. QED BY <1>1, TreeInvHolds, PTL

\* A listing that has come to its end, by name or by the moment of the last
\* change, up or down, in pages of any size, showed every node that stayed as it
\* was in the folder once, whatever happened to the others (NodesService list).
THEOREM ListingIsComplete == TreeSpec => []PagesAreComplete
<1>1. TreeInv => PagesAreComplete
  BY DEF TreeInv, ListingFits, PagesAreComplete
<1>2. QED BY <1>1, TreeInvHolds, PTL

-----------------------------------------------------------------------------
(* Reading: what a request holds, has read and will be shown.              *)

ToCheck(left) == UNION {left[i] : i \in DOMAIN left}

\* What a request needs was there since it came or is still to be checked.
RightsFit(q, s) ==
    /\ RightsOf(s) \subseteq q.held
    /\ q.pc # "check" => q.left = <<>>
    /\ \/ q.kind = "open" /\ q.via = "none" /\ q.left # <<>>
       \/ Needs(q.kind) \subseteq q.held \cup ToCheck(q.left)

\* The versions it has read were asked for, or are none older than the request.
BytesFit(q, s) ==
    /\ q.since <= s.version
    /\ q.got # 0 => IF q.asked # 0 THEN q.got = q.asked ELSE q.since <= q.got /\ q.got <= s.version
    /\ q.asked # 0 => q.kind \in FileReads /\ q.pc # "open"
    /\ q.asked = 0 => q.sized <= s.version
    /\ q.kind = "open" /\ q.via = "local" => q.since <= s.current
    /\ q.header # WholeFile /\ q.sized # 0 => Satisfiable(q.header, Sizes[q.sized])
    /\ q.pc = "open" => q.sized # 0 /\ q.kind # "save"
    /\ q.pc \in {"copy", "convert"} => q.kind = "office"
    /\ q.pc = "send" /\ q.kind \in {"model", "part", "reload"} => q.got # 0
    /\ q.pc = "send" /\ q.kind \in {"model", "reload"} => q.sized <= q.got
    /\ q.kind = "save" => q.header = WholeFile /\ q.got = 0 /\ (q.sized # 0 => q.sized = q.label + 1)
    /\ q.kind = "part" => q.label <= q.since /\ (q.first # 0 => q.label <= q.first)

\* All the versions up to l that came after the tab was last shown anew are its own.
Chained(p, l) == p.base <= l /\ \A v \in Versions : p.base < v /\ v <= l => v \in p.own

\* What a request asked for since then will bring fits what is shown: a save expects
\* a label that its own saves led to, and made the next one.
TurnFits(q, p) ==
    /\ q.turn <= p.turn
    /\ q.turn = p.turn => p.base <= q.since
    /\ q.turn = p.turn /\ ~p.mixed =>
         /\ q.kind = "save" => Chained(p, q.label)
         /\ q.kind = "part" /\ q.label # 0 /\ q.first = 0 => Chained(p, q.label - 1)

ReadFits(q, s, p) == q.pc # "idle" => RightsFit(q, s) /\ BytesFit(q, s) /\ TurnFits(q, p)

SubjectFits(s) == s.current <= s.version /\ (s.backing = "local" => s.current = s.version)
TabFits(p, s) ==
    /\ p.base <= s.version
    /\ ~p.mixed => Chained(p, p.label) /\ \A v \in p.seen : p.base <= v

AllFit(all, s, p) == \A r \in Readers : ReadFits(all[r], s, p)

ReadInv ==
    /\ ReadTypeOK /\ SubjectFits(subject) /\ TabFits(page, subject)
    /\ AllFit(reading, subject, page) /\ DirectoriesGo

\* A request that holds the directory n.
HoldsTemp(q, n) == q.kind = "office" /\ q.pc \in {"copy", "convert", "send"} /\ q.no = n

-----------------------------------------------------------------------------
(* Bytes, rights and checks.                                               *)

\* The bytes of a range that can be satisfied: what is announced is what is meant,
\* and all of it is there to be sent.
LEMMA RangesAreExact ==
    ASSUME NEW header \in RangeHeaders \cup {WholeFile}, NEW size \in Nat,
           header # WholeFile => Satisfiable(header, size)
    PROVE /\ SentBytes(header, size, size) = AskedBytes(header, size)
          /\ AnnouncedBytes(header, size) = AskedBytes(header, size)
<1>1. CASE header = WholeFile
  BY <1>1 DEF SentBytes, AskedBytes, AnnouncedBytes
<1>2. CASE header # WholeFile
  <2> DEFINE range == ParseSingleByteRange(header, size)
             first == header.first
             last == header.last
  <2>1. header \in RangeHeaders /\ Satisfiable(header, size)
    BY <1>2
  <2>2. first \in Nat \cup {-1} /\ last \in Nat \cup {-1}
    BY <2>1, ReadConstants DEF Absent
  <2>3. /\ size > 0
        /\ first = -1 => last > 0
        /\ first # -1 => first < size /\ (last # -1 => last >= first)
    BY <2>1 DEF Satisfiable, Absent
  <2>4. range = IF first = -1
                THEN [start |-> IF last > size THEN 0 ELSE size - last, end |-> size - 1]
                ELSE [start |-> first,
                      end |-> IF last = -1 \/ last > size - 1 THEN size - 1 ELSE last]
    BY DEF ParseSingleByteRange, Absent
  <2>5. AskedBytes(header, size) =
          {i \in 0 .. size - 1 : IF first = -1 THEN i >= size - last
                                 ELSE i >= first /\ (last # -1 => i <= last)}
    BY <1>2 DEF AskedBytes, Absent
  <2>6. AnnouncedBytes(header, size) = range.start .. range.end
    BY <1>2 DEF AnnouncedBytes
  <2> HIDE DEF first, last, range
  <2>7. /\ first = -1 => range.start = (IF last > size THEN 0 ELSE size - last) /\ range.end = size - 1
        /\ first # -1 => range.start = first
                         /\ range.end = IF last = -1 \/ last > size - 1 THEN size - 1 ELSE last
    BY <2>4
  <2>8. range.start \in Int /\ range.end \in Int
    BY <2>2, <2>7
  <2>9. \A i \in Int : i \in range.start .. range.end <=>
          /\ i \in 0 .. size - 1
          /\ IF first = -1 THEN i >= size - last ELSE i >= first /\ (last # -1 => i <= last)
    BY <2>2, <2>3, <2>7
  <2>10. AnnouncedBytes(header, size) = AskedBytes(header, size)
    BY <2>5, <2>6, <2>8, <2>9
  <2>11. SentBytes(header, size, size) = {i \in AnnouncedBytes(header, size) : i < size}
    BY <1>2 DEF SentBytes
  <2>12. \A i \in AskedBytes(header, size) : i < size
    BY <2>5
  <2> QED
    BY <2>10, <2>11, <2>12
<1> QED
  BY <1>1, <1>2

LEMMA RightsOfAre == ASSUME NEW s PROVE RightsOf(s) \subseteq Rights
BY DEF RightsOf

LEMMA NothingToCheck == ToCheck(<<>>) = {}
BY DEF ToCheck

\* A check that finds what it has to leaves the others to be made.
LEMMA CheckByCheck ==
    ASSUME NEW left \in Seq(SUBSET Rights), left # <<>>
    PROVE /\ Tail(left) \in Seq(SUBSET Rights) /\ Head(left) \in SUBSET Rights
          /\ ToCheck(left) \subseteq Head(left) \cup ToCheck(Tail(left))
<1>1. /\ Len(left) \in Nat \ {0} /\ DOMAIN left = 1 .. Len(left) /\ Head(left) = left[1]
      /\ Tail(left) \in Seq(SUBSET Rights) /\ left[1] \in SUBSET Rights
      /\ DOMAIN Tail(left) = 1 .. (Len(left) - 1)
      /\ \A i \in 1 .. (Len(left) - 1) : Tail(left)[i] = left[i + 1]
  OBVIOUS
<1>2. ASSUME NEW i \in DOMAIN left, NEW right \in left[i]
      PROVE right \in Head(left) \cup ToCheck(Tail(left))
  <2>1. CASE i = 1
    BY <1>1, <1>2, <2>1
  <2>2. CASE i # 1
    <3>1. i - 1 \in DOMAIN Tail(left) /\ Tail(left)[i - 1] = left[i]
      BY <1>1, <2>2
    <3> QED
      BY <1>2, <3>1 DEF ToCheck
  <2> QED
    BY <2>1, <2>2
<1> QED
  BY <1>1, <1>2 DEF ToCheck

LEMMA InToCheck == ASSUME NEW left, NEW i \in DOMAIN left PROVE left[i] \subseteq ToCheck(left)
BY DEF ToCheck

LEMMA OpenChecksCover ==
    ASSUME NEW backing
    PROVE /\ OpenChecks(backing) \in Seq(SUBSET Rights)
          /\ Needs("open") \subseteq ToCheck(OpenChecks(backing))
<1> DEFINE left == OpenChecks(backing)
           source == IF backing = "drive" THEN {"live", "source"} ELSE {"live"}
<1>1. left = <<{"live"}, {"account"}, source>>
  BY DEF OpenChecks
<1>2. left \in Seq(SUBSET Rights)
  <2>1. {"live"} \in SUBSET Rights /\ {"account"} \in SUBSET Rights /\ source \in SUBSET Rights
    BY DEF Rights
  <2> HIDE DEF source
  <2> QED
    BY <1>1, <2>1
<1> HIDE DEF source
<1>3. DOMAIN left = 1 .. 3 /\ left[1] = {"live"} /\ left[2] = {"account"}
  BY <1>1
<1>4. left[1] \subseteq ToCheck(left) /\ left[2] \subseteq ToCheck(left)
  BY <1>3, InToCheck
<1>5. Needs("open") = {"live", "account"}
  BY DEF Needs, SourceReads
<1> QED
  BY <1>2, <1>3, <1>4, <1>5

\* The checks a request comes with are of all it needs, but for the creation of a
\* session, whose first one has still to choose the others.
LEMMA ChecksCover ==
    ASSUME NEW kind \in ReadKinds
    PROVE /\ Checks(kind) \in Seq(SUBSET Rights)
          /\ kind = "open" => Checks(kind) # <<>>
          /\ kind # "open" => Needs(kind) \subseteq ToCheck(Checks(kind))
<1> DEFINE left == Checks(kind)
<1>1. CASE kind \in {"download", "history"}
  <2>1. left = <<{"live"}, {"live"}, {"account"}, {"live"}>>
    BY <1>1 DEF Checks, FileChecks, SourceReads
  <2>2. DOMAIN left = 1 .. 4 /\ left[1] = {"live"} /\ left[3] = {"account"} /\ left \in Seq(SUBSET Rights)
    BY <2>1 DEF Rights
  <2>3. left[1] \subseteq ToCheck(left) /\ left[3] \subseteq ToCheck(left)
    BY <2>2, InToCheck
  <2>4. Needs(kind) = {"live", "account"} /\ kind # "open"
    BY <1>1 DEF Needs, SourceReads
  <2> QED
    BY <2>2, <2>3, <2>4
<1>2. CASE kind = "shared"
  <2>1. left = <<{"live"}, {"live"}, {"live"}, {"account"}, {"live"}>>
    BY <1>2 DEF Checks, SharedChecks, SourceReads
  <2>2. DOMAIN left = 1 .. 5 /\ left[1] = {"live"} /\ left[4] = {"account"} /\ left \in Seq(SUBSET Rights)
    BY <2>1 DEF Rights
  <2>3. left[1] \subseteq ToCheck(left) /\ left[4] \subseteq ToCheck(left)
    BY <2>2, InToCheck
  <2>4. Needs(kind) = {"live", "account"} /\ kind # "open"
    BY <1>2 DEF Needs, SourceReads
  <2> QED
    BY <2>2, <2>3, <2>4
<1>3. CASE kind = "public"
  <2>1. left = <<{"live", "link"}, {"live"}, {"live"}>>
    BY <1>3 DEF Checks, PublicChecks, SourceReads
  <2>2. DOMAIN left = 1 .. 3 /\ left[1] = {"live", "link"} /\ left \in Seq(SUBSET Rights)
    BY <2>1 DEF Rights
  <2>3. left[1] \subseteq ToCheck(left)
    BY <2>2, InToCheck
  <2>4. Needs(kind) = {"live", "link"} /\ kind # "open"
    BY <1>3 DEF Needs, SourceReads
  <2> QED
    BY <2>2, <2>3, <2>4
<1>4. CASE kind = "local"
  <2>1. left = <<{"account"}, {"live"}, {"account"}, {"live"}, {"live"}>>
    BY <1>4 DEF Checks, VolumeChecks, SourceReads
  <2>2. DOMAIN left = 1 .. 5 /\ left[1] = {"account"} /\ left[2] = {"live"} /\ left \in Seq(SUBSET Rights)
    BY <2>1 DEF Rights
  <2>3. left[1] \subseteq ToCheck(left) /\ left[2] \subseteq ToCheck(left)
    BY <2>2, InToCheck
  <2>4. Needs(kind) = {"live", "account"} /\ kind # "open"
    BY <1>4 DEF Needs, SourceReads
  <2> QED
    BY <2>2, <2>3, <2>4
<1>5. CASE kind \in SourceReads
  <2>1. left = <<{"account"}, {"live"}, {"account"}, {"live", "source"}>>
    BY <1>5 DEF Checks, SessionChecks, SourceReads
  <2>2. /\ DOMAIN left = 1 .. 4 /\ left[1] = {"account"} /\ left[4] = {"live", "source"}
        /\ left \in Seq(SUBSET Rights)
    BY <2>1 DEF Rights
  <2>3. left[1] \subseteq ToCheck(left) /\ left[4] \subseteq ToCheck(left)
    BY <2>2, InToCheck
  <2>4. Needs(kind) = {"live", "account", "source"} /\ kind # "open"
    BY <1>5 DEF Needs, SourceReads
  <2> QED
    BY <2>2, <2>3, <2>4
<1>6. CASE kind = "open"
  <2>1. left = <<{"live"}>>
    BY <1>6 DEF Checks, CreateChecks, SourceReads
  <2>2. {"live"} \in SUBSET Rights
    BY DEF Rights
  <2>3. left \in Seq(SUBSET Rights) /\ left # <<>>
    BY <2>1, <2>2
  <2> QED
    BY <1>6, <2>3
<1>7. CASE kind = "list"
  <2>1. left = <<{"listed"}, {"live"}, {"live"}, {"account"}>>
    BY <1>7 DEF Checks, ListChecks, SourceReads
  <2>2. /\ DOMAIN left = 1 .. 4 /\ left[1] = {"listed"} /\ left[2] = {"live"} /\ left[4] = {"account"}
        /\ left \in Seq(SUBSET Rights)
    BY <2>1 DEF Rights
  <2>3. left[1] \subseteq ToCheck(left) /\ left[2] \subseteq ToCheck(left) /\ left[4] \subseteq ToCheck(left)
    BY <2>2, InToCheck
  <2>4. Needs(kind) = {"live", "account", "listed"} /\ kind # "open"
    BY <1>7 DEF Needs, SourceReads
  <2> QED
    BY <2>2, <2>3, <2>4
<1>8. CASE kind = "mark"
  <2>1. left = <<{"live"}, {"live"}, {"account"}>>
    BY <1>8 DEF Checks, MarkChecks, SourceReads
  <2>2. DOMAIN left = 1 .. 3 /\ left[1] = {"live"} /\ left[3] = {"account"} /\ left \in Seq(SUBSET Rights)
    BY <2>1 DEF Rights
  <2>3. left[1] \subseteq ToCheck(left) /\ left[3] \subseteq ToCheck(left)
    BY <2>2, InToCheck
  <2>4. Needs(kind) = {"live", "account"} /\ kind # "open"
    BY <1>8 DEF Needs, SourceReads
  <2> QED
    BY <2>2, <2>3, <2>4
<1>9. CASE kind = "save"
  <2>1. left = <<{"live"}, {"editor"}, {"live", "source"}>>
    BY <1>9 DEF Checks, SaveChecks, SourceReads
  <2>2. DOMAIN left = 1 .. 3 /\ left[2] = {"editor"} /\ left[3] = {"live", "source"} /\ left \in Seq(SUBSET Rights)
    BY <2>1 DEF Rights
  <2>3. left[2] \subseteq ToCheck(left) /\ left[3] \subseteq ToCheck(left)
    BY <2>2, InToCheck
  <2>4. Needs(kind) = {"live", "editor", "source"} /\ kind # "open"
    BY <1>9 DEF Needs, SourceReads
  <2> QED
    BY <2>2, <2>3, <2>4
<1> QED
  BY <1>1, <1>2, <1>3, <1>4, <1>5, <1>6, <1>7, <1>8, <1>9 DEF ReadKinds, FileReads

-----------------------------------------------------------------------------
(* One request moves and the file stays as it is.                          *)

LEMMA NoRequestIs ==
    /\ NoRequest \in ReadRequest /\ NoRequest.pc = "idle"
    /\ \A s, p : ReadFits(NoRequest, s, p)
    /\ \A n : ~HoldsTemp(NoRequest, n)
<1>1. NoRequest \in ReadRequest
  <2>1. <<>> \in Seq(SUBSET Rights) /\ 1 \in Versions
    BY ReadConstants DEF Versions
  <2> QED
    BY <2>1 DEF NoRequest, ReadRequest, ReadKinds, FileReads, Passes
<1>2. NoRequest.pc = "idle"
  BY DEF NoRequest
<1> QED
  BY <1>1, <1>2 DEF ReadFits, HoldsTemp

LEMMA DirectoriesStay ==
    ASSUME \A n \in temps'.there \ temps'.abandoned : \E x \in Readers : HoldsTemp(reading'[x], n)
    PROVE DirectoriesGo'
BY DEF DirectoriesGo, HoldsTemp

LEMMA VersionsAreNumbers == \A v \in {0} \cup Versions : v \in Nat
BY ReadConstants DEF Versions

LEMMA OneGoesOn ==
    ASSUME ReadInv, UNCHANGED <<subject, page>>, temps' \in Temps, NEW r \in Readers,
           reading' = [reading EXCEPT ![r] = reading'[r]],
           reading'[r] \in ReadRequest, ReadFits(reading'[r], subject, page),
           \A n \in temps'.there \ temps'.abandoned :
             \/ HoldsTemp(reading'[r], n)
             \/ n \in temps.there \ temps.abandoned /\ ~HoldsTemp(reading[r], n)
    PROVE ReadInv'
<1>1. /\ reading \in [Readers -> ReadRequest] /\ reading' \in [Readers -> ReadRequest]
      /\ \A t \in Readers : t # r => reading'[t] = reading[t]
  BY DEF ReadInv, ReadTypeOK
<1>2. ReadTypeOK'
  BY <1>1 DEF ReadInv, ReadTypeOK
<1>3. SubjectFits(subject)' /\ TabFits(page, subject)'
  BY DEF ReadInv, SubjectFits, TabFits, Chained
<1>4. AllFit(reading, subject, page)'
  <2>1. \A t \in Readers : ReadFits(reading'[t], subject, page)
    BY <1>1 DEF ReadInv, AllFit
  <2>2. AllFit(reading', subject', page')
    BY <2>1 DEF AllFit
  <2> QED
    BY <2>2
<1>5. DirectoriesGo'
  <2> SUFFICES ASSUME NEW n \in temps'.there \ temps'.abandoned
               PROVE \E t \in Readers : HoldsTemp(reading'[t], n)
    BY DEF DirectoriesGo, HoldsTemp
  <2>1. CASE HoldsTemp(reading'[r], n)
    BY <2>1
  <2>2. CASE n \in temps.there \ temps.abandoned /\ ~HoldsTemp(reading[r], n)
    <3>1. PICK t \in Readers : HoldsTemp(reading[t], n)
      BY <2>2 DEF ReadInv, DirectoriesGo, HoldsTemp
    <3> QED
      BY <1>1, <2>2, <3>1
  <2> QED
    BY <2>1, <2>2
<1> QED
  BY <1>2, <1>3, <1>4, <1>5 DEF ReadInv

\* A request ends without an answer.
LEMMA OneEnds ==
    ASSUME ReadInv, UNCHANGED <<subject, page>>, NEW r \in Readers, reading[r].pc # "idle",
           reading' = [reading EXCEPT ![r] = NoRequest],
           \/ temps' = [temps EXCEPT !.there = @ \ {reading[r].no}]
           \/ temps' = [temps EXCEPT !.abandoned = @ \cup {reading[r].no}]
           \/ temps' = temps /\ \A n : ~HoldsTemp(reading[r], n)
    PROVE ReadInv'
<1>1. reading \in [Readers -> ReadRequest] /\ temps \in Temps
  BY DEF ReadInv, ReadTypeOK
<1>2. reading'[r] = NoRequest
  BY <1>1
<1>3. temps' \in Temps
  BY <1>1 DEF Temps, ReadRequest
<1>4. \A n \in temps'.there \ temps'.abandoned :
        n \in temps.there \ temps.abandoned /\ ~HoldsTemp(reading[r], n)
  BY <1>1 DEF Temps, HoldsTemp
<1> QED
  BY <1>1, <1>2, <1>3, <1>4, NoRequestIs, OneGoesOn

\* What fits of a request that is under way.
LEMMA RequestIs ==
    ASSUME ReadInv, NEW r \in Readers, reading[r].pc # "idle"
    PROVE /\ reading[r] \in ReadRequest
          /\ RightsFit(reading[r], subject) /\ BytesFit(reading[r], subject)
          /\ TurnFits(reading[r], page)
          /\ reading[r].since \in Nat \ {0} /\ subject.version \in Versions
          /\ Sizes \in [Versions -> Nat] /\ Versions \subseteq Nat \ {0}
<1>1. /\ ReadFits(reading[r], subject, page) /\ reading[r] \in ReadRequest /\ subject \in Subject
  BY DEF ReadInv, ReadTypeOK, AllFit
<1>2. Versions \subseteq Nat \ {0} /\ Sizes \in [Versions -> Nat]
  BY ReadConstants DEF Versions
<1>3. subject.version \in Versions /\ reading[r].since \in Versions
  BY <1>1 DEF Subject, ReadRequest
<1> QED
  BY <1>1, <1>2, <1>3 DEF ReadFits

\* An answer begins after what has been read.
LEMMA AnswerBegins ==
    ASSUME ReadInv, UNCHANGED <<subject, page, temps>>, NEW r \in Readers,
           reading[r].pc \in {"check", "open"}, reading[r].left = <<>>,
           NEW q \in ReadRequest, reading' = [reading EXCEPT ![r] = Begun(q)],
           /\ q.pc = reading[r].pc /\ q.kind = reading[r].kind /\ q.turn = reading[r].turn
           /\ q.held = reading[r].held /\ q.left = reading[r].left /\ q.via = reading[r].via
           /\ q.since = reading[r].since /\ q.label = reading[r].label /\ q.first = reading[r].first,
           BytesFit([q EXCEPT !.pc = "send"], subject)
    PROVE ReadInv'
<1>1. reading \in [Readers -> ReadRequest] /\ temps' \in Temps /\ \A n : ~HoldsTemp(reading[r], n)
  BY DEF ReadInv, ReadTypeOK, HoldsTemp
<1>2. CASE q.gone
  BY <1>1, <1>2, OneEnds DEF Begun
<1>3. CASE ~q.gone
  <2> DEFINE new == [q EXCEPT !.pc = "send"]
  <2>1. reading'[r] = new /\ reading' = [reading EXCEPT ![r] = reading'[r]]
    BY <1>1, <1>3 DEF Begun
  <2>2. /\ new \in ReadRequest /\ new.pc = "send" /\ new.kind = reading[r].kind
        /\ new.turn = reading[r].turn /\ new.held = reading[r].held /\ new.left = <<>>
        /\ new.via = reading[r].via /\ new.since = reading[r].since
        /\ new.label = reading[r].label /\ new.first = reading[r].first
    BY DEF ReadRequest
  <2>3. RightsFit(new, subject) /\ TurnFits(new, page)
    <3> HIDE DEF new
    <3> QED
      BY <2>2, RequestIs DEF RightsFit, TurnFits
  <2>4. ReadFits(new, subject, page)
    BY <2>3 DEF ReadFits
  <2> HIDE DEF new
  <2> QED
    BY <1>1, <2>1, <2>2, <2>4, OneGoesOn
<1> QED
  BY <1>2, <1>3

LEMMA ReadVersionFits ==
    ASSUME ReadInv, NEW r \in Readers, ReadVersion(r) PROVE ReadInv'
<1>1. /\ reading[r].pc = "check" /\ reading[r].left = <<>> /\ reading[r].kind \in FileReads
      /\ reading[r].got # 0
      /\ reading[r].header # WholeFile => Satisfiable(reading[r].header, Sizes[reading[r].got])
      /\ reading' = [reading EXCEPT ![r] = Begun([reading[r] EXCEPT !.sized = reading[r].got])]
      /\ UNCHANGED <<subject, page, temps>>
  BY DEF ReadVersion, Checked, Begin
<1>2. PICK q : q = [reading[r] EXCEPT !.sized = reading[r].got]
  OBVIOUS
<1>3. reading[r] \in ReadRequest /\ BytesFit(reading[r], subject)
  BY <1>1, RequestIs
<1>4. q \in ReadRequest
  BY <1>2, <1>3 DEF ReadRequest
<1>5. BytesFit([q EXCEPT !.pc = "send"], subject)
  BY <1>1, <1>2, <1>3 DEF BytesFit, ReadRequest, FileReads
<1>6. /\ q.pc = reading[r].pc /\ q.kind = reading[r].kind /\ q.turn = reading[r].turn
      /\ q.held = reading[r].held /\ q.left = reading[r].left /\ q.via = reading[r].via
      /\ q.since = reading[r].since /\ q.label = reading[r].label /\ q.first = reading[r].first
  BY <1>2, <1>3 DEF ReadRequest
<1> QED
  BY <1>1, <1>2, <1>4, <1>5, <1>6, AnswerBegins

LEMMA OpenObjectFits ==
    ASSUME ReadInv, NEW r \in Readers, OpenObject(r) PROVE ReadInv'
<1>1. /\ reading[r].pc = "open" \/ (Checked(r) /\ reading[r].kind \in {"export", "content", "part"})
      /\ reading' = [reading EXCEPT ![r] = Begun([reading[r] EXCEPT !.got = subject.version])]
      /\ UNCHANGED <<subject, page, temps>>
  BY DEF OpenObject, Begin
<1>2. PICK q : q = [reading[r] EXCEPT !.got = subject.version]
  OBVIOUS
<1>3. /\ reading[r] \in ReadRequest /\ BytesFit(reading[r], subject) /\ RightsFit(reading[r], subject)
      /\ subject.version \in Versions /\ Versions \subseteq Nat \ {0}
  BY <1>1, RequestIs DEF Checked
<1>4. q \in ReadRequest
  BY <1>2, <1>3 DEF ReadRequest
<1>5. reading[r].pc \in {"check", "open"} /\ reading[r].left = <<>> /\ reading[r].asked = 0
  BY <1>1, <1>3 DEF Checked, RightsFit, BytesFit, FileReads
<1>6. BytesFit([q EXCEPT !.pc = "send"], subject)
  <2>1. reading[r].kind # "save"
    BY <1>1, <1>3 DEF BytesFit
  <2> QED
    BY <1>2, <1>3, <1>5, <2>1 DEF BytesFit, ReadRequest
<1>7. /\ q.pc = reading[r].pc /\ q.kind = reading[r].kind /\ q.turn = reading[r].turn
      /\ q.held = reading[r].held /\ q.left = reading[r].left /\ q.via = reading[r].via
      /\ q.since = reading[r].since /\ q.label = reading[r].label /\ q.first = reading[r].first
  BY <1>2, <1>3 DEF ReadRequest
<1> QED
  BY <1>1, <1>2, <1>4, <1>5, <1>6, <1>7, AnswerBegins

LEMMA PlanFits ==
    ASSUME ReadInv, NEW r \in Readers,
           (\E plan \in Passes : PlanSession(r, plan)) \/ AnswerAtOnce(r)
    PROVE ReadInv'
<1>1. PICK plan \in Passes :
        /\ reading[r].pc = "check" /\ reading[r].left = <<>>
        /\ reading[r].kind \in {"open", "list", "save"}
        /\ reading' = [reading EXCEPT ![r] = Begun([reading[r] EXCEPT !.plan = plan])]
        /\ UNCHANGED <<subject, page, temps>>
  <2>1. CASE \E plan \in Passes : PlanSession(r, plan)
    BY <2>1 DEF PlanSession, Checked, Begin
  <2>2. CASE AnswerAtOnce(r)
    <3>1. reading \in [Readers -> ReadRequest]
      BY DEF ReadInv, ReadTypeOK
    <3>2. reading[r].plan \in Passes /\ reading[r] = [reading[r] EXCEPT !.plan = reading[r].plan]
      BY <3>1 DEF ReadRequest
    <3> QED
      BY <2>2, <3>2 DEF AnswerAtOnce, Checked, Begin
  <2> QED
    BY <2>1, <2>2
<1>2. PICK q : q = [reading[r] EXCEPT !.plan = plan]
  OBVIOUS
<1>3. reading[r] \in ReadRequest /\ BytesFit(reading[r], subject)
  BY <1>1, RequestIs
<1>4. q \in ReadRequest
  BY <1>2, <1>3 DEF ReadRequest
<1>5. BytesFit([q EXCEPT !.pc = "send"], subject)
  BY <1>1, <1>2, <1>3 DEF BytesFit, ReadRequest, FileReads
<1>6. /\ q.pc = reading[r].pc /\ q.kind = reading[r].kind /\ q.turn = reading[r].turn
      /\ q.held = reading[r].held /\ q.left = reading[r].left /\ q.via = reading[r].via
      /\ q.since = reading[r].since /\ q.label = reading[r].label /\ q.first = reading[r].first
  BY <1>2, <1>3 DEF ReadRequest
<1> QED
  BY <1>1, <1>2, <1>4, <1>5, <1>6, AnswerBegins

LEMMA StatObjectFits ==
    ASSUME ReadInv, NEW r \in Readers, StatObject(r) PROVE ReadInv'
<1>1. /\ reading[r].pc = "check" /\ reading[r].left = <<>>
      /\ reading[r].asked = 0 \/ reading[r].kind \in {"content", "model", "part", "reload"}
      /\ reading[r].kind # "save"
      /\ reading[r].header # WholeFile => Satisfiable(reading[r].header, Sizes[subject.version])
      /\ reading' = [reading EXCEPT ![r].pc = "open", ![r].sized = subject.version]
      /\ UNCHANGED <<subject, page, temps>>
  BY DEF StatObject, Checked, FileReads
<1> DEFINE new == [reading[r] EXCEPT !.pc = "open", !.sized = subject.version]
<1>2. /\ reading[r] \in ReadRequest /\ BytesFit(reading[r], subject) /\ RightsFit(reading[r], subject)
      /\ TurnFits(reading[r], page) /\ subject.version \in Versions /\ Versions \subseteq Nat \ {0}
  BY <1>1, RequestIs
<1>3. reading[r].asked = 0
  BY <1>1, <1>2 DEF BytesFit, FileReads
<1>4. reading'[r] = new /\ reading' = [reading EXCEPT ![r] = reading'[r]] /\ temps' \in Temps
  BY <1>1 DEF ReadInv, ReadTypeOK
<1>5. /\ new \in ReadRequest /\ new.pc = "open" /\ new.kind = reading[r].kind
      /\ new.turn = reading[r].turn /\ new.since = reading[r].since
      /\ new.label = reading[r].label /\ new.first = reading[r].first
  BY <1>2 DEF ReadRequest
<1>6. RightsFit(new, subject) /\ TurnFits(new, page)
  <2>1. RightsFit(new, subject)
    BY <1>1, <1>2 DEF ReadRequest, RightsFit
  <2> HIDE DEF new
  <2>2. TurnFits(new, page)
    BY <1>2, <1>5 DEF TurnFits
  <2> QED
    BY <2>1, <2>2
<1>7. BytesFit(new, subject)
  BY <1>1, <1>2, <1>3 DEF ReadRequest, BytesFit
<1>8. ReadFits(new, subject, page) /\ \A n : ~HoldsTemp(reading[r], n)
  BY <1>1, <1>6, <1>7 DEF ReadFits, HoldsTemp
<1> HIDE DEF new
<1> QED
  BY <1>1, <1>4, <1>5, <1>8, OneGoesOn

LEMMA PassCheckFits ==
    ASSUME ReadInv, NEW r \in Readers, PassCheck(r) PROVE ReadInv'
<1> DEFINE q == reading[r]
           chooses == q.kind = "open" /\ q.via = "none"
           last == Len(q.left) = 1 /\ q.kind # "open"
           finds == Len(q.left) = 1 /\ IF q.kind = "open" THEN q.via = "local"
                                       ELSE q.kind \in FileReads /\ subject.backing = "local"
           left == IF chooses THEN OpenChecks(subject.backing) ELSE Tail(q.left)
           via == IF chooses \/ last THEN subject.backing ELSE q.via
           got == IF q.asked # 0 THEN q.asked ELSE IF finds THEN subject.current ELSE q.got
           new == [q EXCEPT !.left = left, !.via = via, !.got = got]
<1>1. /\ q.pc = "check" /\ q.left # <<>> /\ Head(q.left) \subseteq RightsOf(subject)
      /\ reading' = [reading EXCEPT ![r].left = left, ![r].via = via, ![r].got = got]
      /\ UNCHANGED <<subject, page, temps>>
  BY DEF PassCheck, Checking
<1>2. /\ q \in ReadRequest /\ BytesFit(q, subject) /\ RightsFit(q, subject) /\ TurnFits(q, page)
      /\ subject.version \in Versions /\ Versions \subseteq Nat \ {0}
  BY <1>1, RequestIs
<1>3. subject \in Subject /\ SubjectFits(subject) /\ reading \in [Readers -> ReadRequest]
  BY DEF ReadInv, ReadTypeOK
<1>4. /\ left \in Seq(SUBSET Rights)
      /\ chooses => Needs("open") \subseteq ToCheck(left)
      /\ ~chooses => ToCheck(q.left) \subseteq Head(q.left) \cup ToCheck(left)
  BY <1>1, <1>2, CheckByCheck, OpenChecksCover DEF ReadRequest
<1>5. via \in {"none", "local", "drive"} /\ got \in {0} \cup Versions
      /\ subject.current \in {0} \cup Versions
  BY <1>2, <1>3 DEF ReadRequest, Subject
<1>6. reading'[r] = new /\ reading' = [reading EXCEPT ![r] = reading'[r]] /\ temps' \in Temps
  BY <1>1, <1>3 DEF ReadInv, ReadTypeOK
<1> HIDE DEF left, via, got
<1>7. new \in ReadRequest
  BY <1>2, <1>4, <1>5 DEF ReadRequest
<1>8. /\ new.pc = "check" /\ new.kind = q.kind /\ new.turn = q.turn /\ new.left = left
      /\ new.via = via /\ new.got = got /\ new.held = q.held /\ new.since = q.since
      /\ new.asked = q.asked /\ new.sized = q.sized /\ new.header = q.header
      /\ new.label = q.label /\ new.first = q.first
  BY <1>1, <1>2 DEF ReadRequest
<1> HIDE DEF new
<1>9. RightsFit(new, subject)
  <2>1. CASE chooses
    BY <1>2, <1>4, <1>8, <2>1 DEF RightsFit
  <2>2. CASE ~chooses
    <3>1. Needs(q.kind) \subseteq q.held \cup ToCheck(q.left)
      BY <1>2, <2>2 DEF RightsFit
    <3> QED
      BY <1>1, <1>2, <1>4, <1>8, <2>2, <3>1 DEF RightsFit
  <2> QED
    BY <2>1, <2>2
<1>10. BytesFit(new, subject)
  <2>1. new.got # 0 => IF new.asked # 0 THEN new.got = new.asked
                       ELSE new.since <= new.got /\ new.got <= subject.version
    BY <1>2, <1>3, <1>5, <1>8 DEF got, BytesFit, SubjectFits, ReadRequest
  <2>2. new.kind = "open" /\ new.via = "local" => new.since <= subject.current
    BY <1>2, <1>3, <1>8 DEF via, BytesFit, SubjectFits
  <2>3. new.kind = "save" => new.got = 0
    BY <1>2, <1>8 DEF got, BytesFit, FileReads
  <2> QED
    BY <1>1, <1>2, <1>8, <2>1, <2>2, <2>3 DEF BytesFit
<1>11. ReadFits(new, subject, page) /\ \A n : ~HoldsTemp(reading[r], n)
  <2>1. TurnFits(new, page)
    BY <1>2, <1>8 DEF TurnFits
  <2> QED
    BY <1>1, <1>9, <1>10, <2>1 DEF ReadFits, HoldsTemp
<1> QED
  BY <1>1, <1>6, <1>7, <1>8, <1>11, OneGoesOn

LEMMA EndsFit ==
    ASSUME ReadInv, NEW r \in Readers, Refuse(r) \/ ReadFails(r) PROVE ReadInv'
<1>1. CASE Refuse(r)
  <2>1. reading[r].pc = "check" /\ reading' = [reading EXCEPT ![r] = NoRequest]
        /\ UNCHANGED <<subject, page, temps>>
    BY <1>1 DEF Refuse, Checking
  <2> QED
    BY <2>1, OneEnds DEF HoldsTemp
<1>2. CASE ReadFails(r)
  <2>1. /\ reading[r].pc # "idle" /\ reading' = [reading EXCEPT ![r] = NoRequest]
        /\ UNCHANGED <<subject, page>>
        /\ temps' = IF reading[r].kind = "office"
                    THEN [temps EXCEPT !.there = @ \ {reading[r].no}] ELSE temps
    BY <1>2 DEF ReadFails, Checked
  <2> QED
    BY <2>1, OneEnds DEF HoldsTemp
<1> QED
  BY <1>1, <1>2

\* A request that gets on with a conversion, or goes on for nobody, fits as before.
LEMMA GoesOnFits ==
    ASSUME ReadInv, NEW r \in Readers, reading[r].pc # "idle", NEW new \in ReadRequest,
           new.pc = reading[r].pc \/ (/\ new.pc \in {"copy", "convert", "send"}
                                     /\ reading[r].kind = "office" /\ reading[r].left = <<>>),
           /\ new.kind = reading[r].kind /\ new.left = reading[r].left /\ new.via = reading[r].via
           /\ new.held = reading[r].held /\ new.since = reading[r].since
           /\ new.asked = reading[r].asked /\ new.sized = reading[r].sized
           /\ new.header = reading[r].header /\ new.turn = reading[r].turn
           /\ new.label = reading[r].label /\ new.first = reading[r].first,
           \/ new.got = reading[r].got
           \/ new.got = subject.version /\ reading[r].asked = 0 /\ reading[r].kind = "office"
    PROVE ReadFits(new, subject, page)
<1>1. /\ BytesFit(reading[r], subject) /\ RightsFit(reading[r], subject)
      /\ TurnFits(reading[r], page)
      /\ subject.version \in Versions /\ Versions \subseteq Nat \ {0}
  BY RequestIs
<1>2. RightsFit(new, subject) /\ TurnFits(new, page)
  BY <1>1 DEF RightsFit, TurnFits
<1>3. new.got # 0 => IF new.asked # 0 THEN new.got = new.asked
                     ELSE new.since <= new.got /\ new.got <= subject.version
  <2>1. CASE new.got = reading[r].got
    BY <1>1, <2>1 DEF BytesFit
  <2>2. CASE new.got = subject.version /\ reading[r].asked = 0
    <3>1. reading[r].since <= subject.version
      BY <1>1 DEF BytesFit
    <3>2. subject.version \in Nat
      BY <1>1
    <3> QED
      BY <2>2, <3>1, <3>2
  <2> QED
    BY <2>1, <2>2
<1>4. BytesFit(new, subject)
  BY <1>1, <1>3 DEF BytesFit
<1> QED
  BY <1>2, <1>4 DEF ReadFits

LEMMA ConversionFits ==
    ASSUME ReadInv, NEW r \in Readers, MakeDirectory(r) \/ CopySource(r) \/ Convert(r)
    PROVE ReadInv'
<1>1. /\ reading \in [Readers -> ReadRequest] /\ temps \in Temps /\ subject \in Subject
      /\ reading[r] \in ReadRequest
  BY DEF ReadInv, ReadTypeOK
<1>2. CASE MakeDirectory(r)
  <2> DEFINE new == [reading[r] EXCEPT !.pc = "copy"]
  <2>1. /\ reading[r].pc = "check" /\ reading[r].left = <<>> /\ reading[r].kind = "office"
        /\ reading' = [reading EXCEPT ![r].pc = "copy"] /\ UNCHANGED <<subject, page>>
        /\ temps' = [temps EXCEPT !.there = @ \cup {reading[r].no}]
    BY <1>2 DEF MakeDirectory, Checked
  <2>2. reading'[r] = new /\ reading' = [reading EXCEPT ![r] = reading'[r]]
    BY <1>1, <2>1
  <2>3. new \in ReadRequest
    BY <1>1 DEF ReadRequest
  <2>4. /\ new.pc = "copy" /\ new.got = reading[r].got
        /\ new.kind = reading[r].kind /\ new.left = reading[r].left /\ new.via = reading[r].via
        /\ new.held = reading[r].held /\ new.since = reading[r].since
        /\ new.asked = reading[r].asked /\ new.sized = reading[r].sized
        /\ new.header = reading[r].header /\ new.turn = reading[r].turn /\ new.no = reading[r].no
        /\ new.label = reading[r].label /\ new.first = reading[r].first
    BY <1>1, <2>1 DEF ReadRequest
  <2>5. temps' \in Temps /\ temps'.there = temps.there \cup {reading[r].no}
        /\ temps'.abandoned = temps.abandoned
    BY <1>1, <2>1 DEF Temps, ReadRequest
  <2> HIDE DEF new
  <2>6. \A n \in temps'.there \ temps'.abandoned :
          HoldsTemp(new, n) \/ (n \in temps.there \ temps.abandoned /\ ~HoldsTemp(reading[r], n))
    BY <2>1, <2>4, <2>5 DEF HoldsTemp
  <2>7. ReadFits(new, subject, page)
    BY <2>1, <2>3, <2>4, GoesOnFits
  <2> QED
    BY <2>1, <2>2, <2>3, <2>4, <2>5, <2>6, <2>7, OneGoesOn
<1>3. CASE CopySource(r)
  <2> DEFINE new == [reading[r] EXCEPT !.pc = "convert", !.got = subject.version]
  <2>1. /\ reading[r].pc = "copy" /\ UNCHANGED <<subject, page, temps>>
        /\ reading' = [reading EXCEPT ![r].pc = "convert", ![r].got = subject.version]
    BY <1>3 DEF CopySource
  <2>2. reading'[r] = new /\ reading' = [reading EXCEPT ![r] = reading'[r]]
    BY <1>1, <2>1
  <2>3. /\ reading[r] \in ReadRequest /\ BytesFit(reading[r], subject)
        /\ RightsFit(reading[r], subject) /\ TurnFits(reading[r], page)
        /\ subject.version \in Versions /\ Versions \subseteq Nat \ {0}
    BY <2>1, RequestIs
  <2>4. reading[r].asked = 0
    BY <2>1, <2>3 DEF BytesFit, FileReads
  <2>5. new \in ReadRequest
    BY <2>3 DEF ReadRequest
  <2>6. /\ new.pc = "convert" /\ new.got = subject.version
        /\ new.kind = reading[r].kind /\ new.left = reading[r].left /\ new.via = reading[r].via
        /\ new.held = reading[r].held /\ new.since = reading[r].since
        /\ new.asked = reading[r].asked /\ new.sized = reading[r].sized
        /\ new.header = reading[r].header /\ new.turn = reading[r].turn /\ new.no = reading[r].no
        /\ new.label = reading[r].label /\ new.first = reading[r].first
    BY <1>1, <2>1 DEF ReadRequest
  <2> HIDE DEF new
  <2>8. ReadFits(new, subject, page)
    <3>1. reading[r].kind = "office" /\ reading[r].left = <<>>
      BY <2>1, <2>3 DEF BytesFit, RightsFit
    <3> QED
      BY <2>1, <2>4, <2>5, <2>6, <3>1, GoesOnFits
  <2>7. \A n : HoldsTemp(reading[r], n) => HoldsTemp(new, n)
    BY <2>1, <2>6 DEF HoldsTemp
  <2> QED
    BY <1>1, <2>1, <2>2, <2>5, <2>6, <2>7, <2>8, OneGoesOn
<1>4. CASE Convert(r)
  <2> DEFINE new == [reading[r] EXCEPT !.pc = "send"]
  <2>1. /\ reading[r].pc = "convert" /\ UNCHANGED <<subject, page>>
        /\ reading' = [reading EXCEPT ![r] = Begun(reading[r])]
        /\ temps' = IF reading[r].gone THEN [temps EXCEPT !.abandoned = @ \cup {reading[r].no}]
                    ELSE temps
    BY <1>4 DEF Convert, Begin
  <2>2. CASE reading[r].gone
    BY <2>1, <2>2, OneEnds DEF Begun
  <2>3. CASE ~reading[r].gone
    <3>1. reading'[r] = new /\ reading' = [reading EXCEPT ![r] = reading'[r]] /\ temps' = temps
      BY <1>1, <2>1, <2>3 DEF Begun
    <3>2. new \in ReadRequest
      BY <1>1 DEF ReadRequest
    <3>3. /\ new.pc = "send" /\ new.got = reading[r].got
          /\ new.kind = reading[r].kind /\ new.left = reading[r].left /\ new.via = reading[r].via
          /\ new.held = reading[r].held /\ new.since = reading[r].since
          /\ new.asked = reading[r].asked /\ new.sized = reading[r].sized
          /\ new.header = reading[r].header /\ new.turn = reading[r].turn /\ new.no = reading[r].no
        /\ new.label = reading[r].label /\ new.first = reading[r].first
      BY <1>1, <2>1 DEF ReadRequest
    <3> HIDE DEF new
    <3>5. ReadFits(new, subject, page)
      <4>1. reading[r].kind = "office" /\ reading[r].left = <<>>
        BY <2>1, RequestIs DEF BytesFit, RightsFit
      <4> QED
        BY <2>1, <3>2, <3>3, <4>1, GoesOnFits
    <3>4. \A n : HoldsTemp(reading[r], n) => HoldsTemp(new, n)
      BY <2>1, <3>3 DEF HoldsTemp
    <3> QED
      BY <1>1, <2>1, <3>1, <3>2, <3>3, <3>4, <3>5, OneGoesOn
  <2> QED
    BY <2>2, <2>3
<1> QED
  BY <1>2, <1>3, <1>4

LEMMA LeaveReadFits ==
    ASSUME ReadInv, NEW r \in Readers, LeaveRead(r) PROVE ReadInv'
<1>1. /\ reading[r].pc # "idle" /\ UNCHANGED <<subject, page>>
      /\ reading' = [reading EXCEPT ![r] = IF reading[r].pc = "send" THEN NoRequest
                                           ELSE [reading[r] EXCEPT !.gone = TRUE]]
      /\ temps' = IF reading[r].pc = "send" /\ reading[r].kind = "office"
                  THEN [temps EXCEPT !.there = @ \ {reading[r].no}] ELSE temps
  BY DEF LeaveRead
<1>2. CASE reading[r].pc = "send"
  BY <1>1, <1>2, OneEnds DEF HoldsTemp
<1>3. CASE reading[r].pc # "send"
  <2> DEFINE new == [reading[r] EXCEPT !.gone = TRUE]
  <2>1. reading \in [Readers -> ReadRequest] /\ temps \in Temps /\ reading[r] \in ReadRequest
    BY DEF ReadInv, ReadTypeOK
  <2>2. reading'[r] = new /\ reading' = [reading EXCEPT ![r] = reading'[r]] /\ temps' = temps
    BY <1>1, <1>3, <2>1
  <2>3. new \in ReadRequest
    BY <2>1 DEF ReadRequest
  <2>4. /\ new.pc = reading[r].pc /\ new.got = reading[r].got
        /\ new.kind = reading[r].kind /\ new.left = reading[r].left /\ new.via = reading[r].via
        /\ new.held = reading[r].held /\ new.since = reading[r].since
        /\ new.asked = reading[r].asked /\ new.sized = reading[r].sized
        /\ new.header = reading[r].header /\ new.turn = reading[r].turn /\ new.no = reading[r].no
        /\ new.label = reading[r].label /\ new.first = reading[r].first
    BY <2>1 DEF ReadRequest
  <2> HIDE DEF new
  <2>6. ReadFits(new, subject, page)
    BY <1>1, <2>3, <2>4, GoesOnFits
  <2>5. \A n : HoldsTemp(reading[r], n) => HoldsTemp(new, n)
    BY <2>4 DEF HoldsTemp
  <2> QED
    BY <1>1, <2>1, <2>2, <2>3, <2>4, <2>5, <2>6, OneGoesOn
<1> QED
  BY <1>2, <1>3

-----------------------------------------------------------------------------
(* The file changes.                                                       *)

\* A file to which something has happened.
Follows(s, t) ==
    /\ s.version \in Nat /\ t.version \in Nat /\ s.current \in Nat /\ t.current \in Nat
    /\ s.version <= t.version /\ s.current <= t.current

LEMMA MeetIs ==
    ASSUME NEW all \in [Readers -> ReadRequest], NEW t
    PROVE /\ Meet(all, t) \in [Readers -> ReadRequest]
          /\ \A r \in Readers :
               /\ all[r].pc = "idle" => Meet(all, t)[r] = all[r]
               /\ all[r].pc # "idle" =>
                    Meet(all, t)[r] = [all[r] EXCEPT !.held = all[r].held \cup RightsOf(t)]
          /\ \A r \in Readers :
               /\ Meet(all, t)[r].pc = all[r].pc /\ Meet(all, t)[r].kind = all[r].kind
               /\ Meet(all, t)[r].no = all[r].no
<1> SUFFICES ASSUME NEW r \in Readers
             PROVE /\ Meet(all, t)[r] \in ReadRequest
                   /\ all[r].pc = "idle" => Meet(all, t)[r] = all[r]
                   /\ all[r].pc # "idle" =>
                        Meet(all, t)[r] = [all[r] EXCEPT !.held = all[r].held \cup RightsOf(t)]
                   /\ Meet(all, t)[r].pc = all[r].pc /\ Meet(all, t)[r].kind = all[r].kind
                   /\ Meet(all, t)[r].no = all[r].no
  BY DEF Meet
<1>1. all[r] \in ReadRequest /\ RightsOf(t) \subseteq Rights
  BY RightsOfAre
<1>2. Meet(all, t)[r] = IF all[r].pc = "idle" THEN all[r]
                        ELSE [all[r] EXCEPT !.held = all[r].held \cup RightsOf(t)]
  BY DEF Meet
<1>3. CASE all[r].pc = "idle"
  BY <1>1, <1>2, <1>3
<1>4. CASE all[r].pc # "idle"
  <2> DEFINE held == all[r].held \cup RightsOf(t)
             new == [all[r] EXCEPT !.held = held]
  <2>1. Meet(all, t)[r] = new
    BY <1>2, <1>4
  <2>2. held \in SUBSET Rights
    BY <1>1 DEF ReadRequest
  <2> HIDE DEF held
  <2>3. /\ new \in ReadRequest /\ new.pc = all[r].pc /\ new.kind = all[r].kind
        /\ new.no = all[r].no
    BY <1>1, <2>2 DEF ReadRequest
  <2> HIDE DEF new
  <2> QED
    BY <1>4, <2>1, <2>3 DEF held, new
<1> QED
  BY <1>3, <1>4

LEMMA MeetFits ==
    ASSUME NEW all \in [Readers -> ReadRequest], NEW s, NEW t, NEW p, AllFit(all, s, p),
           Follows(s, t), NEW u, u.version = t.version, u.current = t.current,
           RightsOf(u) = RightsOf(t)
    PROVE AllFit(Meet(all, t), u, p)
<1> SUFFICES ASSUME NEW r \in Readers, Meet(all, t)[r].pc # "idle"
             PROVE ReadFits(Meet(all, t)[r], u, p)
  BY DEF AllFit, ReadFits
<1> DEFINE q == all[r]
           new == Meet(all, t)[r]
<1>1. q \in ReadRequest /\ q.pc # "idle" /\ ReadFits(q, s, p)
      /\ new = [q EXCEPT !.held = q.held \cup RightsOf(t)]
  BY MeetIs DEF AllFit
<1>2. /\ new.pc = q.pc /\ new.kind = q.kind /\ new.left = q.left /\ new.via = q.via
      /\ new.held = q.held \cup RightsOf(t) /\ new.since = q.since /\ new.asked = q.asked
      /\ new.sized = q.sized /\ new.got = q.got /\ new.header = q.header /\ new.turn = q.turn
      /\ new.label = q.label /\ new.first = q.first
  BY <1>1 DEF ReadRequest
<1>3. RightsFit(q, s) /\ BytesFit(q, s) /\ TurnFits(q, p)
  BY <1>1 DEF ReadFits
<1>4. q.since \in Nat /\ q.got \in Nat /\ q.sized \in Nat
  <2>1. q.since \in Versions /\ q.got \in {0} \cup Versions /\ q.sized \in {0} \cup Versions
    BY <1>1 DEF ReadRequest
  <2> QED
    BY <2>1, ReadConstants DEF Versions
<1> HIDE DEF q, new
<1>5. RightsFit(new, u) /\ TurnFits(new, p)
  BY <1>2, <1>3 DEF RightsFit, TurnFits
<1>6. BytesFit(new, u)
  <2>1. q.since <= u.version
    BY <1>3, <1>4 DEF BytesFit, Follows
  <2>2. q.got # 0 => IF q.asked # 0 THEN q.got = q.asked ELSE q.since <= q.got /\ q.got <= u.version
    BY <1>3, <1>4 DEF BytesFit, Follows
  <2>3. q.asked = 0 => q.sized <= u.version
    BY <1>3, <1>4 DEF BytesFit, Follows
  <2>4. q.kind = "open" /\ q.via = "local" => q.since <= u.current
    BY <1>3, <1>4 DEF BytesFit, Follows
  <2> QED
    BY <1>2, <1>3, <2>1, <2>2, <2>3, <2>4 DEF BytesFit
<1> QED
  BY <1>5, <1>6 DEF ReadFits, new

\* Requests that meet the file as it is now are as many and as far as before.
LEMMA MeetKeeps ==
    ASSUME NEW all \in [Readers -> ReadRequest], NEW t
    PROVE \A r \in Readers : \A n : HoldsTemp(Meet(all, t)[r], n) <=> HoldsTemp(all[r], n)
BY MeetIs DEF HoldsTemp

\* What is shown fits a file that has only got on.
LEMMA TabStays ==
    ASSUME ReadInv, NEW t \in Subject, Follows(subject, t) PROVE TabFits(page, t)
<1>1. page.base \in Nat /\ subject.version \in Nat /\ t.version \in Nat
      /\ subject.version <= t.version /\ TabFits(page, subject)
  BY ReadConstants DEF ReadInv, ReadTypeOK, TabPage, Versions, Follows
<1> QED
  BY <1>1 DEF TabFits

\* A request is answered with a step of the file, which the others meet.
LEMMA OneMeets ==
    ASSUME ReadInv, NEW r \in Readers, NEW new \in ReadRequest, NEW t \in Subject,
           Follows(subject, t), SubjectFits(t), subject' = t, UNCHANGED <<page, temps>>,
           reading' = Meet([reading EXCEPT ![r] = new], t),
           \A n : ~HoldsTemp(reading[r], n) /\ ~HoldsTemp(new, n),
           new.pc # "idle" =>
             /\ new.left = <<>> /\ Needs(new.kind) \subseteq new.held
             /\ BytesFit(new, t) /\ TurnFits(new, page)
    PROVE ReadInv'
<1>1. /\ reading \in [Readers -> ReadRequest] /\ page \in TabPage /\ temps \in Temps
      /\ AllFit(reading, subject, page) /\ DirectoriesGo
  BY DEF ReadInv, ReadTypeOK
<1>2. PICK all : all = [reading EXCEPT ![r] = new]
  OBVIOUS
<1>3. all \in [Readers -> ReadRequest] /\ all[r] = new /\ \A x \in Readers : x # r => all[x] = reading[x]
  BY <1>1, <1>2
<1>4. /\ reading' = Meet(all, t) /\ reading' \in [Readers -> ReadRequest]
      /\ \A x \in Readers : \A n : HoldsTemp(reading'[x], n) <=> HoldsTemp(all[x], n)
  BY <1>2, <1>3, MeetIs, MeetKeeps
<1>5. ReadFits(reading'[r], t, page)
  <2>1. CASE new.pc = "idle"
    BY <1>3, <1>4, <2>1, MeetIs DEF ReadFits
  <2>2. CASE new.pc # "idle"
    <3> DEFINE met == reading'[r]
    <3>1. met = [new EXCEPT !.held = new.held \cup RightsOf(t)]
      BY <1>3, <1>4, <2>2, MeetIs
    <3>2. /\ met.pc = new.pc /\ met.kind = new.kind /\ met.left = new.left /\ met.via = new.via
          /\ met.held = new.held \cup RightsOf(t) /\ met.since = new.since /\ met.asked = new.asked
          /\ met.sized = new.sized /\ met.got = new.got /\ met.header = new.header
          /\ met.turn = new.turn /\ met.label = new.label /\ met.first = new.first
      BY <3>1 DEF ReadRequest
    <3> HIDE DEF met
    <3>3. RightsFit(met, t)
      BY <2>2, <3>2 DEF RightsFit
    <3>4. BytesFit(met, t)
      BY <2>2, <3>2 DEF BytesFit
    <3>5. TurnFits(met, page)
      BY <2>2, <3>2 DEF TurnFits
    <3> QED
      BY <3>3, <3>4, <3>5 DEF ReadFits, met
  <2> QED
    BY <2>1, <2>2
<1>6. ASSUME NEW x \in Readers, x # r PROVE ReadFits(reading'[x], t, page)
  <2>1. AllFit(Meet(reading, t), t, page)
    BY <1>1, MeetFits
  <2>2. reading'[x] = Meet(reading, t)[x]
    BY <1>3, <1>4, <1>6 DEF Meet
  <2> QED
    BY <2>1, <2>2 DEF AllFit
<1>7. TabFits(page, t)
  BY TabStays
<1>8. ReadTypeOK' /\ SubjectFits(subject)' /\ TabFits(page, subject)'
  BY <1>1, <1>4, <1>7 DEF ReadTypeOK, SubjectFits, TabFits, Chained
<1>9. AllFit(reading', subject', page')
  BY <1>5, <1>6 DEF AllFit
<1>10. AllFit(reading, subject, page)'
  BY <1>9
<1>11. DirectoriesGo'
  <2>1. ASSUME NEW n \in temps'.there \ temps'.abandoned
        PROVE \E x \in Readers : HoldsTemp(reading'[x], n)
    <3>1. PICK x \in Readers : HoldsTemp(reading[x], n)
      BY <1>1, <2>1 DEF DirectoriesGo, HoldsTemp
    <3> QED
      BY <1>3, <1>4, <3>1
  <2> QED
    BY <2>1, DirectoriesStay
<1> QED
  BY <1>8, <1>10, <1>11 DEF ReadInv

\* A new version is the current one, where the volume has one.
LEMMA ReplacedFits ==
    ASSUME ReadInv, subject.version < MaxVersion
    PROVE /\ Replaced \in Subject /\ Replaced.left = subject.left
          /\ Replaced.version = subject.version + 1
          /\ Follows(subject, Replaced) /\ SubjectFits(Replaced)
<1>1. subject \in Subject /\ SubjectFits(subject) /\ MaxVersion \in Nat
  BY ReadConstants DEF ReadInv, ReadTypeOK
<1>2. /\ subject.version \in Nat \ {0} /\ subject.current \in Nat
      /\ subject.current \in {0} \cup Versions
  BY <1>1 DEF Subject, Versions
<1> DEFINE current == IF subject.backing = "local" THEN subject.version + 1 ELSE subject.current
           to == [subject EXCEPT !.version = subject.version + 1, !.current = current]
<1>3. subject.version + 1 \in Versions /\ subject.version + 1 \in Nat
  BY <1>1, <1>2 DEF Versions
<1>4. current \in {0} \cup Versions /\ current \in Nat /\ subject.current <= current
      /\ current <= subject.version + 1 /\ (subject.backing = "local" => current = subject.version + 1)
  BY <1>1, <1>2, <1>3 DEF SubjectFits
<1>5. Replaced = to
  BY DEF Replaced
<1> HIDE DEF current
<1>6. /\ to \in Subject /\ to.left = subject.left /\ to.version = subject.version + 1
      /\ to.current = current /\ to.backing = subject.backing
  BY <1>1, <1>3, <1>4 DEF Subject
<1> HIDE DEF to
<1>7. Follows(subject, to) /\ SubjectFits(to)
  BY <1>2, <1>3, <1>4, <1>6 DEF Follows, SubjectFits
<1> QED
  BY <1>5, <1>6, <1>7

LEMMA MarkFileFits ==
    ASSUME ReadInv, NEW r \in Readers, MarkFile(r) PROVE ReadInv'
<1> DEFINE new == Begun(reading[r])
<1>1. /\ reading[r].pc = "check" /\ reading[r].left = <<>> /\ reading[r].kind = "mark"
      /\ subject' = [subject EXCEPT !.listed = TRUE] /\ UNCHANGED <<page, temps>>
  BY DEF MarkFile, Checked
<1>2. reading' = Meet([reading EXCEPT ![r] = new], subject')
  BY DEF MarkFile
<1>3. reading[r] \in ReadRequest /\ subject \in Subject /\ SubjectFits(subject)
  BY DEF ReadInv, ReadTypeOK
<1>4. PICK t : t = subject'
  OBVIOUS
<1>5. t \in Subject /\ t.version = subject.version /\ SubjectFits(t) /\ Follows(subject, t)
  <2>1. /\ t \in Subject /\ t.version = subject.version
        /\ t.current = subject.current /\ t.backing = subject.backing
    BY <1>1, <1>3, <1>4 DEF Subject
  <2>2. subject.version \in Nat /\ subject.current \in Nat
    BY <1>3, ReadConstants DEF Subject, Versions
  <2> QED
    BY <1>3, <2>1, <2>2 DEF Follows, SubjectFits
<1>6. \A n : ~HoldsTemp(reading[r], n)
  BY <1>1 DEF HoldsTemp
<1>7. /\ new \in ReadRequest /\ \A n : ~HoldsTemp(new, n)
      /\ new.pc # "idle" => /\ new.left = <<>> /\ Needs(new.kind) \subseteq new.held
                            /\ BytesFit(new, t) /\ TurnFits(new, page)
  <2>1. CASE reading[r].gone
    BY <2>1, NoRequestIs DEF Begun
  <2>2. CASE ~reading[r].gone
    <3>1. new = [reading[r] EXCEPT !.pc = "send"]
      BY <2>2 DEF Begun
    <3>2. /\ new \in ReadRequest /\ new.pc = "send" /\ new.kind = "mark" /\ new.left = <<>>
          /\ new.via = reading[r].via /\ new.held = reading[r].held /\ new.since = reading[r].since
          /\ new.asked = reading[r].asked /\ new.sized = reading[r].sized /\ new.got = reading[r].got
          /\ new.header = reading[r].header /\ new.turn = reading[r].turn
          /\ new.label = reading[r].label /\ new.first = reading[r].first
      BY <1>1, <1>3, <3>1 DEF ReadRequest
    <3>3. RightsFit(reading[r], subject) /\ BytesFit(reading[r], subject) /\ TurnFits(reading[r], page)
      BY <1>1, RequestIs
    <3> HIDE DEF new
    <3>4. Needs(new.kind) \subseteq new.held
      BY <1>1, <3>2, <3>3, NothingToCheck DEF RightsFit
    <3>5. BytesFit(new, t) /\ TurnFits(new, page)
      BY <1>1, <1>5, <3>2, <3>3 DEF BytesFit, TurnFits
    <3> QED
      BY <3>2, <3>4, <3>5 DEF HoldsTemp
  <2> QED
    BY <2>1, <2>2
<1> HIDE DEF new
<1> QED
  BY <1>1, <1>2, <1>4, <1>5, <1>6, <1>7, OneMeets

\* A save makes the version after the one that it expects.
LEMMA SaveThroughFits ==
    ASSUME ReadInv, NEW r \in Readers, SaveThrough(r) PROVE ReadInv'
<1> DEFINE q == reading[r]
           next == subject.version + 1
           new == Begun([q EXCEPT !.sized = next])
<1>1. /\ q.pc = "check" /\ q.left = <<>> /\ q.kind = "save" /\ q.label = subject.version
      /\ subject.version < MaxVersion /\ subject' = Replaced /\ UNCHANGED <<page, temps>>
  BY DEF SaveThrough, Checked, ExpectedRevision
<1>2. PICK t : t = Replaced
  OBVIOUS
<1>3. t \in Subject /\ t.version = next /\ Follows(subject, t) /\ SubjectFits(t)
  BY <1>1, <1>2, ReplacedFits
<1>4. reading' = Meet([reading EXCEPT ![r] = new], t)
  BY <1>1, <1>2, <1>3 DEF SaveThrough
<1>5. /\ q \in ReadRequest /\ RightsFit(q, subject) /\ BytesFit(q, subject) /\ TurnFits(q, page)
      /\ q.since \in Nat \ {0} /\ subject.version \in Versions
  BY <1>1, RequestIs
<1>6. next \in Versions /\ next \in Nat /\ subject.version \in Nat
  BY <1>1, <1>5, ReadConstants DEF Versions
<1>7. \A n : ~HoldsTemp(reading[r], n)
  BY <1>1 DEF HoldsTemp
<1> HIDE DEF next
<1>8. /\ new \in ReadRequest /\ \A n : ~HoldsTemp(new, n)
      /\ new.pc # "idle" => /\ new.left = <<>> /\ Needs(new.kind) \subseteq new.held
                            /\ BytesFit(new, t) /\ TurnFits(new, page)
  <2>1. CASE q.gone
    <3>1. [q EXCEPT !.sized = next].gone
      BY <1>5, <2>1 DEF ReadRequest
    <3> QED
      BY <3>1, NoRequestIs DEF Begun
  <2>2. CASE ~q.gone
    <3>1. new = [q EXCEPT !.sized = next, !.pc = "send"]
      BY <1>5, <2>2 DEF Begun, ReadRequest
    <3>2. /\ new \in ReadRequest /\ new.pc = "send" /\ new.kind = "save" /\ new.left = <<>>
          /\ new.via = q.via /\ new.held = q.held /\ new.since = q.since
          /\ new.asked = q.asked /\ new.sized = next /\ new.got = q.got
          /\ new.header = q.header /\ new.turn = q.turn
          /\ new.label = q.label /\ new.first = q.first
      BY <1>1, <1>5, <1>6, <3>1 DEF ReadRequest
    <3> HIDE DEF new, q
    <3>4. Needs(new.kind) \subseteq new.held
      BY <1>1, <1>5, <3>2, NothingToCheck DEF RightsFit
    <3>5. TurnFits(new, page)
      BY <1>1, <1>5, <3>2 DEF TurnFits
    <3>6. q.asked = 0 /\ q.header = WholeFile
      BY <1>1, <1>5 DEF BytesFit, FileReads
    <3>7. BytesFit(new, t)
      <4>1. next = q.label + 1
        BY <1>1 DEF next
      <4>2. q.since <= t.version
        BY <1>3, <1>5, <1>6 DEF BytesFit, next
      <4> QED
        BY <1>1, <1>3, <1>5, <1>6, <3>2, <3>6, <4>1, <4>2 DEF BytesFit, FileReads
    <3> QED
      BY <3>2, <3>4, <3>5, <3>7 DEF HoldsTemp
  <2> QED
    BY <2>1, <2>2
<1> HIDE DEF new, q
<1> QED
  BY <1>1, <1>2, <1>3, <1>4, <1>7, <1>8, OneMeets

LEMMA SomethingHappens ==
    ASSUME ReadInv, NEW event, NEW to, Happens(event, to), to \in Subject,
           to.left = subject.left, Follows(subject, to), SubjectFits(to)
    PROVE ReadInv'
<1>1. /\ subject.left > 0 /\ subject' = [to EXCEPT !.left = to.left - 1]
      /\ reading' = Meet(reading, to) /\ UNCHANGED <<page, temps>>
  BY DEF Happens
<1>2. /\ reading \in [Readers -> ReadRequest] /\ subject \in Subject /\ page \in TabPage
      /\ temps \in Temps /\ AllFit(reading, subject, page) /\ DirectoriesGo
  BY DEF ReadInv, ReadTypeOK
<1>3. to.left - 1 \in Nat
  BY <1>1, <1>2 DEF Subject
<1>4. PICK t : t = to
  OBVIOUS
<1>5. PICK u : u = [to EXCEPT !.left = to.left - 1]
  OBVIOUS
<1>6. /\ u \in Subject /\ u.version = to.version /\ u.current = to.current /\ u.live = to.live
      /\ u.account = to.account /\ u.link = to.link /\ u.up = to.up /\ u.listed = to.listed
      /\ u.backing = to.backing
  BY <1>3, <1>5 DEF Subject
<1>7. RightsOf(u) = RightsOf(to)
  BY <1>6 DEF RightsOf
<1>8. AllFit(reading', u, page) /\ reading' \in [Readers -> ReadRequest]
      /\ \A r \in Readers : \A n : HoldsTemp(reading'[r], n) <=> HoldsTemp(reading[r], n)
  BY <1>1, <1>2, <1>6, <1>7, MeetFits, MeetKeeps, MeetIs
<1>9. subject' = u
  BY <1>1, <1>5
<1>10. ReadTypeOK'
  BY <1>1, <1>2, <1>6, <1>8, <1>9 DEF ReadTypeOK
<1>11. SubjectFits(subject)'
  BY <1>6, <1>9 DEF SubjectFits
<1>12. TabFits(page, subject)'
  <2>1. TabFits(page, u)
    BY <1>6, TabStays DEF Follows
  <2> QED
    BY <1>1, <1>9, <2>1 DEF TabFits, Chained
<1>13. AllFit(reading', subject', page')
  BY <1>1, <1>8, <1>9
<1>14. DirectoriesGo'
  BY <1>1, <1>2, <1>8 DEF DirectoriesGo, HoldsTemp
<1>15. AllFit(reading, subject, page)'
  BY <1>13
<1> QED
  BY <1>10, <1>11, <1>12, <1>14, <1>15 DEF ReadInv

LEMMA SubjectChangesFit ==
    ASSUME ReadInv, SubjectChanges PROVE ReadInv'
<1>1. subject \in Subject /\ SubjectFits(subject) /\ Versions \subseteq Nat \ {0} /\ MaxVersion \in Nat
  BY ReadConstants DEF ReadInv, ReadTypeOK, Versions
<1>2. subject.version \in Versions /\ subject.current \in {0} \cup Versions
  BY <1>1 DEF Subject
<1>3. subject.version \in Nat \ {0} /\ subject.current \in Nat
  BY <1>1, <1>2 DEF Versions
<1> DEFINE Fits(to) == to \in Subject /\ to.left = subject.left /\ Follows(subject, to) /\ SubjectFits(to)
<1>4. ASSUME NEW to \in Subject, to.left = subject.left, to.version = subject.version,
             to.current = subject.current, to.backing \in {subject.backing, "drive"}
      PROVE Fits(to)
  BY <1>1, <1>3, <1>4 DEF Follows, SubjectFits
<1> HIDE DEF Fits
<1>5. Fits([subject EXCEPT !.live = ~subject.live])
  <2>1. PICK live \in BOOLEAN : live = ~subject.live
    OBVIOUS
  <2> DEFINE to == [subject EXCEPT !.live = live]
  <2>2. /\ to \in Subject /\ to.left = subject.left /\ to.version = subject.version
        /\ to.current = subject.current /\ to.backing = subject.backing
    BY <1>1 DEF Subject
  <2> QED
    BY <1>4, <2>1, <2>2
<1>6. ASSUME NEW account \in {"admin", "viewer", "none"} PROVE Fits([subject EXCEPT !.account = account])
  <2> DEFINE to == [subject EXCEPT !.account = account]
  <2>1. /\ to \in Subject /\ to.left = subject.left /\ to.version = subject.version
        /\ to.current = subject.current /\ to.backing = subject.backing
    BY <1>1 DEF Subject
  <2> QED
    BY <1>4, <2>1
<1>7. Fits([subject EXCEPT !.link = ~subject.link])
  <2>1. PICK link \in BOOLEAN : link = ~subject.link
    OBVIOUS
  <2> DEFINE to == [subject EXCEPT !.link = link]
  <2>2. /\ to \in Subject /\ to.left = subject.left /\ to.version = subject.version
        /\ to.current = subject.current /\ to.backing = subject.backing
    BY <1>1 DEF Subject
  <2> QED
    BY <1>4, <2>1, <2>2
<1>8. Fits([subject EXCEPT !.up = ~subject.up])
  <2>1. PICK up \in BOOLEAN : up = ~subject.up
    OBVIOUS
  <2> DEFINE to == [subject EXCEPT !.up = up]
  <2>2. /\ to \in Subject /\ to.left = subject.left /\ to.version = subject.version
        /\ to.current = subject.current /\ to.backing = subject.backing
    BY <1>1 DEF Subject
  <2> QED
    BY <1>4, <2>1, <2>2
<1>9. Fits([subject EXCEPT !.listed = FALSE]) /\ Fits([subject EXCEPT !.backing = "drive"])
  <2> DEFINE to == [subject EXCEPT !.listed = FALSE]
             moved == [subject EXCEPT !.backing = "drive"]
  <2>1. /\ to \in Subject /\ to.left = subject.left /\ to.version = subject.version
        /\ to.current = subject.current /\ to.backing = subject.backing
    BY <1>1 DEF Subject
  <2>2. /\ moved \in Subject /\ moved.left = subject.left /\ moved.version = subject.version
        /\ moved.current = subject.current /\ moved.backing = "drive"
    BY <1>1 DEF Subject
  <2> QED
    BY <1>4, <2>1, <2>2
<1>10. subject.version < MaxVersion => Fits(Replaced)
  BY ReplacedFits DEF Fits
<1>11. \E event, to : Happens(event, to) /\ Fits(to)
  BY <1>5, <1>6, <1>7, <1>8, <1>9, <1>10 DEF SubjectChanges
<1>12. PICK event, to : Happens(event, to) /\ Fits(to)
  BY <1>11
<1> QED
  BY <1>12, SomethingHappens DEF Fits

-----------------------------------------------------------------------------
(* A request comes; an answer is there.                                    *)

LEMMA NewRequestIs ==
    ASSUME ReadInv, NEW kind \in ReadKinds, NEW no \in Nat, NEW load \in Nat
    PROVE LET new == NewRead(kind, no, load)
          IN /\ new \in ReadRequest /\ new.pc = "check" /\ new.kind = kind
             /\ new.left = Checks(kind) /\ new.held = RightsOf(subject) /\ new.header = WholeFile
             /\ new.asked = 0 /\ new.via = "none" /\ new.since = subject.version
             /\ new.sized = 0 /\ new.got = 0 /\ new.label = 0 /\ new.first = 0
             /\ new.turn = page.turn
<1>1. /\ subject.backing \in {"local", "drive"} /\ subject.version \in Versions /\ page.turn \in Nat
      /\ Checks(kind) \in Seq(SUBSET Rights) /\ RightsOf(subject) \in SUBSET Rights
  BY ChecksCover, RightsOfAre DEF ReadInv, ReadTypeOK, Subject, TabPage
<1> QED
  BY <1>1 DEF NewRead, NoRequest, ReadRequest, Passes

LEMMA AnewIs ==
    ASSUME page \in TabPage, NEW label \in {0} \cup Versions, NEW seen \in SUBSET Versions,
           NEW p, p = ShowAnew(label, seen)
    PROVE /\ p \in TabPage /\ p.label = label /\ p.seen = seen /\ p.base = label /\ p.own = {}
          /\ p.turn = page.turn + 1
<1>1. PICK turn \in Nat : turn = page.turn + 1
  BY DEF TabPage
<1>2. p = [page EXCEPT !.label = label, !.seen = seen, !.base = label, !.own = {}, !.turn = turn,
             !.mixed = FALSE]
  BY <1>1 DEF ShowAnew
<1>3. {} \in SUBSET Versions /\ FALSE \in BOOLEAN
  OBVIOUS
<1> QED
  BY <1>1, <1>2, <1>3 DEF TabPage

\* A tab that is shown something new: whatever was asked for before does not count.
LEMMA AnewFits ==
    ASSUME ReadInv, NEW p \in TabPage, p.turn = page.turn + 1, p.own = {}, p.base = p.label,
           p.label <= subject.version, \A v \in p.seen : p.label <= v
    PROVE /\ TabFits(p, subject)
          /\ \A t \in Readers : reading[t].pc # "idle" => TurnFits(reading[t], p)
<1>1. /\ p.label \in Nat /\ page.turn \in Nat
      /\ \A v \in Versions : ~(p.label < v /\ v <= p.label)
  BY ReadConstants DEF ReadInv, ReadTypeOK, TabPage, Versions
<1>2. TabFits(p, subject)
  BY <1>1 DEF TabFits, Chained
<1>3. ASSUME NEW t \in Readers, reading[t].pc # "idle" PROVE TurnFits(reading[t], p)
  <2>1. reading[t].turn \in Nat /\ reading[t].turn <= page.turn
    BY <1>3, RequestIs DEF TurnFits, ReadRequest
  <2> QED
    BY <1>1, <2>1 DEF TurnFits
<1> QED
  BY <1>2, <1>3

\* A tab that goes on showing what it does, and more.
LEMMA KeptFits ==
    ASSUME ReadInv, NEW p \in TabPage, p.turn = page.turn, p.base = page.base,
           page.own \subseteq p.own, page.mixed => p.mixed,
           ~p.mixed => Chained(p, p.label) /\ \A v \in p.seen : p.base <= v
    PROVE /\ TabFits(p, subject)
          /\ \A t \in Readers : reading[t].pc # "idle" => TurnFits(reading[t], p)
<1>1. TabFits(p, subject)
  BY DEF ReadInv, TabFits
<1>2. ASSUME NEW t \in Readers, reading[t].pc # "idle" PROVE TurnFits(reading[t], p)
  <2>1. TurnFits(reading[t], page)
    BY <1>2, RequestIs
  <2>2. \A l : Chained(page, l) => Chained(p, l)
    BY DEF Chained
  <2> QED
    BY <2>1, <2>2 DEF TurnFits
<1> QED
  BY <1>1, <1>2

LEMMA AskFits ==
    ASSUME ReadInv, NEW r \in Readers, NEW kind \in ReadKinds,
           NEW header \in RangeHeaders \cup {WholeFile}, NEW asked \in {0} \cup Versions,
           Ask(r, kind, header, asked)
    PROVE ReadInv'
<1> DEFINE load == IF kind = "model" THEN page.load + 1 ELSE page.load
           plain == NewRead(kind, subject.asks, load)
           side == IF kind = "local" THEN "local" ELSE plain.side
           label == IF kind = "save" THEN page.label ELSE 0
           new == [plain EXCEPT !.header = header, !.asked = asked, !.side = side, !.label = label]
           shown == [ShowAnew(0, {}) EXCEPT !.load = load]
<1>1. /\ reading[r].pc = "idle" /\ subject.asks > 0
      /\ asked # 0 => kind \in FileReads
      /\ kind = "save" => header = WholeFile
      /\ reading' = [reading EXCEPT ![r] = new]
      /\ page' = IF kind = "model" THEN shown ELSE page
      /\ subject' = [subject EXCEPT !.asks = subject.asks - 1] /\ UNCHANGED temps
  BY DEF Ask, FileReads
<1>2. /\ reading \in [Readers -> ReadRequest] /\ subject \in Subject /\ page \in TabPage
      /\ temps \in Temps /\ AllFit(reading, subject, page)
      /\ TabFits(page, subject) /\ SubjectFits(subject) /\ DirectoriesGo
  BY DEF ReadInv, ReadTypeOK
<1>3. /\ load \in Nat /\ page.label \in {0} \cup Versions /\ subject.asks \in Nat
      /\ subject.version \in Versions /\ subject.version \in Nat \ {0}
  BY <1>2, ReadConstants DEF TabPage, Subject, Versions
<1>4. /\ subject' \in Subject /\ subject'.version = subject.version
      /\ subject'.current = subject.current /\ subject'.backing = subject.backing
      /\ RightsOf(subject') = RightsOf(subject)
  <2>1. PICK asks \in Nat : asks = subject.asks - 1
    BY <1>1, <1>3
  <2>2. PICK u : u = [subject EXCEPT !.asks = asks]
    OBVIOUS
  <2>3. /\ u \in Subject /\ u.version = subject.version /\ u.current = subject.current
        /\ u.live = subject.live /\ u.account = subject.account /\ u.link = subject.link
        /\ u.up = subject.up /\ u.listed = subject.listed /\ u.backing = subject.backing
    BY <1>2, <2>2 DEF Subject
  <2>4. RightsOf(u) = RightsOf(subject)
    BY <2>3 DEF RightsOf
  <2> QED
    BY <1>1, <2>1, <2>2, <2>3, <2>4
<1>5. /\ new \in ReadRequest /\ new.pc = "check" /\ new.kind = kind /\ new.left = Checks(kind)
      /\ new.held = RightsOf(subject) /\ new.asked = asked /\ new.via = "none" /\ new.header = header
      /\ new.since = subject.version /\ new.sized = 0 /\ new.got = 0 /\ new.turn = page.turn
      /\ new.label = label /\ new.first = 0
  <2>1. /\ plain \in ReadRequest /\ plain.pc = "check" /\ plain.kind = kind
        /\ plain.left = Checks(kind) /\ plain.held = RightsOf(subject)
        /\ plain.via = "none" /\ plain.since = subject.version
        /\ plain.sized = 0 /\ plain.got = 0 /\ plain.first = 0 /\ plain.turn = page.turn
    BY <1>3, NewRequestIs
  <2> HIDE DEF plain
  <2>2. side \in {"local", "drive"} /\ label \in {0} \cup Versions
    BY <1>3, <2>1 DEF ReadRequest
  <2> HIDE DEF side, label
  <2> QED
    BY <2>1, <2>2 DEF ReadRequest
<1> HIDE DEF new
<1>6. /\ reading' \in [Readers -> ReadRequest] /\ reading'[r] = new
      /\ \A t \in Readers : t # r => reading'[t] = reading[t]
  BY <1>1, <1>2, <1>5
<1>7. /\ page' \in TabPage /\ TabFits(page', subject) /\ TurnFits(new, page')
      /\ \A t \in Readers : reading[t].pc # "idle" => TurnFits(reading[t], page')
  <2>1. CASE kind = "model"
    <3>1. page' = shown
      BY <1>1, <2>1
    <3>2. PICK anew : anew = ShowAnew(0, {})
      OBVIOUS
    <3>3. /\ anew \in TabPage /\ anew.label = 0 /\ anew.seen = {} /\ anew.base = 0 /\ anew.own = {}
          /\ anew.turn = page.turn + 1
      <4>1. 0 \in {0} \cup Versions /\ {} \in SUBSET Versions
        OBVIOUS
      <4> QED
        BY <1>2, <3>2, <4>1, AnewIs
    <3>4. shown = [anew EXCEPT !.load = load]
      BY <3>2
    <3> HIDE DEF load, shown
    <3>5. /\ shown \in TabPage /\ shown.label = 0 /\ shown.seen = {} /\ shown.base = 0
          /\ shown.own = {} /\ shown.turn = page.turn + 1
      BY <1>3, <3>3, <3>4 DEF TabPage
    <3>6. TurnFits(new, shown)
      <4>1. page.turn \in Nat
        BY <1>2 DEF TabPage
      <4> QED
        BY <1>5, <3>5, <4>1 DEF TurnFits
    <3>7. TabFits(shown, subject)
          /\ \A t \in Readers : reading[t].pc # "idle" => TurnFits(reading[t], shown)
      BY <1>3, <3>5, AnewFits
    <3> QED
      BY <3>1, <3>5, <3>6, <3>7
  <2>2. CASE kind # "model"
    <3>1. page' = page
      BY <1>1, <2>2
    <3>2. TurnFits(new, page)
      <4>1. page.base <= subject.version /\ page.turn \in Nat
        BY <1>2 DEF TabFits, TabPage
      <4>2. ~page.mixed /\ kind = "save" => Chained(page, label)
        BY <1>2 DEF TabFits
      <4>3. kind # "save" => label = 0
        OBVIOUS
      <4> HIDE DEF label
      <4> QED
        BY <1>5, <4>1, <4>2, <4>3 DEF TurnFits
    <3> QED
      BY <1>2, <3>1, <3>2, RequestIs
  <2> QED
    BY <2>1, <2>2
<1>8. ReadTypeOK' /\ SubjectFits(subject)'
  BY <1>1, <1>2, <1>4, <1>6, <1>7 DEF ReadTypeOK, SubjectFits
<1>9. ReadFits(new, subject', page')
  <2>1. RightsFit(new, subject')
    BY <1>4, <1>5, ChecksCover DEF RightsFit
  <2>2. BytesFit(new, subject')
    <3>1. kind = "part" => label = 0
      OBVIOUS
    <3> HIDE DEF label
    <3> QED
      BY <1>1, <1>3, <1>4, <1>5, <3>1 DEF BytesFit
  <2> QED
    BY <1>7, <2>1, <2>2 DEF ReadFits
<1>10. ASSUME NEW t \in Readers, t # r PROVE ReadFits(reading'[t], subject', page')
  <2> SUFFICES ASSUME reading[t].pc # "idle" PROVE ReadFits(reading[t], subject', page')
    BY <1>6, <1>10 DEF ReadFits
  <2>1. RightsFit(reading[t], subject) /\ BytesFit(reading[t], subject)
    BY RequestIs
  <2>2. RightsFit(reading[t], subject') /\ BytesFit(reading[t], subject')
    BY <1>4, <2>1 DEF RightsFit, BytesFit
  <2> QED
    BY <1>7, <2>2 DEF ReadFits
<1>11. AllFit(reading', subject', page')
  BY <1>6, <1>9, <1>10 DEF AllFit
<1>12. DirectoriesGo'
  BY <1>1, <1>2, <1>6 DEF DirectoriesGo
<1>13. TabFits(page, subject)' /\ AllFit(reading, subject, page)'
  <2>1. TabFits(page', subject')
    BY <1>4, <1>7 DEF TabFits
  <2> QED
    BY <1>11, <2>1
<1> QED
  BY <1>8, <1>12, <1>13 DEF ReadInv

\* The part that is asked for last comes under a label that its own answer, or its
\* own save, led to.
LEMMA CompletesFits ==
    ASSUME ReadInv, NEW r \in Readers, Completes(r) PROVE ReadInv'
<1> DEFINE q == reading[r]
           plain == NewRead("part", q.no, q.load)
           new == [plain EXCEPT !.turn = q.turn, !.label = q.sized, !.first = q.got]
<1>1. /\ q.pc = "send" /\ (q.kind = "reload" \/ (q.kind = "save" /\ q.sized # 0))
      /\ reading' = [reading EXCEPT ![r] = new] /\ UNCHANGED <<subject, page, temps>>
  BY DEF Completes
<1>2. /\ q \in ReadRequest /\ BytesFit(q, subject) /\ TurnFits(q, page) /\ q.since \in Nat \ {0}
      /\ subject.version \in Versions /\ Versions \subseteq Nat \ {0}
  BY <1>1, RequestIs
<1>3. /\ q.turn \in Nat /\ q.sized \in {0} \cup Versions /\ q.got \in {0} \cup Versions
      /\ q.no \in Nat /\ q.load \in Nat /\ q.label \in Nat /\ q.sized \in Nat /\ q.got \in Nat
  <2>1. /\ q.turn \in Nat /\ q.sized \in {0} \cup Versions /\ q.got \in {0} \cup Versions
        /\ q.no \in Nat /\ q.load \in Nat /\ q.label \in {0} \cup Versions
    BY <1>2 DEF ReadRequest
  <2> QED
    BY <2>1, VersionsAreNumbers
<1>4. /\ plain \in ReadRequest /\ plain.pc = "check" /\ plain.kind = "part"
      /\ plain.left = Checks("part") /\ plain.held = RightsOf(subject) /\ plain.header = WholeFile
      /\ plain.asked = 0 /\ plain.via = "none" /\ plain.since = subject.version
      /\ plain.sized = 0 /\ plain.got = 0
  <2>1. "part" \in ReadKinds
    BY DEF ReadKinds, SourceReads
  <2> HIDE DEF q
  <2> QED
    BY <1>3, <2>1, NewRequestIs
<1> HIDE DEF q, plain
<1>5. /\ new \in ReadRequest /\ new.pc = "check" /\ new.kind = "part"
      /\ new.left = Checks("part") /\ new.held = RightsOf(subject) /\ new.header = WholeFile
      /\ new.asked = 0 /\ new.via = "none" /\ new.since = subject.version
      /\ new.sized = 0 /\ new.got = 0 /\ new.turn = q.turn /\ new.label = q.sized /\ new.first = q.got
  BY <1>3, <1>4 DEF ReadRequest
<1> HIDE DEF new
<1>6. RightsFit(new, subject)
  BY <1>5, ChecksCover DEF RightsFit, ReadKinds, SourceReads
<1>7. q.sized <= subject.version /\ (q.got # 0 => q.sized <= q.got)
  BY <1>1, <1>2 DEF BytesFit, FileReads
<1>8. BytesFit(new, subject)
  <2>1. subject.version \in Nat
    BY <1>2
  <2> QED
    BY <1>5, <1>7, <2>1 DEF BytesFit
<1>9. TurnFits(new, page)
  <2>1. page.base <= subject.version
    BY DEF ReadInv, TabFits
  <2>2. q.turn = page.turn /\ ~page.mixed /\ q.got = 0 => Chained(page, q.sized - 1)
    <3>1. q.got = 0 => q.kind = "save" /\ q.sized = q.label + 1
      BY <1>1, <1>2 DEF BytesFit
    <3>2. q.sized = q.label + 1 => q.sized - 1 = q.label
      BY <1>3
    <3> QED
      BY <1>2, <3>1, <3>2 DEF TurnFits
  <2> QED
    BY <1>2, <1>5, <2>1, <2>2 DEF TurnFits
<1>10. reading'[r] = new /\ reading' = [reading EXCEPT ![r] = reading'[r]] /\ temps' \in Temps
       /\ \A n : ~HoldsTemp(reading[r], n)
  BY <1>1 DEF ReadInv, ReadTypeOK, HoldsTemp, q
<1>11. ReadFits(new, subject, page)
  BY <1>6, <1>8, <1>9 DEF ReadFits
<1> QED
  BY <1>1, <1>5, <1>10, <1>11, OneGoesOn

\* What a tab makes of an answer fits again: a model was read after its label, a part
\* after what it is shown with, and the label of a save is the next one.
LEMMA PageAfterFits ==
    ASSUME ReadInv, NEW r \in Readers, reading[r].pc = "send", reading[r].kind # "reload"
    PROVE LET p == PageAfter(reading[r])
          IN /\ p \in TabPage /\ TabFits(p, subject)
             /\ \A t \in Readers : reading[t].pc # "idle" => TurnFits(reading[t], p)
<1> DEFINE q == reading[r]
           Shows(p) == /\ p \in TabPage /\ TabFits(p, subject)
                       /\ \A t \in Readers : reading[t].pc # "idle" => TurnFits(reading[t], p)
           mixed == page.mixed \/ q.turn # page.turn
           kept == [page EXCEPT !.mixed = mixed]
           vid == IF q.plan = "local" THEN q.got ELSE 0
           opened == [ShowAnew(0, {}) EXCEPT !.pass = q.plan, !.load = page.load + 1, !.vid = vid]
           modelled == ShowAnew(q.sized, {q.got})
           reloaded == ShowAnew(q.label, {q.first, q.got})
           joined == [kept EXCEPT !.seen = page.seen \cup {q.got}]
           fresh == [kept EXCEPT !.seen = page.seen \cup {q.got}, !.label = q.label,
                       !.own = page.own \cup {q.label}]
           saved == [kept EXCEPT !.label = q.sized, !.own = page.own \cup {q.sized}]
<1>1. /\ q \in ReadRequest /\ BytesFit(q, subject) /\ TurnFits(q, page) /\ q.since \in Nat \ {0}
      /\ subject.version \in Versions /\ Versions \subseteq Nat \ {0}
  BY RequestIs
<1>2. page \in TabPage /\ TabFits(page, subject)
  BY DEF ReadInv, ReadTypeOK
<1>3. /\ page.load \in Nat /\ page.label \in {0} \cup Versions /\ page.seen \subseteq Versions
      /\ page.own \subseteq Versions /\ page.base \in Nat /\ page.turn \in Nat
      /\ q.got \in {0} \cup Versions /\ q.sized \in {0} \cup Versions /\ q.plan \in Passes
      /\ q.label \in {0} \cup Versions /\ q.first \in {0} \cup Versions
  <2>1. /\ page.load \in Nat /\ page.label \in {0} \cup Versions /\ page.seen \subseteq Versions
        /\ page.own \subseteq Versions /\ page.base \in {0} \cup Versions /\ page.turn \in Nat
    BY <1>2 DEF TabPage
  <2>2. /\ q.got \in {0} \cup Versions /\ q.sized \in {0} \cup Versions /\ q.plan \in Passes
        /\ q.label \in {0} \cup Versions /\ q.first \in {0} \cup Versions
    BY <1>1 DEF ReadRequest
  <2> QED
    BY <2>1, <2>2, VersionsAreNumbers
<1>4. /\ q.got \in Nat /\ q.sized \in Nat /\ q.label \in Nat /\ q.first \in Nat
      /\ subject.version \in Nat
  <2> HIDE DEF q
  <2> QED
    BY <1>1, <1>3, VersionsAreNumbers
<1>5. /\ q.kind = "open" => PageAfter(q) = opened
      /\ q.kind = "model" /\ q.load = page.load => PageAfter(q) = modelled
      /\ q.kind = "part" /\ q.load = page.load =>
           PageAfter(q) = IF q.label = 0 THEN joined ELSE IF q.first # 0 THEN reloaded ELSE fresh
      /\ q.kind = "save" /\ q.sized # 0 /\ q.load = page.load => PageAfter(q) = saved
      /\ \/ q.kind = "open"
         \/ q.load = page.load /\ (q.kind \in {"model", "part"} \/ (q.kind = "save" /\ q.sized # 0))
         \/ PageAfter(q) = page
  <2>1. [ShowAnew(0, {}) EXCEPT !.pass = q.plan, !.load = @ + 1, !.vid = vid] = opened
    BY DEF ShowAnew
  <2> QED
    BY <2>1 DEF PageAfter
<1>6. mixed \in BOOLEAN /\ (page.mixed => mixed)
      /\ (~mixed => ~page.mixed /\ q.turn = page.turn)
  OBVIOUS
<1> HIDE DEF q, mixed, vid
<1>7. /\ kept \in TabPage /\ kept.label = page.label /\ kept.seen = page.seen
      /\ kept.base = page.base /\ kept.own = page.own /\ kept.turn = page.turn /\ kept.mixed = mixed
  BY <1>2, <1>6 DEF TabPage
<1> HIDE DEF kept
<1>8. CASE q.kind = "open"
  <2>1. PICK anew : anew = ShowAnew(0, {})
    OBVIOUS
  <2>2. /\ anew \in TabPage /\ anew.label = 0 /\ anew.seen = {} /\ anew.base = 0 /\ anew.own = {}
        /\ anew.turn = page.turn + 1
    <3>1. 0 \in {0} \cup Versions /\ {} \in SUBSET Versions
      OBVIOUS
    <3> QED
      BY <1>2, <2>1, <3>1, AnewIs
  <2>3. vid \in {0} \cup Versions
    BY <1>3 DEF vid
  <2>4. PICK load \in Nat : load = page.load + 1
    BY <1>3
  <2>7. opened = [anew EXCEPT !.pass = q.plan, !.load = load, !.vid = vid]
    BY <2>1, <2>4
  <2> HIDE DEF opened
  <2>5. /\ opened \in TabPage /\ opened.label = 0 /\ opened.seen = {} /\ opened.base = 0
        /\ opened.own = {} /\ opened.turn = page.turn + 1
    BY <1>3, <2>2, <2>3, <2>7 DEF TabPage
  <2>6. Shows(opened)
    BY <1>4, <2>5, AnewFits
  <2> QED
    BY <1>5, <1>8, <2>6 DEF q
<1>9. CASE q.kind = "model" /\ q.load = page.load
  <2>1. q.got # 0 /\ q.sized <= q.got /\ q.sized <= subject.version
    BY <1>1, <1>4, <1>9 DEF BytesFit, FileReads, q
  <2>2. /\ modelled \in TabPage /\ modelled.label = q.sized /\ modelled.seen = {q.got}
        /\ modelled.base = q.sized /\ modelled.own = {} /\ modelled.turn = page.turn + 1
    <3>1. PICK label \in {0} \cup Versions : label = q.sized
      BY <1>3
    <3>2. PICK seen \in SUBSET Versions : seen = {q.got}
      BY <1>3, <2>1
    <3>3. PICK anew : anew = ShowAnew(label, seen)
      OBVIOUS
    <3>4. /\ anew \in TabPage /\ anew.label = label /\ anew.seen = seen /\ anew.base = label
          /\ anew.own = {} /\ anew.turn = page.turn + 1
      BY <1>2, <3>3, AnewIs
    <3>5. modelled = anew
      BY <3>1, <3>2, <3>3
    <3> HIDE DEF modelled
    <3> QED
      BY <3>1, <3>2, <3>4, <3>5
  <2> HIDE DEF modelled
  <2>3. Shows(modelled)
    BY <2>1, <2>2, AnewFits
  <2> QED
    BY <1>5, <1>9, <2>3 DEF q
<1>10. CASE q.kind = "part" /\ q.load = page.load
  <2>1. /\ q.got # 0 /\ q.since <= q.got /\ q.label <= q.since
        /\ q.since <= subject.version /\ (q.first # 0 => q.label <= q.first)
    BY <1>1, <1>4, <1>10 DEF BytesFit, FileReads, q
  <2>2. ~mixed => page.base <= q.got /\ ~page.mixed /\ q.turn = page.turn
    BY <1>1, <1>3, <1>4, <1>6, <2>1 DEF TurnFits, q
  <2>3. CASE q.label = 0
    <3>1. /\ joined \in TabPage /\ joined.label = page.label /\ joined.own = page.own
          /\ joined.seen = page.seen \cup {q.got} /\ joined.base = page.base
          /\ joined.turn = page.turn /\ joined.mixed = mixed
      BY <1>3, <1>7, <2>1 DEF TabPage
    <3> HIDE DEF joined
    <3>2. ~joined.mixed => Chained(joined, joined.label) /\ \A v \in joined.seen : joined.base <= v
      BY <1>2, <2>2, <3>1 DEF TabFits, Chained
    <3>3. Shows(joined)
      BY <1>6, <3>1, <3>2, KeptFits
    <3> QED
      BY <1>5, <1>10, <2>3, <3>3 DEF q
  <2>4. CASE q.label # 0 /\ q.first # 0
    <3>1. q.label <= q.got /\ q.label <= q.first /\ q.label <= subject.version
      BY <1>1, <1>4, <2>1, <2>4 DEF q
    <3>2. /\ reloaded \in TabPage /\ reloaded.label = q.label /\ reloaded.own = {}
          /\ reloaded.seen = {q.first, q.got} /\ reloaded.base = q.label
          /\ reloaded.turn = page.turn + 1
      <4>1. PICK label \in {0} \cup Versions : label = q.label
        BY <1>3
      <4>2. PICK seen \in SUBSET Versions : seen = {q.first, q.got}
        BY <1>3, <2>1, <2>4
      <4>3. PICK anew : anew = ShowAnew(label, seen)
        OBVIOUS
      <4>4. /\ anew \in TabPage /\ anew.label = label /\ anew.seen = seen /\ anew.base = label
            /\ anew.own = {} /\ anew.turn = page.turn + 1
        BY <1>2, <4>3, AnewIs
      <4>5. reloaded = anew
        BY <4>1, <4>2, <4>3
      <4> HIDE DEF reloaded
      <4> QED
        BY <4>1, <4>2, <4>4, <4>5
    <3> HIDE DEF reloaded
    <3>3. Shows(reloaded)
      BY <3>1, <3>2, AnewFits
    <3> QED
      BY <1>5, <1>10, <2>4, <3>3 DEF q
  <2>5. CASE q.label # 0 /\ q.first = 0
    <3>1. /\ fresh \in TabPage /\ fresh.label = q.label /\ fresh.own = page.own \cup {q.label}
          /\ fresh.seen = page.seen \cup {q.got} /\ fresh.base = page.base
          /\ fresh.turn = page.turn /\ fresh.mixed = mixed
      BY <1>3, <1>7, <2>1, <2>5 DEF TabPage
    <3> HIDE DEF fresh
    <3>2. ~mixed => Chained(page, q.label - 1)
      BY <1>1, <1>10, <2>2, <2>5 DEF TurnFits, q
    <3>3. ~mixed => Chained(fresh, q.label)
      BY <1>1, <1>3, <1>4, <3>1, <3>2 DEF Chained
    <3>4. ~fresh.mixed => Chained(fresh, fresh.label) /\ \A v \in fresh.seen : fresh.base <= v
      BY <1>2, <2>2, <3>1, <3>3 DEF TabFits
    <3>5. Shows(fresh)
      BY <1>6, <3>1, <3>4, KeptFits
    <3> QED
      BY <1>5, <1>10, <2>5, <3>5 DEF q
  <2> QED
    BY <2>3, <2>4, <2>5
<1>11. CASE q.kind = "save" /\ q.sized # 0 /\ q.load = page.load
  <2>1. q.sized = q.label + 1
    BY <1>1, <1>11 DEF BytesFit, q
  <2>2. /\ saved \in TabPage /\ saved.label = q.sized /\ saved.own = page.own \cup {q.sized}
        /\ saved.seen = page.seen /\ saved.base = page.base
        /\ saved.turn = page.turn /\ saved.mixed = mixed
    BY <1>3, <1>7, <1>11 DEF TabPage
  <2> HIDE DEF saved
  <2>3. ~mixed => Chained(page, q.label)
    BY <1>1, <1>6, <1>11 DEF TurnFits, q
  <2>4. ~mixed => Chained(saved, q.sized)
    BY <1>1, <1>3, <1>4, <2>1, <2>2, <2>3 DEF Chained
  <2>5. ~saved.mixed => Chained(saved, saved.label) /\ \A v \in saved.seen : saved.base <= v
    BY <1>2, <1>6, <2>2, <2>4 DEF TabFits
  <2>6. Shows(saved)
    BY <1>6, <2>2, <2>5, KeptFits
  <2> QED
    BY <1>5, <1>11, <2>6 DEF q
<1>12. CASE PageAfter(q) = page
  BY <1>2, <1>12, RequestIs DEF q
<1> QED
  BY <1>5, <1>8, <1>9, <1>10, <1>11, <1>12

LEMMA DeliverFits ==
    ASSUME ReadInv, NEW r \in Readers, Deliver(r) PROVE ReadInv'
<1> DEFINE q == reading[r]
<1>1. /\ q.pc = "send" /\ q.kind # "reload" /\ UNCHANGED subject /\ page' = PageAfter(q)
      /\ reading' = [reading EXCEPT ![r] = NoRequest]
      /\ temps' = IF q.kind = "office" THEN [temps EXCEPT !.there = @ \ {q.no}] ELSE temps
  BY DEF Deliver
<1>2. /\ reading \in [Readers -> ReadRequest] /\ subject \in Subject
      /\ temps \in Temps /\ AllFit(reading, subject, page) /\ SubjectFits(subject) /\ DirectoriesGo
  BY DEF ReadInv, ReadTypeOK
<1>3. /\ page' \in TabPage /\ TabFits(page', subject)
      /\ \A t \in Readers : reading[t].pc # "idle" => TurnFits(reading[t], page')
  BY <1>1, PageAfterFits
<1>4. /\ reading' \in [Readers -> ReadRequest] /\ reading'[r] = NoRequest
      /\ \A t \in Readers : t # r => reading'[t] = reading[t]
  BY <1>1, <1>2, NoRequestIs
<1> HIDE DEF q
<1>5. temps' \in Temps /\ temps'.abandoned = temps.abandoned
      /\ temps'.there = IF q.kind = "office" THEN temps.there \ {q.no} ELSE temps.there
  BY <1>1, <1>2 DEF Temps
<1>6. ReadTypeOK' /\ SubjectFits(subject)'
  BY <1>1, <1>2, <1>3, <1>4, <1>5 DEF ReadTypeOK, SubjectFits
<1>7. AllFit(reading', subject, page')
  <2> SUFFICES ASSUME NEW t \in Readers PROVE ReadFits(reading'[t], subject, page')
    BY DEF AllFit
  <2>1. CASE t = r
    BY <1>4, <2>1, NoRequestIs
  <2>2. CASE t # r
    BY <1>2, <1>3, <1>4, <2>2 DEF AllFit, ReadFits
  <2> QED
    BY <2>1, <2>2
<1>8. DirectoriesGo'
  <2> SUFFICES ASSUME NEW n \in temps'.there \ temps'.abandoned
               PROVE \E t \in Readers : HoldsTemp(reading'[t], n)
    BY DEF DirectoriesGo, HoldsTemp
  <2>1. n \in temps.there \ temps.abandoned /\ ~HoldsTemp(q, n)
    BY <1>5 DEF HoldsTemp
  <2>2. PICK t \in Readers : HoldsTemp(reading[t], n)
    BY <1>2, <2>1 DEF DirectoriesGo, HoldsTemp
  <2> QED
    BY <1>4, <2>1, <2>2 DEF q
<1>9. TabFits(page, subject)' /\ AllFit(reading, subject, page)'
  BY <1>1, <1>3, <1>7
<1> QED
  BY <1>6, <1>8, <1>9 DEF ReadInv

-----------------------------------------------------------------------------
(* What readers are given.                                                 *)

LEMMA ReadingStart == ASSUME ReadInit PROVE ReadInv
<1>1. subject \in Subject /\ SubjectFits(subject) /\ Versions \subseteq Nat \ {0}
  BY ScenesFit, ReadConstants DEF ReadInit, SubjectFits, Versions
<1>2. reading \in [Readers -> ReadRequest] /\ \A r \in Readers : reading[r] = NoRequest
  BY NoRequestIs DEF ReadInit
<1>3. page \in TabPage /\ temps \in Temps
  BY <1>1 DEF ReadInit, TabPage, Temps, Passes, Subject
<1>4. /\ page.label = 0 /\ page.seen = {} /\ page.base = 0 /\ temps.there = {}
      /\ subject.version \in Versions
  BY <1>1 DEF ReadInit, Subject
<1>5. TabFits(page, subject)
  <2>1. 0 <= subject.version
    BY <1>4, ReadConstants DEF Versions
  <2>2. \A v \in Versions : ~(v <= 0)
    BY DEF Versions
  <2> QED
    BY <1>4, <2>1, <2>2 DEF TabFits, Chained
<1>6. AllFit(reading, subject, page)
  BY <1>2, NoRequestIs DEF AllFit
<1>7. DirectoriesGo
  BY <1>4 DEF DirectoriesGo
<1> QED
  BY <1>1, <1>2, <1>3, <1>5, <1>6, <1>7 DEF ReadInv, ReadTypeOK

LEMMA ReadingSame == ASSUME ReadInv, UNCHANGED readVars PROVE ReadInv'
<1>1. UNCHANGED subject /\ UNCHANGED reading /\ UNCHANGED page /\ UNCHANGED temps
  BY DEF readVars
<1>2. ReadTypeOK' /\ SubjectFits(subject)' /\ TabFits(page, subject)'
  BY <1>1 DEF ReadInv, ReadTypeOK, SubjectFits, TabFits, Chained
<1>3. AllFit(reading, subject, page)'
  <2>1. AllFit(reading', subject', page')
    BY <1>1 DEF ReadInv
  <2> QED
    BY <2>1
<1>4. DirectoriesGo'
  BY <1>1 DEF ReadInv, DirectoriesGo
<1> QED
  BY <1>2, <1>3, <1>4 DEF ReadInv

LEMMA ReadingStep == ASSUME ReadInv, ReadNext PROVE ReadInv'
BY SubjectChangesFit, PassCheckFits, EndsFit, ReadVersionFits, StatObjectFits, OpenObjectFits,
   ConversionFits, PlanFits, MarkFileFits, SaveThroughFits, CompletesFits, DeliverFits,
   LeaveReadFits, AskFits DEF ReadNext

LEMMA ReadingPromises == ASSUME ReadInv PROVE ReadTypeOK /\ ReadsAreSound
<1>1. ASSUME NEW r \in Readers, reading[r].pc = "send"
      PROVE Needs(reading[r].kind) \subseteq reading[r].held
  BY <1>1, RequestIs, NothingToCheck DEF RightsFit
<1>2. ASSUME NEW r \in Readers, reading[r].pc = "send", reading[r].got # 0
      PROVE LET q == reading[r]
            IN /\ IF q.asked # 0 THEN q.got = q.asked ELSE q.got \in q.since .. subject.version
               /\ q.sized = q.got =>
                    /\ SentBytes(q.header, Sizes[q.sized], Sizes[q.got]) = AskedBytes(q.header, Sizes[q.got])
                    /\ AnnouncedBytes(q.header, Sizes[q.sized]) = AskedBytes(q.header, Sizes[q.got])
  <2> DEFINE q == reading[r]
  <2>1. /\ q \in ReadRequest /\ BytesFit(q, subject) /\ q.since \in Nat \ {0}
        /\ subject.version \in Versions /\ Sizes \in [Versions -> Nat] /\ Versions \subseteq Nat \ {0}
    BY <1>2, RequestIs
  <2>2. /\ q.got \in Versions /\ q.header \in RangeHeaders \cup {WholeFile}
    BY <1>2, <2>1 DEF ReadRequest
  <2>3. Sizes[q.got] \in Nat /\ q.got \in Nat /\ subject.version \in Nat
    BY <2>1, <2>2
  <2> HIDE DEF q
  <2>4. IF q.asked # 0 THEN q.got = q.asked ELSE q.got \in q.since .. subject.version
    BY <1>2, <2>1, <2>3 DEF BytesFit, q
  <2>5. q.sized = q.got /\ q.header # WholeFile => Satisfiable(q.header, Sizes[q.got])
    BY <1>2, <2>1 DEF BytesFit, q
  <2>6. q.sized = q.got =>
          /\ SentBytes(q.header, Sizes[q.sized], Sizes[q.got]) = AskedBytes(q.header, Sizes[q.got])
          /\ AnnouncedBytes(q.header, Sizes[q.sized]) = AskedBytes(q.header, Sizes[q.got])
    BY <2>2, <2>3, <2>5, RangesAreExact
  <2> QED
    BY <2>4, <2>6 DEF q
<1>3. LabelVouches
  <2> SUFFICES ASSUME ~page.mixed, page.label = subject.version, NEW v \in page.seen,
                      NEW w \in v + 1 .. page.label
               PROVE w \in page.own
    BY DEF LabelVouches
  <2>1. /\ page.label \in Nat /\ v \in Nat /\ page.base \in Nat /\ subject.version \in Versions
        /\ TabFits(page, subject) /\ MaxVersion \in Nat
    BY ReadConstants DEF ReadInv, ReadTypeOK, TabPage, Subject, Versions
  <2>2. page.base < w /\ w <= page.label /\ w \in Versions
    BY <2>1 DEF TabFits, Versions
  <2> QED
    BY <2>1, <2>2 DEF TabFits, Chained
<1> QED
  BY <1>1, <1>2, <1>3 DEF ReadInv, ReadsAreSound, ServedWasAllowed, BytesAreAsked

\* Requests, the file they read, the tab and the conversions' directories keep their
\* types.
THEOREM ReadingTypesHold == ReadSpec => []ReadTypeOK
<1>1. ReadInv /\ [ReadNext]_readVars => ReadInv'
  BY ReadingStep, ReadingSame
<1> QED
  BY <1>1, ReadingStart, ReadingPromises, PTL DEF ReadSpec

\* For any number of requests, any file and whatever happens to it between two awaits:
\* no answer rests on rights withdrawn before its request came, bytes are those asked
\* for and of a version current since, a label that still is the current one stands
\* for all that is shown with it, and no directory of a conversion stays but those
\* whose reader left before (DrivePreviewService, FileReadService, PreviewService).
THEOREM ReadersGetWhatIsTheirs == ReadSpec => []ReadsAreSound
<1>1. ReadInv /\ [ReadNext]_readVars => ReadInv'
  BY ReadingStep, ReadingSame
<1> QED
  BY <1>1, ReadingStart, ReadingPromises, PTL DEF ReadSpec

-----------------------------------------------------------------------------
(* The upload queue: who sends what, and what the panel says of it.        *)

Sends(w) == sender[w].pc # "off"

\* A worker sends a file of the run, which the panel shows as being uploaded.
SendersFit ==
    \A w \in Senders : Sends(w) =>
      /\ batch.active /\ sender[w].file \in batch.started /\ sender[w].file \in Picked
      /\ queue[sender[w].file].status = "uploading"
      /\ sender[w].pc = "answered" /\ sender[w].result = "ok" => KeyOfSender(w) \in received.there
SendersApart ==
    \A w, v \in Senders : Sends(w) /\ Sends(v) /\ sender[w].file = sender[v].file => w = v

ItemsFit ==
    \A u \in Picked :
      /\ queue[u].status = "uploading" => \E w \in Senders : Sends(w) /\ sender[w].file = u
      /\ queue[u].status = "queued" => batch.active /\ u \in batch.pending \ batch.started
      /\ queue[u].status = "success" => KeyOfFile(u) \in received.there

BatchFits ==
    /\ batch.active => \E w \in Senders : Sends(w)
    /\ batch.refused => batch.started = batch.stopped

QueueInv ==
    /\ QueueTypeOK /\ SendersFit /\ SendersApart /\ ItemsFit /\ BatchFits
    /\ received.adrift \subseteq received.unknown /\ UnreportedWereLost

LEMMA FirstOfFiles ==
    ASSUME NEW T \in SUBSET Nat, T # {} PROVE \E i \in T : \A j \in T : i <= j
<1> DEFINE R == {s \in Nat \X Nat : s[1] < s[2]}
<1>1. IsWellFoundedOn(R, Nat)
  BY NatLessThanWellFounded DEF OpToRel
<1>2. \A i, j \in Nat : <<j, i>> \in R <=> j < i
  OBVIOUS
<1> HIDE DEF R
<1>3. T \subseteq Nat
  OBVIOUS
<1>4. \E i \in T : \A j \in T : ~ (<<j, i>> \in R)
  BY <1>1, <1>3, WFMin, Zenon
<1>5. PICK i \in T : \A j \in T : ~ (<<j, i>> \in R)
  BY <1>4
<1>6. ASSUME NEW j \in T PROVE i <= j
  <2>1. i \in Nat /\ j \in Nat
    BY <1>3
  <2>2. ~(j < i)
    BY <1>2, <1>5, <2>1
  <2> QED
    BY <2>1, <2>2
<1> QED
  BY <1>6


-----------------------------------------------------------------------------
(* One upload ends.                                                        *)

LEMMA NextIs ==
    ASSUME QueueTypeOK, NEW refused \in BOOLEAN
    PROVE /\ NextUpload(refused) \subseteq batch.pending \ batch.started
          /\ NextUpload(refused) \subseteq Picked
          /\ \A u, v \in NextUpload(refused) : u = v
          /\ refused => NextUpload(refused) = {}
          /\ ~refused /\ NextUpload(refused) = {} => batch.pending \subseteq batch.started
<1> DEFINE left == batch.pending \ batch.started
           next == NextUpload(refused)
<1>1. left \subseteq Picked /\ left \subseteq Nat
  BY QueueConstants DEF QueueTypeOK, Batch
<1>2. next = IF refused THEN {} ELSE {u \in left : \A v \in left : u <= v}
  BY DEF NextUpload
<1> HIDE DEF left, next
<1>3. \A u, v \in next : u = v
  <2> SUFFICES ASSUME NEW u \in next, NEW v \in next PROVE u = v
    OBVIOUS
  <2>1. u \in Nat /\ v \in Nat /\ u <= v /\ v <= u
    BY <1>1, <1>2
  <2> QED
    BY <2>1
<1>4. ~refused /\ left # {} => next # {}
  BY <1>1, <1>2, FirstOfFiles
<1>5. next \subseteq left /\ (refused => next = {})
  BY <1>2
<1> QED
  BY <1>1, <1>3, <1>4, <1>5 DEF left, next

LEMMA RequestIsSent ==
    ASSUME QueueTypeOK, NEW u \in Picked, NEW again \in BOOLEAN
    PROVE /\ UploadRequest(u, again) \in Sender
          /\ UploadRequest(u, again).pc = "sent" /\ UploadRequest(u, again).file = u
<1>1. PICK fresh \in BOOLEAN : fresh = pass.fresh
  BY DEF QueueTypeOK, Pass
<1>2. UploadRequest(u, again) = [pc |-> "sent", file |-> u, again |-> again, fresh |-> fresh, result |-> "none"]
  BY <1>1 DEF UploadRequest
<1> QED
  BY <1>2 DEF Sender

LEMMA SettleFits ==
    ASSUME QueueInv, NEW w \in Senders, Sends(w), NEW outcome \in {"success", "failed"},
           NEW refusal \in BOOLEAN, SettleItem(w, outcome, refusal),
           received' \in Received, received.there \subseteq received'.there,
           outcome = "success" => KeyOfSender(w) \in received'.there
    PROVE /\ queue' \in [Picked -> QueueItem] /\ batch' \in Batch /\ sender' \in [Senders -> Sender]
          /\ SendersFit' /\ SendersApart' /\ ItemsFit' /\ BatchFits'
          /\ \A u \in Picked : queue'[u].try = queue[u].try
          /\ \A v \in Senders : v # w => sender'[v] = sender[v]
<1> DEFINE refused == batch.refused \/ refusal
           next == NextUpload(refused)
           last == next = {} /\ \A v \in Senders \ {w} : sender[v].pc = "off"
           left == batch.pending \ batch.started
           mine == sender[w].file
           taken == IF next = {} THEN Off ELSE UploadRequest(CHOOSE u \in next : TRUE, FALSE)
<1>1. /\ queue \in [Picked -> QueueItem] /\ batch \in Batch /\ sender \in [Senders -> Sender]
      /\ pass \in Pass
  BY DEF QueueInv, QueueTypeOK
<1>2. /\ batch.active \in BOOLEAN /\ batch.refused \in BOOLEAN /\ refused \in BOOLEAN
      /\ batch.pending \subseteq Picked /\ batch.started \subseteq Picked
      /\ batch.stopped \subseteq Picked
  BY <1>1 DEF Batch
<1>3. /\ next \subseteq left /\ next \subseteq Picked /\ (\A u, v \in next : u = v)
      /\ refused => next = {}
      /\ ~refused /\ next = {} => left = {}
  BY <1>2, NextIs DEF QueueInv
<1>4. /\ queue' = [u \in Picked |->
           IF u = mine THEN [queue[u] EXCEPT !.status = outcome]
           ELSE IF u \in next THEN [queue[u] EXCEPT !.status = "uploading"]
           ELSE IF last /\ refused /\ u \in left THEN [queue[u] EXCEPT !.status = "failed"]
           ELSE queue[u]]
      /\ sender' = [sender EXCEPT ![w] = taken]
      /\ batch' = [batch EXCEPT !.active = ~last, !.started = batch.started \cup next, !.refused = refused,
                     !.stopped = IF refusal /\ ~batch.refused THEN batch.started ELSE batch.stopped]
  BY DEF SettleItem
<1>5. /\ batch.active /\ mine \in batch.started /\ mine \in Picked
      /\ queue[mine].status = "uploading"
  BY DEF QueueInv, SendersFit
<1> HIDE DEF refused, next, left
<1>6. /\ taken \in Sender
      /\ next = {} => taken.pc = "off"
      /\ next # {} => taken.pc = "sent" /\ taken.file \in next
  <2>1. CASE next = {}
    BY <2>1 DEF Off, Sender
  <2>2. CASE next # {}
    <3>1. PICK u \in next : u = CHOOSE v \in next : TRUE
      BY <2>2
    <3>2. taken = UploadRequest(u, FALSE)
      BY <2>2, <3>1
    <3>3. UploadRequest(u, FALSE) \in Sender /\ UploadRequest(u, FALSE).pc = "sent"
          /\ UploadRequest(u, FALSE).file = u
      BY <1>1, <1>3, RequestIsSent DEF QueueInv
    <3> QED
      BY <2>2, <3>2, <3>3
  <2> QED
    BY <2>1, <2>2
<1> HIDE DEF taken
<1>7. /\ sender' \in [Senders -> Sender] /\ sender'[w] = taken
      /\ \A v \in Senders : v # w => sender'[v] = sender[v]
  BY <1>1, <1>4, <1>6
<1>8. /\ batch' \in Batch /\ batch'.active = ~last /\ batch'.pending = batch.pending
      /\ batch'.started = batch.started \cup next /\ batch'.refused = refused
      /\ batch'.stopped = IF refusal /\ ~batch.refused THEN batch.started ELSE batch.stopped
  <2>1. PICK active \in BOOLEAN : active = ~last
    OBVIOUS
  <2>2. batch.started \cup next \subseteq Picked
    BY <1>2, <1>3
  <2>3. PICK stopped \in SUBSET Picked :
          stopped = IF refusal /\ ~batch.refused THEN batch.started ELSE batch.stopped
    BY <1>2
  <2>4. batch' = [batch EXCEPT !.active = active, !.started = batch.started \cup next,
                    !.refused = refused, !.stopped = stopped]
    BY <1>4, <2>1, <2>3
  <2>5. /\ batch' \in Batch /\ batch'.active = active /\ batch'.pending = batch.pending
        /\ batch'.started = batch.started \cup next /\ batch'.refused = refused
        /\ batch'.stopped = stopped
    BY <1>1, <1>2, <2>2, <2>4 DEF Batch
  <2> QED
    BY <2>1, <2>3, <2>5
<1>9. ASSUME NEW u \in Picked
      PROVE /\ queue'[u] \in QueueItem /\ queue'[u].try = queue[u].try
            /\ queue'[u].status = IF u = mine THEN outcome ELSE IF u \in next THEN "uploading"
                                  ELSE IF last /\ refused /\ u \in left THEN "failed"
                                  ELSE queue[u].status
  <2>1. PICK status \in {"none", "queued", "uploading", "success", "failed"} :
          status = IF u = mine THEN outcome ELSE IF u \in next THEN "uploading"
                   ELSE IF last /\ refused /\ u \in left THEN "failed" ELSE queue[u].status
    BY <1>1 DEF QueueItem
  <2>2. queue[u] \in QueueItem
    BY <1>1
  <2>3. [queue[u] EXCEPT !.status = queue[u].status] = queue[u]
    BY <2>2 DEF QueueItem
  <2>4. queue'[u] = [queue[u] EXCEPT !.status = status]
    BY <1>4, <2>1, <2>3
  <2> QED
    BY <2>1, <2>2, <2>4 DEF QueueItem
<1>10. queue' \in [Picked -> QueueItem]
  BY <1>4, <1>9
<1> HIDE DEF mine
<1>11. ASSUME NEW v \in Senders, v # w, Sends(v)
       PROVE /\ sender[v].file # mine /\ sender[v].file \in batch.started
             /\ sender[v].file \in Picked /\ sender[v].file \notin next /\ sender[v].file \notin left
             /\ queue[sender[v].file].status = "uploading"
  <2>1. sender[v].file # mine
    BY <1>11 DEF QueueInv, SendersApart, mine
  <2>2. /\ sender[v].file \in batch.started /\ sender[v].file \in Picked
        /\ queue[sender[v].file].status = "uploading"
    BY <1>11 DEF QueueInv, SendersFit
  <2> QED
    BY <1>3, <2>1, <2>2 DEF left
<1>12. SendersFit'
  <2> SUFFICES ASSUME NEW v \in Senders, Sends(v)'
               PROVE /\ batch'.active /\ sender'[v].file \in batch'.started
                     /\ sender'[v].file \in Picked /\ queue'[sender'[v].file].status = "uploading"
                     /\ sender'[v].pc = "answered" /\ sender'[v].result = "ok" =>
                          <<sender'[v].file, queue'[sender'[v].file].try>> \in received'.there
    BY DEF SendersFit, KeyOfSender, KeyOfFile
  <2>1. CASE v = w
    <3>1. next # {} /\ sender'[v].file \in next /\ sender'[v].pc = "sent"
      BY <1>6, <1>7, <2>1 DEF Sends
    <3>2. sender'[v].file # mine
      BY <1>3, <1>5, <3>1 DEF left
    <3> QED
      BY <1>3, <1>8, <1>9, <3>1, <3>2
  <2>2. CASE v # w
    <3>1. Sends(v) /\ sender'[v] = sender[v]
      BY <1>7, <2>2 DEF Sends
    <3>2. queue'[sender[v].file].status = "uploading" /\ queue'[sender[v].file].try = queue[sender[v].file].try
      BY <1>9, <1>11, <2>2, <3>1
    <3>3. batch'.active
      BY <1>8, <2>2, <3>1 DEF Sends
    <3>4. sender[v].pc = "answered" /\ sender[v].result = "ok" => KeyOfSender(v) \in received.there
      BY <3>1 DEF QueueInv, SendersFit
    <3> QED
      BY <1>8, <1>11, <2>2, <3>1, <3>2, <3>3, <3>4 DEF KeyOfSender, KeyOfFile
  <2> QED
    BY <2>1, <2>2
<1>13. SendersApart'
  <2>1. \A v \in Senders : v # w /\ Sends(v) => sender[v].file \notin next
    BY <1>11
  <2>2. \A v \in Senders : v # w => (sender'[v] = sender[v])
    BY <1>7
  <2>3. sender'[w].pc # "off" => sender'[w].file \in next
    BY <1>6, <1>7
  <2> QED
    BY <2>1, <2>2, <2>3 DEF QueueInv, SendersApart, Sends
<1>14. ItemsFit'
  <2> SUFFICES ASSUME NEW u \in Picked
               PROVE /\ queue'[u].status = "uploading" =>
                           \E v \in Senders : sender'[v].pc # "off" /\ sender'[v].file = u
                     /\ queue'[u].status = "queued" =>
                           batch'.active /\ u \in batch'.pending \ batch'.started
                     /\ queue'[u].status = "success" => <<u, queue'[u].try>> \in received'.there
    BY DEF ItemsFit, Sends, KeyOfFile
  <2>1. /\ queue[u].status = "uploading" => \E v \in Senders : Sends(v) /\ sender[v].file = u
        /\ queue[u].status = "queued" => u \in left
        /\ queue[u].status = "success" => <<u, queue[u].try>> \in received.there
    BY DEF QueueInv, ItemsFit, KeyOfFile, left
  <2>2. CASE u = mine
    BY <1>9, <2>2 DEF KeyOfSender, KeyOfFile, mine
  <2>3. CASE u # mine /\ u \in next
    <3>1. sender'[w].pc # "off" /\ sender'[w].file = u
      BY <1>3, <1>6, <1>7, <2>3
    <3> QED
      BY <1>9, <2>3, <3>1
  <2>4. CASE u # mine /\ u \notin next /\ last /\ refused /\ u \in left
    BY <1>9, <2>4
  <2>5. CASE u # mine /\ u \notin next /\ ~(last /\ refused /\ u \in left)
    <3>1. queue'[u].status = queue[u].status /\ queue'[u].try = queue[u].try
      BY <1>9, <2>5
    <3>2. queue[u].status = "uploading" => \E v \in Senders : sender'[v].pc # "off" /\ sender'[v].file = u
      BY <1>7, <2>1, <2>5 DEF Sends, mine
    <3>3. ASSUME queue[u].status = "queued" PROVE ~last /\ u \in batch'.pending \ batch'.started
      <4>1. u \in left
        BY <2>1, <3>3
      <4>2. ~last
        BY <1>3, <2>5, <4>1
      <4> QED
        BY <1>8, <2>5, <4>1, <4>2 DEF left
    <3> QED
      BY <1>8, <2>1, <3>1, <3>2, <3>3
  <2> QED
    BY <2>2, <2>3, <2>4, <2>5
<1>15. BatchFits'
  <2>1. batch'.active => \E v \in Senders : sender'[v].pc # "off"
    <3>1. CASE next # {}
      BY <1>6, <1>7, <3>1
    <3>2. CASE next = {}
      BY <1>7, <1>8, <3>2
    <3> QED
      BY <3>1, <3>2
  <2>2. batch'.refused => batch'.started = batch'.stopped
    <3>1. batch.refused => batch.started = batch.stopped
      BY DEF QueueInv, BatchFits
    <3> QED
      BY <1>2, <1>3, <1>8, <3>1 DEF refused
  <2> QED
    BY <2>1, <2>2 DEF BatchFits, Sends
<1> QED
  BY <1>7, <1>8, <1>9, <1>10, <1>12, <1>13, <1>14, <1>15

-----------------------------------------------------------------------------
(* The other steps.                                                        *)

\* What does not begin or end a request keeps the panel as it is.
LEMMA NothingEnds ==
    ASSUME QueueInv, UNCHANGED <<queue, batch>>, sender' \in [Senders -> Sender], pass' \in Pass,
           received' \in Received,
           received.there \subseteq received'.there, received'.adrift \subseteq received'.unknown,
           \A w \in Senders :
             /\ sender'[w].pc = "off" <=> sender[w].pc = "off"
             /\ sender'[w].file = sender[w].file
             /\ sender'[w].pc = "answered" /\ sender'[w].result = "ok" =>
                  KeyOfSender(w) \in received'.there,
           \A k \in received'.there :
             \/ k \in received'.reported \cup received'.unknown \cup received'.leftover
             \/ \E w \in Senders : /\ sender'[w].pc = "answered" /\ sender'[w].result = "ok"
                                   /\ KeyOfSender(w) = k
    PROVE QueueInv'
<1>1. QueueTypeOK'
  BY DEF QueueInv, QueueTypeOK
<1>2. \A w \in Senders : (Sends(w)' <=> Sends(w)) /\ KeyOfSender(w)' = KeyOfSender(w)
  BY DEF Sends, KeyOfSender, KeyOfFile
<1>3. SendersFit' /\ SendersApart'
  BY <1>2 DEF QueueInv, SendersFit, SendersApart
<1>4. ItemsFit'
  BY <1>2 DEF QueueInv, ItemsFit, KeyOfFile
<1>5. BatchFits'
  BY <1>2 DEF QueueInv, BatchFits
<1>6. UnreportedWereLost'
  BY <1>2 DEF UnreportedWereLost
<1> QED
  BY <1>1, <1>3, <1>4, <1>5, <1>6 DEF QueueInv

\* While nobody sends, nothing is unreported.
LEMMA NobodySends ==
    ASSUME QueueInv, ~batch.active
    PROVE /\ \A w \in Senders : sender[w].pc = "off"
          /\ received.there \subseteq received.reported \cup received.unknown \cup received.leftover
          /\ \A u \in Picked : queue[u].status \notin {"uploading", "queued"}
<1>1. \A w \in Senders : sender[w].pc = "off"
  BY DEF QueueInv, SendersFit, Sends
<1>2. received.there \subseteq received.reported \cup received.unknown \cup received.leftover
  BY <1>1 DEF QueueInv, UnreportedWereLost
<1>3. \A u \in Picked : queue[u].status \notin {"uploading", "queued"}
  BY <1>1 DEF QueueInv, ItemsFit, Sends
<1> QED
  BY <1>1, <1>2, <1>3

LEMMA StartFits ==
    ASSUME QueueInv, NEW files \in SUBSET Picked, NEW rest \in [Picked -> QueueItem],
           \A u \in Picked : /\ rest[u].try = queue[u].try
                            /\ rest[u].status \in {"none", queue[u].status},
           StartRun(files, rest)
    PROVE QueueInv'
<1>1. PICK first \in [Senders -> files \cup {NoUpload}] :
        LET started == {first[w] : w \in Senders} \ {NoUpload}
        IN /\ Takes(first, files)
           /\ sender' = [w \in Senders |->
                IF first[w] = NoUpload THEN Off ELSE UploadRequest(first[w], FALSE)]
           /\ batch' = [active |-> TRUE, files |-> batch.files, pending |-> files,
                        started |-> started, refused |-> FALSE, rounds |-> batch.rounds - 1,
                        stopped |-> {}]
           /\ queue' = [u \in Picked |->
                IF u \in files
                THEN [status |-> IF u \in started THEN "uploading" ELSE "queued",
                      try |-> queue[u].try + 1]
                ELSE rest[u]]
  BY DEF StartRun
<1> DEFINE started == {first[w] : w \in Senders} \ {NoUpload}
<1>2. /\ ~batch.active /\ batch.rounds > 0 /\ files # {} /\ UNCHANGED <<pass, received>>
  BY DEF StartRun
<1>3. /\ batch \in Batch /\ queue \in [Picked -> QueueItem] /\ QueueTypeOK
  BY DEF QueueInv, QueueTypeOK
<1>4. /\ started \subseteq files /\ NoUpload \notin started
      /\ \A w, v \in Senders : first[w] = first[v] /\ first[w] # NoUpload => w = v
      /\ (\E w \in Senders : first[w] = NoUpload) => started = files
  BY <1>1 DEF Takes
<1>5. \E w \in Senders : first[w] # NoUpload
  BY <1>1, <1>2, <1>4, QueueConstants
<1>6. ASSUME NEW w \in Senders
      PROVE /\ sender'[w] \in Sender
            /\ first[w] = NoUpload => sender'[w].pc = "off"
            /\ first[w] # NoUpload => /\ sender'[w].pc = "sent" /\ sender'[w].file = first[w]
                                     /\ first[w] \in started
  <2>1. CASE first[w] = NoUpload
    BY <1>1, <2>1 DEF Off, Sender
  <2>2. CASE first[w] # NoUpload
    <3>1. sender'[w] = UploadRequest(first[w], FALSE)
      BY <1>1, <2>2
    <3>2. first[w] \in Picked
      BY <2>2
    <3> QED
      BY <1>3, <2>2, <3>1, <3>2, RequestIsSent
  <2> QED
    BY <2>1, <2>2
<1>7. /\ batch' \in Batch /\ batch'.active /\ batch'.pending = files /\ batch'.started = started
      /\ batch'.refused = FALSE
  <2>1. batch.rounds - 1 \in Nat /\ batch.files \subseteq Picked /\ started \subseteq Picked
    BY <1>2, <1>3, <1>4 DEF Batch
  <2>2. batch' = [active |-> TRUE, files |-> batch.files, pending |-> files, started |-> started,
                  refused |-> FALSE, rounds |-> batch.rounds - 1, stopped |-> {}]
    BY <1>1
  <2> HIDE DEF started
  <2> QED
    BY <2>1, <2>2 DEF Batch
<1>8. ASSUME NEW u \in Picked
      PROVE /\ queue'[u] \in QueueItem
            /\ u \in files => queue'[u].status = IF u \in started THEN "uploading" ELSE "queued"
            /\ u \notin files => queue'[u] = rest[u]
  <2>1. queue[u].try \in Nat
    BY <1>3 DEF QueueItem
  <2>2. queue'[u] = IF u \in files THEN [status |-> IF u \in started THEN "uploading" ELSE "queued",
                                        try |-> queue[u].try + 1]
                    ELSE rest[u]
    BY <1>1
  <2> HIDE DEF started
  <2> QED
    BY <2>1, <2>2 DEF QueueItem
<1>9. QueueTypeOK'
  <2>1. sender' \in [Senders -> Sender] /\ queue' \in [Picked -> QueueItem]
    BY <1>1, <1>6, <1>8
  <2> QED
    BY <1>2, <1>7, <2>1 DEF QueueInv, QueueTypeOK
<1> HIDE DEF started
<1>10. SendersFit'
  BY <1>4, <1>6, <1>7, <1>8 DEF SendersFit, Sends
<1>11. SendersApart'
  BY <1>4, <1>6 DEF SendersApart, Sends
<1>12. ItemsFit'
  <2> SUFFICES ASSUME NEW u \in Picked
               PROVE /\ queue'[u].status = "uploading" =>
                           \E v \in Senders : sender'[v].pc # "off" /\ sender'[v].file = u
                     /\ queue'[u].status = "queued" =>
                           batch'.active /\ u \in batch'.pending \ batch'.started
                     /\ queue'[u].status = "success" => <<u, queue'[u].try>> \in received'.there
    BY DEF ItemsFit, Sends, KeyOfFile
  <2>1. CASE u \in started
    <3>1. PICK w \in Senders : first[w] = u /\ first[w] # NoUpload
      BY <1>4, <2>1 DEF started
    <3> QED
      BY <1>4, <1>6, <1>8, <2>1, <3>1
  <2>2. CASE u \in files /\ u \notin started
    BY <1>7, <1>8, <2>2
  <2>3. CASE u \notin files
    <3>1. queue'[u] = rest[u]
      BY <1>8, <2>3
    <3>2. queue[u].status \notin {"uploading", "queued"}
      BY <1>2, NobodySends
    <3>3. queue[u].status = "success" => <<u, queue[u].try>> \in received.there
      BY DEF QueueInv, ItemsFit, KeyOfFile
    <3> QED
      BY <1>2, <3>1, <3>2, <3>3
  <2> QED
    BY <1>4, <2>1, <2>2, <2>3
<1>13. BatchFits'
  BY <1>5, <1>6, <1>7 DEF BatchFits, Sends
<1>14. received'.adrift \subseteq received'.unknown /\ UnreportedWereLost'
  BY <1>2, NobodySends DEF QueueInv, UnreportedWereLost
<1> QED
  BY <1>9, <1>10, <1>11, <1>12, <1>13, <1>14 DEF QueueInv

\* Items taken from the panel: their keys stay used.
LEMMA ClearedAre ==
    ASSUME QueueTypeOK, NEW rest, rest = [u \in Picked |-> [NoItem EXCEPT !.try = queue[u].try]]
    PROVE /\ rest \in [Picked -> QueueItem]
          /\ \A u \in Picked : rest[u].try = queue[u].try /\ rest[u].status = "none"
<1>1. ASSUME NEW u \in Picked
      PROVE rest[u] \in QueueItem /\ rest[u].try = queue[u].try /\ rest[u].status = "none"
  <2>1. queue[u].try \in Nat
    BY DEF QueueTypeOK, QueueItem
  <2>2. rest[u] = [NoItem EXCEPT !.try = queue[u].try]
    OBVIOUS
  <2> QED
    BY <2>1, <2>2 DEF NoItem, QueueItem
<1> QED
  BY <1>1

LEMMA PanelFits ==
    ASSUME QueueInv, NEW files \in SUBSET Picked,
           BeginUpload(files) \/ RetryUploads(files) \/ ClearQueue
    PROVE QueueInv'
<1>1. QueueTypeOK /\ queue \in [Picked -> QueueItem]
  BY DEF QueueInv, QueueTypeOK
<1>2. PICK rest : rest = [u \in Picked |-> [NoItem EXCEPT !.try = queue[u].try]]
  OBVIOUS
<1>3. /\ rest \in [Picked -> QueueItem]
      /\ \A u \in Picked : rest[u].try = queue[u].try /\ rest[u].status = "none"
  BY <1>1, <1>2, ClearedAre
<1>4. CASE BeginUpload(files)
  BY <1>2, <1>3, <1>4, StartFits DEF BeginUpload
<1>5. CASE RetryUploads(files)
  BY <1>1, <1>5, StartFits DEF RetryUploads
<1>6. CASE ClearQueue
  <2>1. ~batch.active /\ queue' = rest /\ UNCHANGED <<batch, sender, pass, received>>
    BY <1>2, <1>6 DEF ClearQueue
  <2>2. \A w \in Senders : sender[w].pc = "off"
    BY <2>1, NobodySends
  <2>3. QueueTypeOK'
    BY <1>1, <1>3, <2>1 DEF QueueTypeOK
  <2>4. SendersFit' /\ SendersApart' /\ BatchFits'
    BY <2>1, <2>2 DEF QueueInv, SendersFit, SendersApart, BatchFits, Sends
  <2>5. ItemsFit'
    BY <1>3, <2>1 DEF ItemsFit
  <2>6. UnreportedWereLost'
    BY <2>1, NobodySends DEF UnreportedWereLost
  <2> QED
    BY <2>1, <2>3, <2>4, <2>5, <2>6 DEF QueueInv
<1> QED
  BY <1>4, <1>5, <1>6

LEMMA KeysOfSenders ==
    ASSUME QueueInv, NEW w \in Senders, Sends(w) PROVE KeyOfSender(w) \in UploadKeys
<1>1. sender[w].file \in Picked /\ queue \in [Picked -> QueueItem]
  BY DEF QueueInv, SendersFit, QueueTypeOK
<1>2. queue[sender[w].file].try \in Nat
  BY <1>1 DEF QueueItem
<1> QED
  BY <1>1, <1>2 DEF KeyOfSender, KeyOfFile, UploadKeys

LEMMA AnswersFit ==
    ASSUME QueueInv, NEW w \in Senders, NEW result \in {"ok", "error", "expired", "refused"},
           ServerAnswers(w, result)
    PROVE QueueInv'
<1>1. /\ sender[w].pc = "sent" /\ UNCHANGED <<queue, batch, pass>>
      /\ sender' = [sender EXCEPT ![w].pc = "answered", ![w].result = result]
  BY DEF ServerAnswers
<1>2. PICK left \in SUBSET {KeyOfSender(w)} :
        /\ result = "ok" => left # {}
        /\ result \in {"expired", "refused"} => left = {}
        /\ received' = [received EXCEPT !.there = @ \cup left,
                         !.leftover = IF result = "error" THEN @ \cup left ELSE @]
  BY DEF ServerAnswers, Leaves
<1>3. sender \in [Senders -> Sender] /\ received \in Received /\ pass \in Pass
  BY DEF QueueInv, QueueTypeOK
<1>4. KeyOfSender(w) \in UploadKeys
  BY <1>1, KeysOfSenders DEF Sends
<1>5. /\ received' \in Received /\ received'.adrift = received.adrift
      /\ received'.reported = received.reported /\ received'.unknown = received.unknown
      /\ received'.there = received.there \cup left /\ received.leftover \subseteq received'.leftover
      /\ result = "error" => left \subseteq received'.leftover
  BY <1>2, <1>3, <1>4 DEF Received
<1>6. /\ sender' \in [Senders -> Sender] /\ sender'[w].pc = "answered" /\ sender'[w].result = result
      /\ sender'[w].file = sender[w].file /\ \A v \in Senders : v # w => sender'[v] = sender[v]
  BY <1>1, <1>3 DEF Sender
<1>7. \A v \in Senders : sender[v].pc = "answered" /\ sender[v].result = "ok" =>
        KeyOfSender(v) \in received.there
  BY DEF QueueInv, SendersFit, Sends
<1>8. \A k \in received.there :
        \/ k \in received.reported \cup received.unknown \cup received.leftover
        \/ \E v \in Senders : /\ sender[v].pc = "answered" /\ sender[v].result = "ok"
                              /\ KeyOfSender(v) = k
  BY DEF QueueInv, UnreportedWereLost
<1>9. \A k \in received'.there :
        \/ k \in received'.reported \cup received'.unknown \cup received'.leftover
        \/ \E v \in Senders : /\ sender'[v].pc = "answered" /\ sender'[v].result = "ok"
                              /\ KeyOfSender(v) = k
  <2> SUFFICES ASSUME NEW k \in received'.there,
                      k \notin received'.reported \cup received'.unknown \cup received'.leftover
               PROVE \E v \in Senders : /\ sender'[v].pc = "answered" /\ sender'[v].result = "ok"
                                        /\ KeyOfSender(v) = k
    OBVIOUS
  <2>1. CASE k \in received.there
    <3>1. PICK v \in Senders : sender[v].pc = "answered" /\ sender[v].result = "ok" /\ KeyOfSender(v) = k
      BY <1>5, <1>8, <2>1
    <3> QED
      BY <1>1, <1>6, <3>1
  <2>2. CASE k \notin received.there
    <3>1. k \in left /\ k = KeyOfSender(w) /\ result = "ok"
      BY <1>2, <1>5, <2>2
    <3> QED
      BY <1>6, <3>1
  <2> QED
    BY <2>1, <2>2
<1>10. \A v \in Senders :
        /\ sender'[v].pc = "off" <=> sender[v].pc = "off"
        /\ sender'[v].file = sender[v].file
        /\ sender'[v].pc = "answered" /\ sender'[v].result = "ok" => KeyOfSender(v) \in received'.there
  <2>1. result = "ok" => KeyOfSender(w) \in received'.there
    BY <1>2, <1>5
  <2> QED
    BY <1>1, <1>5, <1>6, <1>7, <2>1
<1> QED
  BY <1>1, <1>3, <1>5, <1>6, <1>9, <1>10, NothingEnds DEF QueueInv

\* Steps after which the server has what it had, and no answer is forgotten.
LEMMA NothingComes ==
    ASSUME QueueInv, UNCHANGED <<queue, batch, received>>, sender' \in [Senders -> Sender], pass' \in Pass,
           \A w \in Senders :
             /\ sender'[w].pc = "off" <=> sender[w].pc = "off"
             /\ sender'[w].file = sender[w].file
             /\ sender'[w].pc = "answered" /\ sender'[w].result = "ok" <=>
                  sender[w].pc = "answered" /\ sender[w].result = "ok"
    PROVE QueueInv'
<1>1. \A w \in Senders : sender[w].pc = "answered" /\ sender[w].result = "ok" =>
        KeyOfSender(w) \in received.there
  BY DEF QueueInv, SendersFit, Sends
<1>2. \A k \in received.there :
        \/ k \in received.reported \cup received.unknown \cup received.leftover
        \/ \E w \in Senders : /\ sender[w].pc = "answered" /\ sender[w].result = "ok"
                              /\ KeyOfSender(w) = k
  BY DEF QueueInv, UnreportedWereLost
<1>3. received \in Received /\ received.adrift \subseteq received.unknown
  BY DEF QueueInv, QueueTypeOK
<1> QED
  BY <1>1, <1>2, <1>3, NothingEnds

LEMMA TokensFit ==
    ASSUME QueueInv,
           \/ \E w \in Senders : AwaitRefresh(w)
           \/ TokenExpires
           \/ \E result \in {"ok", "refused", "error"} : RefreshEnds(result)
           \/ \E w \in Senders : GoOnAfterRefresh(w) /\ sender[w].result = "ok"
    PROVE QueueInv'
<1>1. /\ sender \in [Senders -> Sender] /\ pass \in Pass /\ QueueTypeOK
  BY DEF QueueInv, QueueTypeOK
<1>2. ASSUME NEW w \in Senders, AwaitRefresh(w) PROVE QueueInv'
  <2>1. /\ sender[w].pc = "answered" /\ sender[w].result = "expired" /\ UNCHANGED <<queue, batch, received>>
        /\ sender' = [sender EXCEPT ![w].pc = "waiting"] /\ pass' = [pass EXCEPT !.refreshing = TRUE]
    BY <1>2 DEF AwaitRefresh
  <2>2. /\ sender' \in [Senders -> Sender] /\ sender'[w].pc = "waiting"
        /\ sender'[w].file = sender[w].file /\ \A v \in Senders : v # w => sender'[v] = sender[v]
    BY <1>1, <2>1 DEF Sender
  <2>3. pass' \in Pass
    BY <1>1, <2>1 DEF Pass
  <2>4. \A v \in Senders :
             /\ sender'[v].pc = "off" <=> sender[v].pc = "off"
             /\ sender'[v].file = sender[v].file
             /\ sender'[v].pc = "answered" /\ sender'[v].result = "ok" <=>
                  sender[v].pc = "answered" /\ sender[v].result = "ok"
    BY <2>1, <2>2
  <2> QED
    BY <2>1, <2>2, <2>3, <2>4, NothingComes
<1>3. CASE TokenExpires
  <2>1. /\ UNCHANGED <<queue, batch, received>>
        /\ pass' = [pass EXCEPT !.fresh = FALSE, !.expiries = pass.expiries + 1]
        /\ sender' = [w \in Senders |-> [sender[w] EXCEPT !.fresh = FALSE]]
    BY <1>3 DEF TokenExpires
  <2>2. pass' \in Pass
    <3>1. pass.expiries + 1 \in Nat
      BY <1>1 DEF Pass
    <3> QED
      BY <1>1, <2>1, <3>1 DEF Pass
  <2>3. ASSUME NEW w \in Senders
        PROVE /\ sender'[w] \in Sender /\ sender'[w].pc = sender[w].pc
              /\ sender'[w].file = sender[w].file /\ sender'[w].result = sender[w].result
    <3>1. sender'[w] = [sender[w] EXCEPT !.fresh = FALSE] /\ sender[w] \in Sender
      BY <1>1, <2>1
    <3> QED
      BY <3>1 DEF Sender
  <2>4. sender' \in [Senders -> Sender]
    BY <2>1, <2>3
  <2> QED
    BY <2>1, <2>2, <2>3, <2>4, NothingComes
<1>4. ASSUME NEW result \in {"ok", "refused", "error"}, RefreshEnds(result) PROVE QueueInv'
  <2>1. /\ UNCHANGED <<queue, batch, received>>
        /\ pass' = [pass EXCEPT !.refreshing = FALSE, !.fresh = pass.fresh \/ result = "ok"]
        /\ sender' = [w \in Senders |->
             IF sender[w].pc = "waiting" THEN [sender[w] EXCEPT !.pc = "told", !.result = result]
             ELSE sender[w]]
    BY <1>4 DEF RefreshEnds
  <2>2. pass' \in Pass
    <3>1. PICK fresh \in BOOLEAN : fresh = (pass.fresh \/ result = "ok")
      OBVIOUS
    <3>2. pass' = [pass EXCEPT !.refreshing = FALSE, !.fresh = fresh]
      BY <2>1, <3>1
    <3> QED
      BY <1>1, <3>2 DEF Pass
  <2>3. ASSUME NEW w \in Senders
        PROVE /\ sender'[w] \in Sender /\ sender'[w].file = sender[w].file
              /\ sender[w].pc = "waiting" => sender'[w].pc = "told"
              /\ sender[w].pc # "waiting" => sender'[w] = sender[w]
    <3>1. sender[w] \in Sender
      BY <1>1
    <3>2. sender'[w] = IF sender[w].pc = "waiting" THEN [sender[w] EXCEPT !.pc = "told", !.result = result]
                       ELSE sender[w]
      BY <2>1
    <3> QED
      BY <3>1, <3>2 DEF Sender
  <2>4. sender' \in [Senders -> Sender]
    BY <2>1, <2>3
  <2>5. \A w \in Senders :
             /\ sender'[w].pc = "off" <=> sender[w].pc = "off"
             /\ sender'[w].file = sender[w].file
             /\ sender'[w].pc = "answered" /\ sender'[w].result = "ok" <=>
                  sender[w].pc = "answered" /\ sender[w].result = "ok"
    BY <2>3
  <2> QED
    BY <2>1, <2>2, <2>4, <2>5, NothingComes
<1>5. ASSUME NEW w \in Senders, GoOnAfterRefresh(w), sender[w].result = "ok" PROVE QueueInv'
  <2>1. /\ sender[w].pc = "told" /\ UNCHANGED <<queue, batch, pass, received>>
        /\ sender' = [sender EXCEPT ![w] = UploadRequest(sender[w].file, TRUE)]
    BY <1>5 DEF GoOnAfterRefresh
  <2>2. sender[w].file \in Picked
    BY <2>1 DEF QueueInv, SendersFit, Sends
  <2>3. PICK resent : resent = UploadRequest(sender[w].file, TRUE)
    OBVIOUS
  <2>4. resent \in Sender /\ resent.pc = "sent" /\ resent.file = sender[w].file
    BY <1>1, <2>2, <2>3, RequestIsSent
  <2>5. /\ sender' \in [Senders -> Sender] /\ sender'[w] = resent
        /\ \A v \in Senders : v # w => sender'[v] = sender[v]
    BY <1>1, <2>1, <2>3, <2>4
  <2>6. \A v \in Senders :
             /\ sender'[v].pc = "off" <=> sender[v].pc = "off"
             /\ sender'[v].file = sender[v].file
             /\ sender'[v].pc = "answered" /\ sender'[v].result = "ok" <=>
                  sender[v].pc = "answered" /\ sender[v].result = "ok"
    BY <2>1, <2>4, <2>5
  <2> QED
    BY <1>1, <2>1, <2>5, <2>6, NothingComes
<1> QED
  BY <1>2, <1>3, <1>4, <1>5

LEMMA LateFits ==
    ASSUME QueueInv, NEW k \in received.adrift, LateArrival(k) PROVE QueueInv'
<1>1. /\ UNCHANGED <<queue, batch, sender, pass>>
      /\ received' = [received EXCEPT !.adrift = @ \ {k}, !.there = @ \cup {k}]
  BY DEF LateArrival
<1>2. received \in Received /\ received.adrift \subseteq received.unknown /\ QueueTypeOK
  BY DEF QueueInv, QueueTypeOK
<1>3. k \in UploadKeys /\ k \in received.unknown
  BY <1>2 DEF Received
<1>4. /\ received' \in Received /\ received'.there = received.there \cup {k}
      /\ received'.adrift = received.adrift \ {k} /\ received'.reported = received.reported
      /\ received'.unknown = received.unknown /\ received'.leftover = received.leftover
  BY <1>1, <1>2, <1>3 DEF Received
<1>5. \A w \in Senders : sender[w].pc = "answered" /\ sender[w].result = "ok" =>
        KeyOfSender(w) \in received.there
  BY DEF QueueInv, SendersFit, Sends
<1>6. \A n \in received'.there :
        \/ n \in received'.reported \cup received'.unknown \cup received'.leftover
        \/ \E w \in Senders : /\ sender'[w].pc = "answered" /\ sender'[w].result = "ok"
                              /\ KeyOfSender(w) = n
  BY <1>1, <1>3, <1>4 DEF QueueInv, UnreportedWereLost
<1>7. received'.adrift \subseteq received'.unknown
  BY <1>2, <1>4
<1>8. sender' \in [Senders -> Sender] /\ pass' \in Pass /\ UNCHANGED <<queue, batch>>
  BY <1>1, <1>2 DEF QueueTypeOK
<1>9. \A w \in Senders :
        /\ sender'[w].pc = "off" <=> sender[w].pc = "off"
        /\ sender'[w].file = sender[w].file
        /\ sender'[w].pc = "answered" /\ sender'[w].result = "ok" => KeyOfSender(w) \in received'.there
  BY <1>1, <1>4, <1>5
<1> QED
  BY <1>4, <1>6, <1>7, <1>8, <1>9, NothingEnds

\* An upload ends, its answer heard, lost or never asked for.
LEMMA EndingFits ==
    ASSUME QueueInv, NEW w \in Senders, Sends(w), NEW outcome \in {"success", "failed"},
           NEW refusal \in BOOLEAN, SettleItem(w, outcome, refusal), UNCHANGED pass,
           received' \in Received, received'.there = received.there,
           received'.adrift \subseteq received'.unknown,
           received.reported \subseteq received'.reported, received.unknown \subseteq received'.unknown,
           received.leftover \subseteq received'.leftover,
           outcome = "success" => KeyOfSender(w) \in received.there,
           sender[w].pc = "answered" /\ sender[w].result = "ok" =>
             KeyOfSender(w) \in received'.reported \cup received'.unknown \cup received'.leftover
    PROVE QueueInv'
<1>1. /\ queue' \in [Picked -> QueueItem] /\ batch' \in Batch /\ sender' \in [Senders -> Sender]
      /\ SendersFit' /\ SendersApart' /\ ItemsFit' /\ BatchFits'
      /\ \A u \in Picked : queue'[u].try = queue[u].try
      /\ \A v \in Senders : v # w => sender'[v] = sender[v]
  BY SettleFits
<1>2. QueueTypeOK'
  BY <1>1 DEF QueueInv, QueueTypeOK
<1>3. UnreportedWereLost'
  <2> SUFFICES ASSUME NEW k \in received.there,
                      k \notin received'.reported \cup received'.unknown \cup received'.leftover
               PROVE \E v \in Senders : /\ sender'[v].pc = "answered" /\ sender'[v].result = "ok"
                                        /\ KeyOfSender(v)' = k
    BY DEF UnreportedWereLost
  <2>1. PICK v \in Senders : sender[v].pc = "answered" /\ sender[v].result = "ok" /\ KeyOfSender(v) = k
    BY DEF QueueInv, UnreportedWereLost
  <2>2. v # w /\ sender[v].file \in Picked
    BY <2>1 DEF QueueInv, SendersFit, Sends
  <2>3. KeyOfSender(v)' = KeyOfSender(v)
    BY <1>1, <2>2 DEF KeyOfSender, KeyOfFile
  <2> QED
    BY <1>1, <2>1, <2>2, <2>3
<1> QED
  BY <1>1, <1>2, <1>3 DEF QueueInv

LEMMA UploadEndsFit ==
    ASSUME QueueInv, NEW w \in Senders,
           TakeUploadAnswer(w) \/ LoseUpload(w) \/ (GoOnAfterRefresh(w) /\ sender[w].result # "ok")
    PROVE QueueInv'
<1>1. received \in Received /\ received.adrift \subseteq received.unknown
  BY DEF QueueInv, QueueTypeOK
<1>2. CASE TakeUploadAnswer(w)
  <2>1. /\ sender[w].pc = "answered" /\ UNCHANGED pass
        /\ SettleItem(w, IF sender[w].result = "ok" THEN "success" ELSE "failed",
                      sender[w].result \in {"expired", "refused"})
        /\ received' = IF sender[w].result = "ok" THEN [received EXCEPT !.reported = @ \cup {KeyOfSender(w)}]
                       ELSE received
    BY <1>2 DEF TakeUploadAnswer
  <2>2. Sends(w) /\ KeyOfSender(w) \in UploadKeys
    BY <2>1, KeysOfSenders DEF Sends
  <2>3. /\ received' \in Received /\ received'.there = received.there /\ received'.adrift = received.adrift
        /\ received'.unknown = received.unknown /\ received.reported \subseteq received'.reported
        /\ received'.leftover = received.leftover
        /\ sender[w].result = "ok" => KeyOfSender(w) \in received'.reported
    BY <1>1, <2>1, <2>2 DEF Received
  <2>4. sender[w].result = "ok" => KeyOfSender(w) \in received.there
    BY <2>1, <2>2 DEF QueueInv, SendersFit
  <2>5. PICK outcome \in {"success", "failed"} : outcome = IF sender[w].result = "ok" THEN "success" ELSE "failed"
    OBVIOUS
  <2>6. \E refusal \in BOOLEAN : refusal = (sender[w].result \in {"expired", "refused"})
    <3>1. CASE sender[w].result \in {"expired", "refused"}
      <4>1. (sender[w].result \in {"expired", "refused"}) = TRUE
        BY <3>1
      <4> QED
        BY <4>1
    <3>2. CASE ~(sender[w].result \in {"expired", "refused"})
      <4>1. (sender[w].result \in {"expired", "refused"}) = FALSE
        BY <3>2
      <4> QED
        BY <4>1
    <3> QED
      BY <3>1, <3>2
  <2>7. PICK refusal \in BOOLEAN : refusal = (sender[w].result \in {"expired", "refused"})
    BY <2>6
  <2>8. SettleItem(w, outcome, refusal)
    BY <2>1, <2>5, <2>7
  <2> QED
    BY <1>1, <2>1, <2>2, <2>3, <2>4, <2>5, <2>8, EndingFits
<1>3. CASE LoseUpload(w)
  <2>1. /\ sender[w].pc \in {"sent", "answered"} /\ SettleItem(w, "failed", FALSE) /\ UNCHANGED pass
    BY <1>3 DEF LoseUpload
  <2>2. PICK adrift \in {{}, {KeyOfSender(w)}} :
          received' = [received EXCEPT !.unknown = @ \cup {KeyOfSender(w)}, !.adrift = @ \cup adrift]
    BY <1>3 DEF LoseUpload
  <2>3. Sends(w) /\ KeyOfSender(w) \in UploadKeys
    BY <2>1, KeysOfSenders DEF Sends
  <2>4. /\ received' \in Received /\ received'.there = received.there
        /\ received'.unknown = received.unknown \cup {KeyOfSender(w)}
        /\ received'.adrift = received.adrift \cup adrift /\ received'.reported = received.reported
        /\ received'.leftover = received.leftover
    BY <1>1, <2>2, <2>3 DEF Received
  <2>5. received'.adrift \subseteq received'.unknown
    BY <1>1, <2>2, <2>4
  <2> QED
    BY <2>1, <2>3, <2>4, <2>5, EndingFits
<1>4. CASE GoOnAfterRefresh(w) /\ sender[w].result # "ok"
  <2>1. /\ sender[w].pc = "told" /\ SettleItem(w, "failed", sender[w].result = "refused")
        /\ UNCHANGED <<pass, received>>
    BY <1>4 DEF GoOnAfterRefresh
  <2>2. PICK refusal \in BOOLEAN : refusal = (sender[w].result = "refused")
    OBVIOUS
  <2>3. SettleItem(w, "failed", refusal) /\ Sends(w)
    BY <2>1, <2>2 DEF Sends
  <2> QED
    BY <1>1, <2>1, <2>3, EndingFits
<1> QED
  BY <1>2, <1>3, <1>4

-----------------------------------------------------------------------------
LEMMA QueueStart == ASSUME QueueInit PROVE QueueInv
<1>1. /\ queue = [u \in Picked |-> NoItem] /\ sender = [w \in Senders |-> Off]
      /\ pass = [fresh |-> TRUE, refreshing |-> FALSE, expiries |-> 0]
      /\ received = [there |-> {}, adrift |-> {}, reported |-> {}, unknown |-> {}, leftover |-> {}]
  BY DEF QueueInit
<1>2. PICK selection \in Selections : batch = Untouched(selection)
  BY DEF QueueInit
<1>3. selection \in [files : SUBSET Picked, rounds : Nat]
  BY QueueConstants
<1>4. batch \in Batch /\ ~batch.active /\ ~batch.refused
  BY <1>2, <1>3 DEF Untouched, Batch
<1>5. QueueTypeOK
  BY <1>1, <1>4 DEF QueueTypeOK, NoItem, QueueItem, Off, Sender, Pass, Received
<1>6. SendersFit /\ SendersApart
  BY <1>1 DEF SendersFit, SendersApart, Sends, Off
<1>7. ItemsFit
  BY <1>1 DEF ItemsFit, NoItem
<1>8. BatchFits /\ received.adrift \subseteq received.unknown /\ UnreportedWereLost
  BY <1>1, <1>4 DEF BatchFits, UnreportedWereLost
<1> QED
  BY <1>5, <1>6, <1>7, <1>8 DEF QueueInv

LEMMA QueueSame == ASSUME QueueInv, UNCHANGED queueVars PROVE QueueInv'
<1>1. UNCHANGED queue /\ UNCHANGED batch /\ UNCHANGED sender /\ UNCHANGED pass /\ UNCHANGED received
  BY DEF queueVars
<1>2. QueueTypeOK' /\ SendersApart' /\ BatchFits'
  BY <1>1 DEF QueueInv, QueueTypeOK, SendersApart, BatchFits, Sends
<1>3. SendersFit' /\ ItemsFit' /\ UnreportedWereLost'
  BY <1>1 DEF QueueInv, SendersFit, ItemsFit, UnreportedWereLost, Sends, KeyOfSender, KeyOfFile
<1> QED
  BY <1>1, <1>2, <1>3 DEF QueueInv

LEMMA QueueStep == ASSUME QueueInv, QueueNext PROVE QueueInv'
BY PanelFits, AnswersFit, TokensFit, LateFits, UploadEndsFit DEF QueueNext

LEMMA QueuePromises == ASSUME QueueInv PROVE QueueTypeOK /\ QueueIsHonest
<1>1. queue \in [Picked -> QueueItem] /\ QueueTypeOK
  BY DEF QueueInv, QueueTypeOK
<1>2. SuccessIsStored /\ RefusalStops
  BY DEF QueueInv, ItemsFit, BatchFits, SuccessIsStored, RefusalStops
<1>3. RunsSettle
  <2>1. ~batch.active => \A u \in Picked : queue[u].status \in {"none", "success", "failed"}
    <3>1. \A u \in Picked : queue[u].status \in {"none", "queued", "uploading", "success", "failed"}
      BY <1>1 DEF QueueItem
    <3> QED
      BY <3>1, NobodySends
  <2> QED
    BY <2>1 DEF QueueInv, ItemsFit, BatchFits, RunsSettle, Sends
<1> QED
  BY <1>1, <1>2, <1>3 DEF QueueInv, QueueIsHonest

\* The queue, its run, its workers and the tab's token keep their types
\* (upload-queue.ts, App.tsx, api.ts), and what a request refers to is a picked file.
THEOREM QueueTypesHold == QueueSpec => []QueueTypeOK
<1>1. QueueInv /\ [QueueNext]_queueVars => QueueInv'
  BY QueueStep, QueueSame
<1> QED
  BY <1>1, QueueStart, QueuePromises, PTL DEF QueueSpec

\* Whatever is lost, late, expired, refused or retried, with any number of files,
\* workers and runs: what the panel calls uploaded is with the server, what it calls
\* failed is there only if its answer was lost, a run leaves no file between, and a
\* refusal is the end of it (runUploadQueue, runUploadItems, uploadWithProgress).
THEOREM PanelIsHonest == QueueSpec => []QueueIsHonest
<1>1. QueueInv /\ [QueueNext]_queueVars => QueueInv'
  BY QueueStep, QueueSame
<1> QED
  BY <1>1, QueueStart, QueuePromises, PTL DEF QueueSpec

================================================================================
