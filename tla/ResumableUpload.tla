--------------------------- MODULE ResumableUpload ---------------------------
(***************************************************************************)
(* uploadBinaryFileAtPath of google-drive.provider.ts: a stream of unknown *)
(* length sent to a Drive resumable session in chunks, of which one is     *)
(* held back until it is known whether it is the last.                     *)
(*                                                                         *)
(* Drive may keep any prefix of a chunk; its answer, or the chunk itself,  *)
(* may be lost, and it may answer 5xx before or after it kept the bytes.   *)
(* The client then asks how much arrived and sends the rest.               *)
(***************************************************************************)
EXTENDS Naturals, Sequences

CONSTANTS Lengths,      \* lengths of the source, in units of bytes
          ChunkSize,    \* RESUMABLE_CHUNK_BYTES, 8 MiB in the code
          MaxNoProgress \* answers without progress that are borne (3 in the code)

ASSUME UploadConstants ==
  Lengths \subseteq Nat /\ ChunkSize \in Nat \ {0} /\ MaxNoProgress \in Nat

VARIABLES
  length,     \* the length of the source
  taken,      \* bytes of the source cut into chunks that were sent before this one
  offset,     \* the client's offset: where it believes the chunk starts
  cursor,     \* where the rest of the chunk starts
  noProgress, \* answers without progress for this chunk
  uploadPc,   \* "chunk", "send", "query", "final query", "aborting", "ended"
  uploadResult, \* "none", "ok" or "failed"
  session     \* Drive: the bytes kept, as positions of the source, and the state

uploadVars == <<length, taken, offset, cursor, noProgress, uploadPc, uploadResult, session>>

-----------------------------------------------------------------------------
(* The chunk held back, and whether it is the last.                        *)

Rest == length - taken
ChunkBytes == IF Rest < ChunkSize THEN Rest ELSE ChunkSize
IsLast == Rest <= ChunkSize
ChunkEnd == offset + ChunkBytes      \* one past the last byte, as the client counts

(* The bytes of the source a request carries: from cursor to the end.      *)
Carried(n) == [j \in 1..n |-> taken + (cursor - offset) + j]

Received == Len(session.bytes)

(* Drive keeps the first n bytes of a request that starts where the bytes  *)
(* it has end, and completes the file once the announced total is there.   *)
Keep(n) ==
  LET bytes == session.bytes \o Carried(n)
  IN [bytes |-> bytes,
      state |-> IF IsLast /\ Len(bytes) = ChunkEnd THEN "complete" ELSE "open"]

-----------------------------------------------------------------------------
(* The loop over the source: the next chunk, or the end.                   *)

StartChunk ==
  /\ uploadPc = "chunk"
  /\ uploadPc' = IF ChunkBytes = 0 THEN "final query" ELSE "send"
  /\ cursor' = offset /\ noProgress' = 0
  /\ UNCHANGED <<length, taken, offset, uploadResult, session>>

(* sendChunk has returned without a file.                                  *)
EndChunk ==
  /\ offset' = ChunkEnd
  /\ taken' = taken + ChunkBytes
  /\ uploadPc' = IF IsLast THEN "final query" ELSE "chunk"

Succeed == uploadPc' = "ended" /\ uploadResult' = "ok"
GiveUpUpload == uploadPc' = "aborting" /\ uploadResult' = "failed"

(* What an answer with an accepted offset does.                            *)
\* Mutants: a partial answer ends the chunk; no answer without progress counts.
TakeAnyOffset(accepted) ==
  /\ offset' = accepted /\ taken' = taken + ChunkBytes
  /\ uploadPc' = IF IsLast THEN "final query" ELSE "chunk"
  /\ UNCHANGED <<cursor, noProgress, uploadResult>>
NeverGiveUp(accepted) ==
  IF accepted = ChunkEnd THEN EndChunk /\ UNCHANGED <<cursor, noProgress, uploadResult>>
  ELSE /\ cursor' = accepted /\ uploadPc' = "send"
       /\ UNCHANGED <<taken, offset, noProgress, uploadResult>>
TakeOffset(accepted) ==
  LET wrong == accepted < cursor \/ accepted > ChunkEnd
      stuck == accepted = cursor /\ noProgress >= MaxNoProgress
  IN \/ /\ wrong \/ (accepted # ChunkEnd /\ stuck)
        /\ GiveUpUpload /\ UNCHANGED <<taken, offset, cursor, noProgress>>
     \/ /\ ~wrong /\ accepted = ChunkEnd
        /\ EndChunk /\ UNCHANGED <<cursor, noProgress, uploadResult>>
     \/ /\ ~wrong /\ accepted # ChunkEnd /\ ~stuck
        /\ cursor' = accepted
        /\ noProgress' = noProgress + (IF accepted = cursor THEN 1 ELSE 0)
        /\ uploadPc' = "send"
        /\ UNCHANGED <<taken, offset, uploadResult>>

(* A request is answered: 308 with what was kept, or the file itself.      *)
SendAnswered(n) ==
  /\ uploadPc = "send" /\ Received = cursor
  /\ session' = Keep(n)
  /\ IF session'.state = "complete"
     THEN Succeed /\ UNCHANGED <<taken, offset, cursor, noProgress>>
     ELSE TakeOffset(cursor + n)
  /\ UNCHANGED length

(* The request or its answer is lost, or the answer is 5xx.                *)
SendLost(n) ==
  /\ uploadPc = "send" /\ Received = cursor
  /\ session' = Keep(n)
  /\ uploadPc' = "query"
  /\ UNCHANGED <<length, taken, offset, cursor, noProgress, uploadResult>>

(* A request that does not start where Drive's bytes end is refused.       *)
SendRefused ==
  /\ uploadPc = "send" /\ Received # cursor
  /\ GiveUpUpload
  /\ UNCHANGED <<length, taken, offset, cursor, noProgress, session>>

(* queryUploadStatus *)
Query ==
  /\ uploadPc = "query"
  /\ IF session.state = "complete"
     THEN Succeed /\ UNCHANGED <<taken, offset, cursor, noProgress>>
     ELSE TakeOffset(Received)
  /\ UNCHANGED <<length, session>>

(* Without a file after the last chunk, a query that names no total: Drive *)
(* has the file, or the upload fails.                                      *)
FinalQuery ==
  /\ uploadPc = "final query"
  /\ IF session.state = "complete" THEN Succeed ELSE GiveUpUpload
  /\ UNCHANGED <<length, taken, offset, cursor, noProgress, session>>

(* A refusal, an expired session, a query that fails, or the caller's      *)
(* abort signal.                                                           *)
UploadError ==
  /\ uploadPc \in {"chunk", "send", "query", "final query"}
  /\ GiveUpUpload
  /\ UNCHANGED <<length, taken, offset, cursor, noProgress, session>>

(* abortResumableUpload is best effort, and leaves a complete file.        *)
Abort ==
  /\ uploadPc = "aborting"
  /\ uploadPc' = "ended"
  /\ session' \in {session, [session EXCEPT !.state = IF @ = "open" THEN "deleted" ELSE @]}
  /\ UNCHANGED <<length, taken, offset, cursor, noProgress, uploadResult>>

-----------------------------------------------------------------------------
UploadInit ==
  /\ length \in Lengths
  /\ taken = 0 /\ offset = 0 /\ cursor = 0 /\ noProgress = 0
  /\ uploadPc = "chunk" /\ uploadResult = "none"
  /\ session = [bytes |-> <<>>, state |-> "open"]

UploadStep ==
  \/ StartChunk \/ Query \/ SendRefused \/ FinalQuery \/ UploadError \/ Abort
  \/ \E n \in 0..(ChunkEnd - cursor) : SendAnswered(n) \/ SendLost(n)

UploadSpec == UploadInit /\ [][UploadStep]_uploadVars

(* fetch settles every request, so the client always takes its next step.  *)
FairUploadSpec == UploadSpec /\ WF_uploadVars(UploadStep)

-----------------------------------------------------------------------------
(* The state has its types, and the client's count of what it sent is that *)
(* of the source: sendChunk moves offset by whole chunks.                  *)
UploadTypeOK ==
  /\ length \in Lengths
  /\ taken \in 0..length /\ offset = taken
  /\ cursor \in 0..length /\ noProgress \in 0..MaxNoProgress
  /\ uploadResult \in {"none", "ok", "failed"}
  /\ session.state \in {"open", "complete", "deleted"}

(* What Drive keeps is a prefix of the source, every byte once and in      *)
(* order; a complete file is all of it, and only a complete file makes the *)
(* upload a success: whatever was lost, repeated or kept in part.          *)
FileIsSource ==
  /\ session.bytes = [j \in 1..Received |-> j]
  /\ session.state = "complete" => Received = length
  /\ uploadResult = "ok" => session.state = "complete"

(* Every upload ends, however many answers are lost: progress, or at most  *)
(* MaxNoProgress answers without it, for each chunk.                       *)
UploadEnds == <>(uploadPc = "ended")

=============================================================================
