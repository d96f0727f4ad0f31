------------------------------ MODULE UploadQueue ------------------------------
(***************************************************************************)
(* The queue in which a browser sends the files its user picked: the run   *)
(* of runUploadQueue with its workers, each of them waiting for one        *)
(* request of ApiClient.upload; the retries of the panel; the access token *)
(* of the tab, whose expiry a request meets as a 401; and what of all this *)
(* reaches the server.                                                     *)
(*                                                                         *)
(* Code between two awaits is one step.  A file is a number, its place in  *)
(* the selection; an idempotency key is a file and the number of the try.  *)
(***************************************************************************)
EXTENDS Naturals, FiniteSets

CONSTANTS Picked,      \* files that may be picked, by their order
          Senders,     \* workers of a run (3 in the code)
          NoUpload,    \* no file
          Selections,  \* files that may be picked, and the runs of a behaviour
          MaxExpiries  \* bound: expiries of the access token

ASSUME QueueConstants ==
  /\ Picked \subseteq Nat /\ NoUpload \notin Picked /\ Senders # {}
  /\ Selections \subseteq [files : SUBSET Picked, rounds : Nat] /\ MaxExpiries \in Nat

VARIABLES
  queue,     \* uploadQueue: the items of the panel
  batch,     \* the run of runUploadQueue
  sender,    \* its workers
  pass,      \* the access token of the tab
  received   \* what the server has, or may still be given

queueVars == <<queue, batch, sender, pass, received>>

QueueItem == [status : {"none", "queued", "uploading", "success", "failed"}, try : Nat]
UploadKeys == Picked \X Nat
\* rounds, the runs that are left.
\* History: stopped, what had been started when a request was refused.
Batch == [active : BOOLEAN, files : SUBSET Picked, pending : SUBSET Picked, started : SUBSET Picked,
          refused : BOOLEAN, rounds : Nat, stopped : SUBSET Picked]
\* A worker waits for an answer, has got it, waits for the refresh or knows how it ended.
Sender == [pc : {"off", "sent", "answered", "waiting", "told"}, file : Picked \cup {NoUpload},
           again : BOOLEAN, fresh : BOOLEAN,
           result : {"none", "ok", "error", "expired", "refused"}]
Pass == [fresh : BOOLEAN, refreshing : BOOLEAN, expiries : Nat]
\* there, the keys under which a node or an object in Drive is kept; adrift,
\* requests the browser has given up.
\* History: reported, uploads called a success; unknown, those whose answer was
\* lost; leftover, those of which the server kept something and said it failed.
Received == [there : SUBSET UploadKeys, adrift : SUBSET UploadKeys, reported : SUBSET UploadKeys,
             unknown : SUBSET UploadKeys, leftover : SUBSET UploadKeys]

QueueTypeOK ==
  /\ queue \in [Picked -> QueueItem]
  /\ batch \in Batch
  /\ sender \in [Senders -> Sender]
  /\ pass \in Pass
  /\ received \in Received

-----------------------------------------------------------------------------
NoItem == [status |-> "none", try |-> 0]
Off == [pc |-> "off", file |-> NoUpload, again |-> FALSE, fresh |-> FALSE, result |-> "none"]
KeyOfFile(u) == <<u, queue[u].try>>
KeyOfSender(w) == KeyOfFile(sender[w].file)

\* uploadWithProgress: the request carries the token the tab has now.
UploadRequest(u, again) ==
  [pc |-> "sent", file |-> u, again |-> again, fresh |-> pass.fresh, result |-> "none"]

\* Those who were told of a refresh go on before anything else happens.
NobodyTold == \A w \in Senders : sender[w].pc # "told"

-----------------------------------------------------------------------------
(* A run.                                                                  *)

\* Each worker takes the next file until there is none or one was refused.
Takes(first, files) ==
  LET started == {first[w] : w \in Senders} \ {NoUpload}
  IN /\ \A w, v \in Senders : first[w] = first[v] /\ first[w] # NoUpload => w = v
     /\ \A u \in started, v \in files \ started : u < v
     /\ (\E w \in Senders : first[w] = NoUpload) => started = files

\* runUploadItems, with rest for the items that do not take part.
StartRun(files, rest) ==
  /\ ~batch.active /\ batch.rounds > 0 /\ files # {} /\ files \subseteq batch.files
  /\ \E first \in [Senders -> files \cup {NoUpload}] :
       LET started == {first[w] : w \in Senders} \ {NoUpload}
       IN /\ Takes(first, files)
          /\ sender' = [w \in Senders |->
               IF first[w] = NoUpload THEN Off ELSE UploadRequest(first[w], FALSE)]
          /\ batch' = [active |-> TRUE, files |-> batch.files, pending |-> files,
                       started |-> started, refused |-> FALSE, rounds |-> batch.rounds - 1,
                       stopped |-> {}]
          /\ queue' = [u \in Picked |->
               IF u \in files
               THEN [status |-> IF u \in started THEN "uploading" ELSE "queued",
                     try |-> queue[u].try + 1]
               ELSE rest[u]]
  /\ UNCHANGED <<pass, received>>

\* beginUpload: the selection takes the place of whatever the panel showed.
BeginUpload(files) ==
  StartRun(files, [u \in Picked |-> [NoItem EXCEPT !.try = queue[u].try]])

\* retryFailedUploads, retryUploadItem: a new key for each.
FailedItems == {u \in Picked : queue[u].status = "failed"}
RetryUploads(files) == files \in {FailedItems} \cup {{u} : u \in FailedItems} /\ StartRun(files, queue)

\* onClear
ClearQueue ==
  /\ ~batch.active /\ \E u \in Picked : queue[u].status # "none"
  /\ queue' = [u \in Picked |-> [NoItem EXCEPT !.try = queue[u].try]]
  /\ UNCHANGED <<batch, sender, pass, received>>

\* The first of the files nobody has started.
NextUpload(refused) ==
  IF refused THEN {}
  ELSE {u \in batch.pending \ batch.started : \A v \in batch.pending \ batch.started : u <= v}

\* Mutant: nobody tells the panel of the files a refusal has left.
LeaveQueued(w, outcome, refusal) ==
  LET refused == batch.refused \/ refusal
      next == NextUpload(refused)
      last == next = {} /\ \A v \in Senders \ {w} : sender[v].pc = "off"
  IN /\ queue' = [u \in Picked |->
          IF u = sender[w].file THEN [queue[u] EXCEPT !.status = outcome]
          ELSE IF u \in next THEN [queue[u] EXCEPT !.status = "uploading"]
          ELSE queue[u]]
     /\ sender' = [sender EXCEPT ![w] =
          IF next = {} THEN Off ELSE UploadRequest(CHOOSE u \in next : TRUE, FALSE)]
     /\ batch' = [batch EXCEPT !.active = ~last, !.started = @ \cup next, !.refused = refused,
                    !.stopped = IF refusal /\ ~batch.refused THEN batch.started ELSE @]

\* An upload has ended; its worker takes the next file, or was the last one.
SettleItem(w, outcome, refusal) ==
  LET refused == batch.refused \/ refusal
      next == NextUpload(refused)
      last == next = {} /\ \A v \in Senders \ {w} : sender[v].pc = "off"
      left == batch.pending \ batch.started
  IN /\ queue' = [u \in Picked |->
          IF u = sender[w].file THEN [queue[u] EXCEPT !.status = outcome]
          ELSE IF u \in next THEN [queue[u] EXCEPT !.status = "uploading"]
          ELSE IF last /\ refused /\ u \in left THEN [queue[u] EXCEPT !.status = "failed"]
          ELSE queue[u]]
     /\ sender' = [sender EXCEPT ![w] =
          IF next = {} THEN Off ELSE UploadRequest(CHOOSE u \in next : TRUE, FALSE)]
     /\ batch' = [batch EXCEPT !.active = ~last, !.started = @ \cup next, !.refused = refused,
                    !.stopped = IF refusal /\ ~batch.refused THEN batch.started ELSE @]

-----------------------------------------------------------------------------
(* A request of uploadWithProgress.                                        *)

\* What the server keeps of a request to which it answers so.  A failure may leave
\* the node, when the registration was committed and its answer lost (the server
\* then deletes the object of that node); or the object, when it could not be
\* deleted, or when the answer of Drive to the upload was lost.
Leaves(w, result) ==
  {left \in SUBSET {KeyOfSender(w)} :
     /\ result = "ok" => left # {}
     /\ result \in {"expired", "refused"} => left = {}}

\* What the server makes of it: a token that is too old, a user who may not, a
\* failure, or the file, once for each key.
ServerAnswers(w, result) ==
  /\ NobodyTold /\ sender[w].pc = "sent"
  /\ result \in IF sender[w].fresh THEN {"ok", "error", "refused"} ELSE {"expired"}
  /\ sender' = [sender EXCEPT ![w].pc = "answered", ![w].result = result]
  /\ \E left \in Leaves(w, result) :
       received' = [received EXCEPT !.there = @ \cup left,
                      !.leftover = IF result = "error" THEN @ \cup left ELSE @]
  /\ UNCHANGED <<queue, batch, pass>>

\* xhr.onload: the first 401 waits for a refresh, shared by all who need one.
AwaitRefresh(w) ==
  /\ NobodyTold /\ sender[w].pc = "answered" /\ sender[w].result = "expired" /\ ~sender[w].again
  /\ sender' = [sender EXCEPT ![w].pc = "waiting"]
  /\ pass' = [pass EXCEPT !.refreshing = TRUE]
  /\ UNCHANGED <<queue, batch, received>>

\* 401 the second time, and 403, refuse the whole queue.
TakeUploadAnswer(w) ==
  LET result == sender[w].result
  IN /\ NobodyTold /\ sender[w].pc = "answered" /\ (result = "expired" => sender[w].again)
     /\ SettleItem(w, IF result = "ok" THEN "success" ELSE "failed",
                   result \in {"expired", "refused"})
     /\ received' = IF result = "ok" THEN [received EXCEPT !.reported = @ \cup {KeyOfSender(w)}]
                    ELSE received
     /\ UNCHANGED pass

\* xhr.onerror: the request, or its answer, is lost; a request may arrive later.
LoseUpload(w) ==
  /\ NobodyTold /\ sender[w].pc \in {"sent", "answered"}
  /\ SettleItem(w, "failed", FALSE)
  /\ \E adrift \in IF sender[w].pc = "sent" /\ sender[w].fresh THEN {{}, {KeyOfSender(w)}} ELSE {{}} :
       received' = [received EXCEPT !.unknown = @ \cup {KeyOfSender(w)}, !.adrift = @ \cup adrift]
  /\ UNCHANGED pass

LateArrival(k) ==
  /\ NobodyTold /\ k \in received.adrift
  /\ received' = [received EXCEPT !.adrift = @ \ {k}, !.there = @ \cup {k}]
  /\ UNCHANGED <<queue, batch, sender, pass>>

-----------------------------------------------------------------------------
(* ApiClient.refresh.                                                      *)

TokenExpires ==
  /\ NobodyTold /\ pass.fresh /\ pass.expiries < MaxExpiries
  /\ pass' = [pass EXCEPT !.fresh = FALSE, !.expiries = @ + 1]
  /\ sender' = [w \in Senders |-> [sender[w] EXCEPT !.fresh = FALSE]]
  /\ UNCHANGED <<queue, batch, received>>

\* One answer for all who wait: a token, a refusal of the session, or nothing.
RefreshEnds(result) ==
  /\ pass.refreshing /\ result \in {"ok", "refused", "error"}
  /\ pass' = [pass EXCEPT !.refreshing = FALSE, !.fresh = @ \/ result = "ok"]
  /\ sender' = [w \in Senders |->
       IF sender[w].pc = "waiting" THEN [sender[w] EXCEPT !.pc = "told", !.result = result]
       ELSE sender[w]]
  /\ UNCHANGED <<queue, batch, received>>

\* The request again, with its key; or the error that the refresh ended with.
GoOnAfterRefresh(w) ==
  /\ sender[w].pc = "told"
  /\ IF sender[w].result = "ok"
     THEN /\ sender' = [sender EXCEPT ![w] = UploadRequest(sender[w].file, TRUE)]
          /\ UNCHANGED <<queue, batch>>
     ELSE SettleItem(w, "failed", sender[w].result = "refused")
  /\ UNCHANGED <<pass, received>>

-----------------------------------------------------------------------------
Untouched(selection) ==
  [active |-> FALSE, files |-> selection.files, pending |-> {}, started |-> {}, refused |-> FALSE,
   rounds |-> selection.rounds, stopped |-> {}]

QueueInit ==
  /\ queue = [u \in Picked |-> NoItem]
  /\ \E selection \in Selections :
       batch = Untouched(selection)
  /\ sender = [w \in Senders |-> Off]
  /\ pass = [fresh |-> TRUE, refreshing |-> FALSE, expiries |-> 0]
  /\ received = [there |-> {}, adrift |-> {}, reported |-> {}, unknown |-> {},
                 leftover |-> {}]

QueueNext ==
  \/ \E files \in SUBSET Picked : BeginUpload(files) \/ RetryUploads(files)
  \/ ClearQueue
  \/ \E w \in Senders : AwaitRefresh(w) \/ TakeUploadAnswer(w) \/ LoseUpload(w) \/ GoOnAfterRefresh(w)
       \/ \E result \in {"ok", "error", "expired", "refused"} : ServerAnswers(w, result)
  \/ \E k \in received.adrift : LateArrival(k)
  \/ TokenExpires
  \/ \E result \in {"ok", "refused", "error"} : RefreshEnds(result)

QueueSpec == QueueInit /\ [][QueueNext]_queueVars

-----------------------------------------------------------------------------
(* Properties.                                                             *)

\* What the panel calls uploaded is with the server.
SuccessIsStored == \A u \in Picked : queue[u].status = "success" => KeyOfFile(u) \in received.there

\* Something of a file is with the server although the panel calls its upload
\* failed only when the answer was lost on its way, or when the server itself lost
\* the answer of its database or of Drive, or could not clean up.  So only after
\* one of these can a retry, whose key is new, make two of it.
UnreportedWereLost ==
  \A k \in received.there \ (received.reported \cup received.unknown \cup received.leftover) :
    \E w \in Senders : sender[w].pc = "answered" /\ sender[w].result = "ok" /\ KeyOfSender(w) = k

\* A run has a worker for each file it is sending, goes on until none is left,
\* and leaves every file either uploaded or failed.
RunsSettle ==
  /\ \A u \in Picked : queue[u].status = "uploading" =>
       \E w \in Senders : sender[w].pc # "off" /\ sender[w].file = u
  /\ ~batch.active => \A u \in Picked : queue[u].status \in {"none", "success", "failed"}
  /\ batch.active => \E w \in Senders : sender[w].pc # "off"

\* After a refusal no other file is sent.
RefusalStops == batch.refused => batch.started = batch.stopped

\* The panel tells its user the truth about every file, whatever was lost,
\* expired, refused or retried, in any order of the answers.
QueueIsHonest == SuccessIsStored /\ UnreportedWereLost /\ RunsSettle /\ RefusalStops

=============================================================================
