------------------------- MODULE RevisionProcessing -------------------------
(***************************************************************************)
(* The search projection of provider-backed files.                          *)
(*                                                                          *)
(* A finalized mutation leaves an outbox event.  Worker processes turn an   *)
(* event into a TEXT task for the file's current revision, a published text *)
(* into an INDEX task, and an INDEX task into the file's SearchDocument.    *)
(* Tasks are leased: a lease may run out while its holder is still at work, *)
(* waiting for its turn in the batch or for the extractor, and the task is  *)
(* then claimed again.  A slot is one execution of processTask somewhere;   *)
(* its identity stands for the lease token, since it executes one claim at  *)
(* a time and a claim it dropped is never resumed.                          *)
(*                                                                          *)
(* A revision is its position in the file's history.  Texts are kept apart  *)
(* by revision only: a text cut at a limit is a text.                       *)
(***************************************************************************)
EXTENDS Integers, FiniteSets

CONSTANTS
    Files,          \* logical files
    Slots,          \* concurrent executions of processTask, over all workers
    NoSlot,         \* no execution (a null lease token)
    MaxAttempts,    \* FILE_PROCESSING_MAX_ATTEMPTS
    MaxRevision     \* bound: no mutation beyond this revision

ASSUME ConstantsAssumption ==
    /\ Slots # {} /\ NoSlot \notin Slots
    /\ MaxAttempts \in Nat \ {0}
    /\ MaxRevision \in Nat \ {0}

VARIABLES
    current,        \* File.revisionSequence; its FileRevision row exists
    place,          \* where the file's node is
    connected,      \* DriveFile.sourceStatus is not UNAVAILABLE
    extractable,    \* canExtract of the file's name and MIME type
    events,         \* pending FILE_CONTENT_CHANGED rows of each file
    tasks,          \* table FileProcessingTask
    texts,          \* table FileTextExtraction: revisions with a text
    indexed,        \* SearchDocument.indexedRevision, 0 without a row
    slots           \* the executions: program counter and claimed task

file == <<current, place, connected, extractable>>
vars == <<current, place, connected, extractable, events, tasks, texts,
          indexed, slots>>

---------------------------------------------------------------------------

Revisions == 1 .. MaxRevision

\* The unique key (fileId, targetRevision, type).
Task == [file : Files, rev : Revisions, type : {"TEXT", "INDEX"}]
Text(f, n) == [file |-> f, rev |-> n, type |-> "TEXT"]
Index(f, n) == [file |-> f, rev |-> n, type |-> "INDEX"]

\* STALE is COMPLETED with lastError STALE_REVISION.
TaskStatus == {"NONE", "PENDING", "PROCESSING", "COMPLETED", "STALE", "FAILED"}
Settled == {"COMPLETED", "STALE", "FAILED"}
Row == [status : TaskStatus, holder : Slots \cup {NoSlot}, expired : BOOLEAN,
        attempts : 0 .. MaxAttempts]
NoRow == [status |-> "NONE", holder |-> NoSlot, expired |-> FALSE, attempts |-> 0]
NewRow == [NoRow EXCEPT !.status = "PENDING"]

Stage == {"claimed", "extract", "publish", "load", "index", "complete",
          "stale", "retry", "giveUp"}
Free == [pc |-> "free"]
Execution == [pc : Stage, task : Task]

TypeOK ==
    /\ current \in [Files -> Revisions]
    /\ place \in [Files -> {"live", "trashed", "purged"}]
    /\ connected \in [Files -> BOOLEAN]
    /\ extractable \in [Files -> BOOLEAN]
    /\ events \in [Files -> Nat]
    /\ tasks \in [Task -> Row]
    /\ texts \in [Files -> SUBSET Revisions]
    /\ indexed \in [Files -> {0} \cup Revisions]
    /\ slots \in [Slots -> {Free} \cup Execution]

---------------------------------------------------------------------------
(* The files, as the rest of the system changes them *)

\* A save, restore or copy is finalized: revision, counter and event at once.
\* Finalization does not ask whether the file was trashed meanwhile.
Mutate(f) ==
    /\ place[f] # "purged"
    /\ current[f] < MaxRevision
    /\ current' = [current EXCEPT ![f] = @ + 1]
    /\ events' = [events EXCEPT ![f] = @ + 1]
    /\ UNCHANGED <<place, connected, extractable, tasks, texts, indexed, slots>>

Trash(f) ==
    /\ place[f] = "live"
    /\ place' = [place EXCEPT ![f] = "trashed"]
    /\ UNCHANGED <<current, connected, extractable, events, tasks, texts,
                   indexed, slots>>

RestoreFromTrash(f) ==
    /\ place[f] = "trashed"
    /\ place' = [place EXCEPT ![f] = "live"]
    /\ UNCHANGED <<current, connected, extractable, events, tasks, texts,
                   indexed, slots>>

\* Deleting the File row cascades to tasks, texts and search document.
Purge(f) ==
    /\ place[f] = "trashed"
    /\ place' = [place EXCEPT ![f] = "purged"]
    /\ tasks' = [t \in Task |-> IF t.file = f THEN NoRow ELSE tasks[t]]
    /\ texts' = [texts EXCEPT ![f] = {}]
    /\ indexed' = [indexed EXCEPT ![f] = 0]
    /\ UNCHANGED <<current, connected, extractable, events, slots>>

\* A synchronisation finds the Drive source gone, or back.
SourceChanges(f) ==
    /\ place[f] # "purged"
    /\ connected' = [connected EXCEPT ![f] = ~@]
    /\ UNCHANGED <<current, place, extractable, events, tasks, texts, indexed,
                   slots>>

---------------------------------------------------------------------------
(* Tasks *)

\* INSERT ... ON CONFLICT DO NOTHING.
WithTask(t) == IF tasks[t].status = "NONE" THEN [tasks EXCEPT ![t] = NewRow] ELSE tasks

\* Mutant: the event's status is not looked at again under the lock.
ConsumeAgain(f) ==
    /\ events' = [events EXCEPT ![f] = @ - 1]
    /\ tasks' = IF place[f] = "live" /\ extractable[f]
                  THEN WithTask(Text(f, current[f])) ELSE tasks
    /\ UNCHANGED <<file, texts, indexed, slots>>

\* consumeOutbox: one transaction per event; a locked or published row is
\* skipped, so that two workers never count an event twice.
ConsumeEvent(f) ==
    /\ events[f] > 0
    /\ events' = [events EXCEPT ![f] = @ - 1]
    /\ tasks' = IF place[f] = "live" /\ extractable[f]
                  THEN WithTask(Text(f, current[f])) ELSE tasks
    /\ UNCHANGED <<file, texts, indexed, slots>>

\* enqueueBackfill, the operator's command: what it read (the file in place, the
\* revision current and not indexed) may be out of date when it inserts the
\* task.  So may what consumeOutbox read when a mutation is finalized or the
\* file trashed before its insert; that task is one of these.
Backfill(f) ==
    /\ place[f] # "purged"
    /\ extractable[f]
    /\ \E n \in 1 .. current[f] :
          /\ indexed[f] # n
          /\ tasks' = WithTask(Text(f, n))
    /\ UNCHANGED <<file, events, texts, indexed, slots>>

Claimable(t) ==
    \/ tasks[t].status = "PENDING"
    \/ tasks[t].status = "PROCESSING" /\ tasks[t].expired

\* claimTasks: SKIP LOCKED lets a task be claimed by one execution at a time.
\* The attempt counter is compared with MaxAttempts only, so it stops there.
Claim(s, t) ==
    /\ slots[s] = Free
    /\ Claimable(t)
    /\ tasks' = [tasks EXCEPT ![t] =
          [status |-> "PROCESSING", holder |-> s, expired |-> FALSE,
           attempts |-> IF @.attempts < MaxAttempts THEN @.attempts + 1
                                                     ELSE MaxAttempts]]
    /\ slots' = [slots EXCEPT ![s] = [pc |-> "claimed", task |-> t]]
    /\ UNCHANGED <<file, events, texts, indexed>>

Expire(t) ==
    /\ tasks[t].status = "PROCESSING"
    /\ ~tasks[t].expired
    /\ tasks' = [tasks EXCEPT ![t].expired = TRUE]
    /\ UNCHANGED <<file, events, texts, indexed, slots>>

---------------------------------------------------------------------------
(* Executions *)

At(s, stage) == slots[s].pc = stage
Claimed(s) == slots[s].task
Goto(s, stage) == slots' = [slots EXCEPT ![s].pc = stage]

\* Mutant: the lease token is not compared.
OwnsByStatus(s) ==
    tasks[Claimed(s)].status = "PROCESSING" /\ ~tasks[Claimed(s)].expired

\* requireOwnership, and the condition of every update of the row.
Owns(s) ==
    LET row == tasks[Claimed(s)] IN
    row.status = "PROCESSING" /\ row.holder = s /\ ~row.expired

IsCurrent(t) == current[t.file] = t.rev

\* resolveCurrentFile; a text whose size is over the limit is empty.
Resolve(s) ==
    LET t == Claimed(s) IN
    /\ At(s, "claimed")
    /\ IF place[t.file] = "live" /\ connected[t.file] /\ IsCurrent(t)
         THEN \E next \in (IF t.type = "TEXT" THEN {"extract", "publish"} ELSE {"load"}) :
                 Goto(s, next)
         ELSE Goto(s, "stale")
    /\ UNCHANGED <<file, events, tasks, texts, indexed>>

\* Reading and extracting: a text, a passing error or a final one.
Extract(s) ==
    /\ At(s, "extract")
    /\ \E next \in {"publish", "retry", "giveUp"} : Goto(s, next)
    /\ UNCHANGED <<file, events, tasks, texts, indexed>>

\* Mutant: the text is stored after the transaction that schedules the index.
PublishTaskOnly(s) ==
    LET t == Claimed(s) IN
    /\ At(s, "publish")
    /\ IF Owns(s) /\ IsCurrent(t)
         THEN /\ tasks' = WithTask(Index(t.file, t.rev))
              /\ Goto(s, "complete")
         ELSE Goto(s, "stale") /\ UNCHANGED tasks
    /\ UNCHANGED <<file, events, texts, indexed>>

\* publishExtraction, one transaction.
Publish(s) ==
    LET t == Claimed(s) IN
    /\ At(s, "publish")
    /\ IF Owns(s) /\ IsCurrent(t)
         THEN /\ texts' = [texts EXCEPT ![t.file] = @ \cup {t.rev}]
              /\ tasks' = WithTask(Index(t.file, t.rev))
              /\ Goto(s, "complete")
         ELSE Goto(s, "stale") /\ UNCHANGED <<texts, tasks>>
    /\ UNCHANGED <<file, events, indexed>>

\* index reads the text before its transaction.
Load(s) ==
    LET t == Claimed(s) IN
    /\ At(s, "load")
    /\ Goto(s, IF t.rev \in texts[t.file] THEN "index" ELSE "retry")
    /\ UNCHANGED <<file, events, tasks, texts, indexed>>

\* Mutant: the revision is not compared again inside the transaction.
PublishIndexUnchecked(s) ==
    LET t == Claimed(s) IN
    /\ At(s, "index")
    /\ IF Owns(s)
         THEN /\ indexed' = [indexed EXCEPT ![t.file] = t.rev]
              /\ Goto(s, "complete")
         ELSE Goto(s, "stale") /\ UNCHANGED indexed
    /\ UNCHANGED <<file, events, tasks, texts>>

PublishIndex(s) ==
    LET t == Claimed(s) IN
    /\ At(s, "index")
    /\ IF Owns(s) /\ IsCurrent(t)
         THEN /\ indexed' = [indexed EXCEPT ![t.file] = t.rev]
              /\ Goto(s, "complete")
         ELSE Goto(s, "stale") /\ UNCHANGED indexed
    /\ UNCHANGED <<file, events, tasks, texts>>

\* The row as its holder leaves it; a claim that was lost changes nothing.
Leave(s, row) ==
    /\ tasks' = IF Owns(s) THEN [tasks EXCEPT ![Claimed(s)] = row] ELSE tasks
    /\ slots' = [slots EXCEPT ![s] = Free]
    /\ UNCHANGED <<file, events, texts, indexed>>

Complete(s) ==
    /\ slots[s].pc \in {"complete", "stale"}
    /\ Leave(s, [tasks[Claimed(s)] EXCEPT
          !.status = IF At(s, "stale") THEN "STALE" ELSE "COMPLETED",
          !.holder = NoSlot])

\* Mutant: the attempts are not compared with the limit.
FailUnlimited(s) ==
    /\ slots[s].pc \in {"retry", "giveUp"}
    /\ Leave(s, [tasks[Claimed(s)] EXCEPT !.holder = NoSlot,
          !.status = IF At(s, "retry") THEN "PENDING" ELSE "FAILED"])

\* fail: back to PENDING while attempts are left and the error may pass.
Fail(s) ==
    LET row == tasks[Claimed(s)] IN
    /\ slots[s].pc \in {"retry", "giveUp"}
    /\ Leave(s, [row EXCEPT !.holder = NoSlot,
          !.status = IF At(s, "retry") /\ row.attempts < MaxAttempts
                       THEN "PENDING" ELSE "FAILED"])

\* A statement fails and its transaction is rolled back: an error that may pass.
Trouble(s) ==
    /\ slots[s].pc \in {"claimed", "publish", "load", "index", "complete"}
    /\ Goto(s, "retry")
    /\ UNCHANGED <<file, events, tasks, texts, indexed>>

\* The process dies, or fails to write the outcome.  (Dying after the lease is
\* lost is no different from going on, since nothing is written then.)
Crash(s) ==
    /\ slots[s] # Free
    /\ Owns(s)
    /\ slots' = [slots EXCEPT ![s] = Free]
    /\ UNCHANGED <<file, events, tasks, texts, indexed>>

---------------------------------------------------------------------------

\* Files that were just uploaded: one revision, its event not consumed.
Init ==
    /\ current = [f \in Files |-> 1]
    /\ place = [f \in Files |-> "live"]
    /\ connected = [f \in Files |-> TRUE]
    /\ extractable \in [Files -> BOOLEAN]
    /\ events = [f \in Files |-> 1]
    /\ tasks = [t \in Task |-> NoRow]
    /\ texts = [f \in Files |-> {}]
    /\ indexed = [f \in Files |-> 0]
    /\ slots = [s \in Slots |-> Free]

FileStep(f) ==
    \/ Mutate(f) \/ Trash(f) \/ RestoreFromTrash(f) \/ Purge(f)
    \/ SourceChanges(f) \/ ConsumeEvent(f) \/ Backfill(f)

\* What an execution does of its own accord.
Work(s) ==
    \/ Resolve(s) \/ Extract(s) \/ Publish(s) \/ Load(s) \/ PublishIndex(s)
    \/ Complete(s) \/ Fail(s)

Next ==
    \/ \E f \in Files : FileStep(f)
    \/ \E t \in Task : Expire(t) \/ \E s \in Slots : Claim(s, t)
    \/ \E s \in Slots : Work(s) \/ Trouble(s) \/ Crash(s)

Spec == Init /\ [][Next]_vars

\* The worker polls for ever, leases run out, and executions go on; from some
\* point on processes do not die and a lease lasts as long as its execution
\* (errors may go on: attempts are counted).  The operator runs the backfill.
Abandoned(t) == \A s \in Slots : slots[s] # Free => Claimed(s) # t
WorkerFairness ==
    /\ \A f \in Files : WF_vars(ConsumeEvent(f)) /\ WF_vars(Backfill(f))
    /\ \A t \in Task : /\ SF_vars(\E s \in Slots : Claim(s, t))
                       /\ WF_vars(Expire(t) /\ Abandoned(t))
    /\ \A s \in Slots : WF_vars(Work(s))
    /\ <>[][\A s \in Slots : ~Crash(s)]_vars
    /\ <>[][\A t \in Task : Expire(t) => Abandoned(t)]_vars

FairSpec == Spec /\ WorkerFairness

---------------------------------------------------------------------------
(* Properties *)

\* A late result never replaces a newer one: the search document of a file
\* moves forward in its history, until the file is purged.
IndexNeverGoesBack ==
    [][\A f \in Files : indexed'[f] >= indexed[f] \/ place'[f] = "purged"]_vars

\* What completing a task promises: the next task, or a search document at
\* least as recent.
Left(t) ==
    IF t.type = "TEXT" THEN tasks[Index(t.file, t.rev)].status # "NONE"
                       ELSE indexed[t.file] >= t.rev

\* The pipeline leaves no gap behind: an index task finds the text it is to
\* read, and a task that completed as current left what it promises.
FinishedLeftItsResult ==
    \A t \in Task :
        /\ t.type = "INDEX" /\ tasks[t].status # "NONE" => t.rev \in texts[t.file]
        /\ tasks[t].status = "COMPLETED" => Left(t)

\* Whoever still works on a claim that ran out changes nothing: while a lease
\* runs, the row changes by its holder's own step only, and a settled row stays
\* as it is (running out, and the purge, apart).
LateHolderIsHarmless ==
    [][/\ \A s \in Slots : slots[s] # Free =>
            LET row == tasks[Claimed(s)]
                next == tasks'[Claimed(s)] IN
            row.status = "PROCESSING" /\ row.holder = s /\ ~row.expired =>
                \/ next = row \/ next.expired \/ slots'[s] # slots[s]
                \/ place'[Claimed(s).file] = "purged"
       /\ \A t \in Task : tasks[t].status \in Settled =>
            tasks'[t] = tasks[t] \/ place'[t.file] = "purged"]_vars

\* An extractable file that stays in place with its source: once mutations
\* stop, its search document is the current revision's, or the pipeline has
\* given up on that revision by name.
Healthy(f) == extractable[f] /\ place[f] = "live" /\ connected[f]
GaveUp(f) ==
    \E t \in {Text(f, current[f]), Index(f, current[f])} : tasks[t].status = "FAILED"
CurrentIsSearchable ==
    \A f \in Files :
        <>[]Healthy(f) => <>[](indexed[f] = current[f] \/ GaveUp(f))
=============================================================================
