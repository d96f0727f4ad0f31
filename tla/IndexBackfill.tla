---------------------------- MODULE IndexBackfill ----------------------------
(***************************************************************************)
(* The command backfill:file-processing, batch after batch, for files of   *)
(* both kinds: for a file with revisions it creates the task that the      *)
(* worker would have created (RevisionProcessing has the worker), a file   *)
(* that lies on the local disk it reads and indexes itself.  Each batch    *)
(* answers with one cursor for both kinds, and operators may run the       *)
(* command side by side while files change.                                *)
(***************************************************************************)
EXTENDS Naturals, FiniteSets

CONSTANTS Corpus,      \* files, ordered as their UUIDs
          Commands,    \* operators resuming the command until it has no cursor
          BatchLimit,  \* --limit
          MaxContent,  \* bound on versions, and on revisions, of a file
          Corpora      \* the files there are and those with revisions, the commands
               \* that are given, and the changes left

ASSUME BackfillConstants ==
  /\ Corpus \subseteq Nat \ {0} /\ BatchLimit \in Nat \ {0} /\ MaxContent \in Nat \ {0}
  /\ \A c \in Corpora : c.revised \subseteq c.there /\ c.there \subseteq Corpus /\ c.left \in Nat

VARIABLES
  corpus,   \* tables File and Node, and the changes left
  index,    \* table SearchDocument
  task,     \* the revisions of a file that have a TEXT_EXTRACTION task: waiting or done
  command   \* the commands

backfillVars == <<corpus, index, task, command>>

Positions == 0..MaxContent
CorpusFile == [backing : {"LOCAL", "GOOGLE_DRIVE"}, version : Positions, sequence : Positions,
               live : BOOLEAN]
Document == [by : {"none", "version", "revision"}, at : Positions]
NoDocument == [by |-> "none", at |-> 0]
Item == [file : Corpus, at : Positions]
TaskState == {"none", "waiting", "done"}

\* History: steady, files the command is meant for that stayed as they were since
\* its first batch; failed, those it could not read; buried, those whose document
\* some command overwrote with one of another content.
Command == [pc : {"idle", "provider", "tasks", "legacy", "document", "extract", "check", "write",
                  "done"},
            cursor : Corpus \cup {0}, tasks : SUBSET Item, legacy : SUBSET Item,
            last : [provider : Corpus \cup {0}, legacy : Corpus \cup {0}],
            steady : SUBSET Corpus, failed : SUBSET Corpus]

BackfillTypeOK ==
  /\ corpus.left \in Nat /\ corpus.file \in [Corpus -> CorpusFile] /\ corpus.buried \subseteq Corpus
  /\ index \in [Corpus -> Document]
  /\ task \in [Corpus -> [Positions -> TaskState]]
  /\ command \in [Commands -> Command]

File(f) == corpus.file[f]
HasRevisions(f) == File(f).sequence > 0
IsLegacy(f) == File(f).backing = "LOCAL" /\ File(f).sequence = 0 /\ File(f).version > 0
Meant(f) == File(f).live /\ (HasRevisions(f) \/ IsLegacy(f))
\* The document that the search takes for the file's.
Current(f) == IF HasRevisions(f) THEN [by |-> "revision", at |-> File(f).sequence]
              ELSE [by |-> "version", at |-> File(f).version]

-----------------------------------------------------------------------------
(* The files meanwhile.                                                    *)

Becomes(f, row) ==
  /\ corpus.left > 0
  /\ corpus' = [corpus EXCEPT !.file[f] = row, !.left = @ - 1]
  /\ command' = [c \in Commands |-> [command[c] EXCEPT !.steady = @ \ {f}]]

\* FilesService.createVersion or restoreVersion.
NewVersion(f) ==
  /\ IsLegacy(f) /\ File(f).live /\ File(f).version < MaxContent
  /\ Becomes(f, [File(f) EXCEPT !.version = @ + 1]) /\ UNCHANGED <<index, task>>

\* The migration to Drive.
Migrate(f) ==
  /\ IsLegacy(f) /\ File(f).live
  /\ Becomes(f, [File(f) EXCEPT !.backing = "GOOGLE_DRIVE"]) /\ UNCHANGED <<index, task>>

\* A finalized save; its event brings the task of the new revision.
NewRevision(f) ==
  LET s == File(f).sequence + 1
  IN /\ File(f).backing = "GOOGLE_DRIVE" /\ File(f).live /\ s <= MaxContent
     /\ Becomes(f, [File(f) EXCEPT !.sequence = s])
     /\ task' = [task EXCEPT ![f][s] = "waiting"] /\ UNCHANGED index

TrashOrRestore(f) ==
  /\ File(f).version > 0
  /\ Becomes(f, [File(f) EXCEPT !.live = ~@]) /\ UNCHANGED <<index, task>>

\* The worker takes a task to its end, and publishes unless it is stale.
WorkerIndexes(f, s) ==
  /\ task[f][s] = "waiting"
  /\ task' = [task EXCEPT ![f][s] = "done"]
  /\ index' = IF File(f).sequence = s /\ File(f).live
              THEN [index EXCEPT ![f] = [by |-> "revision", at |-> s]] ELSE index
  /\ UNCHANGED <<corpus, command>>

-----------------------------------------------------------------------------
(* The command.                                                            *)

Advance(c, row) == command' = [command EXCEPT ![c] = row]

StartCommand(c) ==
  /\ command[c].pc = "idle"
  /\ Advance(c, [command[c] EXCEPT !.pc = "provider", !.steady = {f \in Corpus : Meant(f)}])
  /\ UNCHANGED <<corpus, index, task>>

\* A page: the first of the files that are chosen behind the cursor, with the
\* last of them when the page is full.
Page(c, chosen, taken, last) ==
  LET rest == {f \in chosen : f > command[c].cursor}
  IN /\ taken \subseteq rest /\ \A f \in taken, g \in rest \ taken : f < g
     /\ Cardinality(taken) <= BatchLimit
     /\ IF Cardinality(taken) = BatchLimit THEN last \in taken /\ \A f \in taken : f <= last
        ELSE taken = rest /\ last = 0
\* Its rows as they were read; they are taken in the order of their files.
ItemsOf(taken) == {[file |-> f, at |-> Current(f).at] : f \in taken}
IsNext(items, item) == item \in items /\ \A other \in items : item.file <= other.file

ReadRevised(c) ==
  /\ command[c].pc = "provider"
  /\ \E taken \in SUBSET Corpus, last \in Corpus \cup {0} :
       /\ Page(c, {f \in Corpus : File(f).live /\ HasRevisions(f)}, taken, last)
       /\ Advance(c, [command[c] EXCEPT !.pc = "tasks", !.tasks = ItemsOf(taken),
                                        !.last.provider = last])
  /\ UNCHANGED <<corpus, index, task>>

\* A file that is not indexed at the revision that was read gets its task, once.
EnqueueTask(c) ==
  /\ command[c].pc = "tasks"
  /\ \E item \in command[c].tasks :
       LET indexed == index[item.file] = [by |-> "revision", at |-> item.at]
       IN /\ IsNext(command[c].tasks, item)
          /\ Advance(c, [command[c] EXCEPT !.tasks = @ \ {item}])
          /\ task' = IF indexed \/ task[item.file][item.at] # "none" THEN task
                     ELSE [task EXCEPT ![item.file][item.at] = "waiting"]
  /\ UNCHANGED <<corpus, index>>

ReadLegacy(c) ==
  /\ command[c].pc = "tasks" /\ command[c].tasks = {}
  /\ \E taken \in SUBSET Corpus, last \in Corpus \cup {0} :
       /\ Page(c, {f \in Corpus : File(f).live /\ IsLegacy(f)}, taken, last)
       /\ Advance(c, [command[c] EXCEPT !.pc = "document", !.legacy = ItemsOf(taken),
                                        !.last.legacy = last])
  /\ UNCHANGED <<corpus, index, task>>

AtItem(c, pc, item) == command[c].pc = pc /\ IsNext(command[c].legacy, item)
NextFile(c, item) == [command[c] EXCEPT !.pc = "document", !.legacy = @ \ {item}]

LookAtDocument(c, item) ==
  /\ AtItem(c, "document", item)
  /\ Advance(c, IF index[item.file] = [by |-> "version", at |-> item.at] THEN NextFile(c, item)
                ELSE [command[c] EXCEPT !.pc = "extract"])
  /\ UNCHANGED <<corpus, index, task>>

\* A missing or corrupt object must not stop the batch.
Extract(c, item) ==
  /\ AtItem(c, "extract", item)
  /\ \/ Advance(c, [command[c] EXCEPT !.pc = "check"])
     \/ Advance(c, [NextFile(c, item) EXCEPT !.failed = @ \cup {item.file}])
  /\ UNCHANGED <<corpus, index, task>>

\* publish, its two statements: the file is read, then the document is written.
CheckCurrent(c, item) ==
  LET row == File(item.file)
  IN /\ AtItem(c, "check", item)
     /\ Advance(c, IF row.sequence = 0 /\ row.version = item.at /\ row.live
                   THEN [command[c] EXCEPT !.pc = "write"] ELSE NextFile(c, item))
     /\ UNCHANGED <<corpus, index, task>>

WriteDocument(c, item) ==
  LET f == item.file
      document == [by |-> "version", at |-> item.at]
  IN /\ AtItem(c, "write", item) /\ Advance(c, NextFile(c, item))
     /\ index' = [index EXCEPT ![f] = document]
     /\ corpus' = [corpus EXCEPT !.buried =
                     IF document = Current(f) THEN @ \ {f} ELSE @ \cup {f}]
     /\ UNCHANGED task

\* Mutant: the batch goes on where the farther of its two pages ended.
HigherCursor(last) == IF last.provider > last.legacy THEN last.provider ELSE last.legacy

\* nextCursor: the lower of the two pages' ends, none if both came to an end.
NextCursor(last) ==
  IF last.provider = 0 THEN last.legacy
  ELSE IF last.legacy = 0 \/ last.provider < last.legacy THEN last.provider
  ELSE last.legacy

Answer(c) ==
  LET next == NextCursor(command[c].last)
  IN /\ command[c].pc = "document" /\ command[c].legacy = {}
     /\ Advance(c, [command[c] EXCEPT !.pc = IF next = 0 THEN "done" ELSE "provider",
                                      !.cursor = next])
     /\ UNCHANGED <<corpus, index, task>>

-----------------------------------------------------------------------------
BackfillInit ==
  /\ \E c \in Corpora :
       /\ corpus = [left |-> c.left, buried |-> {}, file |-> [f \in Corpus |->
            [backing |-> IF f \in c.revised THEN "GOOGLE_DRIVE" ELSE "LOCAL",
             version |-> IF f \in c.there THEN 1 ELSE 0,
             sequence |-> IF f \in c.revised THEN 1 ELSE 0, live |-> f \in c.there]]]
       /\ command = [b \in Commands |->
            [pc |-> IF b \in c.commands THEN "idle" ELSE "done", cursor |-> 0, tasks |-> {},
             legacy |-> {}, last |-> [provider |-> 0, legacy |-> 0], steady |-> {},
             failed |-> {}]]
  /\ index = [f \in Corpus |-> NoDocument]
  /\ task = [f \in Corpus |-> [s \in Positions |-> "none"]]

CommandStep(c) ==
  \/ StartCommand(c) \/ ReadRevised(c) \/ EnqueueTask(c) \/ ReadLegacy(c) \/ Answer(c)
  \/ \E item \in command[c].legacy :
       LookAtDocument(c, item) \/ Extract(c, item) \/ CheckCurrent(c, item) \/ WriteDocument(c, item)

BackfillNext ==
  \/ \E f \in Corpus : NewVersion(f) \/ Migrate(f) \/ NewRevision(f) \/ TrashOrRestore(f)
       \/ \E s \in Positions : WorkerIndexes(f, s)
  \/ \E c \in Commands : CommandStep(c)

BackfillSpec == BackfillInit /\ [][BackfillNext]_backfillVars

-----------------------------------------------------------------------------
(* Properties.                                                             *)

\* The one cursor for two interleaved kinds of file loses none: when the last
\* batch has answered, every file that stayed as it was is indexed at what it
\* holds, or has the task for it, or could not be read; unless a command that
\* checked an older content wrote its document over that.
BackfillReachesAll ==
  \A c \in Commands : command[c].pc = "done" =>
    \A f \in command[c].steady :
      \/ index[f] = Current(f)
      \/ HasRevisions(f) /\ task[f][File(f).sequence] # "none"
      \/ f \in command[c].failed \cup corpus.buried

=============================================================================
