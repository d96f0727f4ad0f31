---------------------- MODULE RevisionProcessingProofs ----------------------
(***************************************************************************)
(* Theorems about RevisionProcessing, for any number of files, executions,  *)
(* revisions and attempts.                                                  *)
(***************************************************************************)
EXTENDS RevisionProcessing, TLAPS

USE ConstantsAssumption DEF Revisions

---------------------------------------------------------------------------
(* Types *)

LEMMA Executing ==
    ASSUME TypeOK, NEW s \in Slots, slots[s] # Free
    PROVE  slots[s] \in Execution /\ Claimed(s) \in Task
           /\ Claimed(s).file \in Files /\ Claimed(s).rev \in Revisions
BY DEF TypeOK, Execution, Claimed, Task

LEMMA GotoType ==
    ASSUME TypeOK, NEW s \in Slots, slots[s] # Free, NEW stage \in Stage,
           Goto(s, stage)
    PROVE  slots' \in [Slots -> {Free} \cup Execution]
<1>1. [slots[s] EXCEPT !.pc = stage] \in Execution
  BY Executing DEF Execution
<1>2. QED BY <1>1 DEF Goto, TypeOK

LEMMA NewRowType == NoRow \in Row /\ NewRow \in Row
<1>1. 0 \in 0 .. MaxAttempts
  OBVIOUS
<1>2. NoRow \in Row
  BY <1>1 DEF NoRow, Row, TaskStatus
<1>3. [NoRow EXCEPT !.status = "PENDING"] \in Row
  BY <1>2 DEF Row, TaskStatus
<1>4. QED BY <1>2, <1>3 DEF NewRow

LEMMA WithTaskType ==
    ASSUME TypeOK, NEW t \in Task
    PROVE  WithTask(t) \in [Task -> Row]
BY NewRowType DEF TypeOK, WithTask

LEMMA KeyType ==
    ASSUME NEW f \in Files, NEW n \in Revisions
    PROVE  Text(f, n) \in Task /\ Index(f, n) \in Task
BY DEF Text, Index, Task

LEMMA LeaveType ==
    ASSUME TypeOK, NEW s \in Slots, NEW row \in Row, Leave(s, row)
    PROVE  TypeOK'
BY DEF Leave, TypeOK, file

LEMMA FileStepType ==
    ASSUME TypeOK, NEW f \in Files, FileStep(f)
    PROVE  TypeOK'
<1>1. CASE Mutate(f)
  BY <1>1 DEF Mutate, TypeOK
<1>2. CASE Trash(f) \/ RestoreFromTrash(f) \/ SourceChanges(f)
  BY <1>2 DEF Trash, RestoreFromTrash, SourceChanges, TypeOK
<1>3. CASE Purge(f)
  BY <1>3, NewRowType DEF Purge, TypeOK
<1>4. CASE ConsumeEvent(f)
  <2>1. tasks' \in [Task -> Row]
    BY <1>4, KeyType, WithTaskType DEF ConsumeEvent, TypeOK
  <2>2. QED BY <1>4, <2>1 DEF ConsumeEvent, file, TypeOK
<1>5. CASE Backfill(f)
  <2>1. PICK n \in 1 .. current[f] : tasks' = WithTask(Text(f, n))
    BY <1>5 DEF Backfill
  <2>2. n \in Revisions
    BY <2>1 DEF TypeOK
  <2>3. tasks' \in [Task -> Row]
    BY <2>1, <2>2, KeyType, WithTaskType
  <2>4. QED BY <1>5, <2>3 DEF Backfill, file, TypeOK
<1>6. QED BY <1>1, <1>2, <1>3, <1>4, <1>5 DEF FileStep

LEMMA TaskStepType ==
    ASSUME TypeOK, NEW t \in Task, Expire(t) \/ \E s \in Slots : Claim(s, t)
    PROVE  TypeOK'
<1>1. CASE Expire(t)
  BY <1>1 DEF Expire, Row, file, TypeOK
<1>2. ASSUME NEW s \in Slots, Claim(s, t) PROVE TypeOK'
  <2>1. [pc |-> "claimed", task |-> t] \in Execution
    BY DEF Execution, Stage
  <2>2. tasks[t] \in Row
    BY DEF TypeOK
  <2>3. tasks' \in [Task -> Row]
    BY <1>2, <2>2 DEF Claim, Row, TaskStatus, TypeOK
  <2>4. QED BY <1>2, <2>1, <2>3 DEF Claim, file, TypeOK
<1>3. QED BY <1>1, <1>2

LEMMA WorkType ==
    ASSUME TypeOK, NEW s \in Slots, Work(s) \/ Trouble(s) \/ Crash(s)
    PROVE  TypeOK'
<1>. DEFINE t == Claimed(s)
<1>1. CASE Resolve(s) \/ Extract(s) \/ Load(s) \/ Trouble(s)
  <2>1. slots[s] # Free
    BY <1>1 DEF Resolve, Extract, Load, Trouble, At, Free
  <2>2. \E stage \in Stage : Goto(s, stage)
    BY <1>1 DEF Resolve, Extract, Load, Trouble, Stage
  <2>3. slots' \in [Slots -> {Free} \cup Execution]
    BY <2>1, <2>2, GotoType
  <2>4. QED
    BY <1>1, <2>3 DEF Resolve, Extract, Load, Trouble, file, TypeOK
<1>2. CASE Publish(s)
  <2>1. slots[s] # Free
    BY <1>2 DEF Publish, At, Free
  <2>2. \E stage \in Stage : Goto(s, stage)
    BY <1>2 DEF Publish, Stage
  <2>3. slots' \in [Slots -> {Free} \cup Execution]
    BY <2>1, <2>2, GotoType
  <2>4. Index(t.file, t.rev) \in Task
    BY <2>1, Executing, KeyType
  <2>5. tasks' \in [Task -> Row] /\ texts' \in [Files -> SUBSET Revisions]
    BY <1>2, <2>1, <2>4, Executing, WithTaskType DEF Publish, TypeOK
  <2>6. QED BY <1>2, <2>3, <2>5 DEF Publish, file, TypeOK
<1>3. CASE PublishIndex(s)
  <2>1. slots[s] # Free
    BY <1>3 DEF PublishIndex, At, Free
  <2>2. \E stage \in Stage : Goto(s, stage)
    BY <1>3 DEF PublishIndex, Stage
  <2>3. slots' \in [Slots -> {Free} \cup Execution]
    BY <2>1, <2>2, GotoType
  <2>4. indexed' \in [Files -> {0} \cup Revisions]
    BY <1>3, <2>1, Executing DEF PublishIndex, TypeOK
  <2>5. QED BY <1>3, <2>3, <2>4 DEF PublishIndex, file, TypeOK
<1>4. CASE Complete(s)
  <2>1. slots[s] # Free
    BY <1>4 DEF Complete, Free
  <2>2. tasks[t] \in Row
    BY <2>1, Executing DEF TypeOK
  <2>3. [tasks[t] EXCEPT !.status = IF At(s, "stale") THEN "STALE" ELSE "COMPLETED",
                         !.holder = NoSlot] \in Row
    BY <2>2 DEF Row, TaskStatus
  <2>4. QED BY <1>4, <2>3, LeaveType DEF Complete
<1>5. CASE Fail(s)
  <2>1. slots[s] # Free
    BY <1>5 DEF Fail, Free
  <2>2. tasks[t] \in Row
    BY <2>1, Executing DEF TypeOK
  <2>3. [tasks[t] EXCEPT !.holder = NoSlot,
           !.status = IF At(s, "retry") /\ tasks[t].attempts < MaxAttempts
                        THEN "PENDING" ELSE "FAILED"] \in Row
    BY <2>2 DEF Row, TaskStatus
  <2>4. QED BY <1>5, <2>3, LeaveType DEF Fail
<1>6. CASE Crash(s)
  BY <1>6 DEF Crash, file, TypeOK
<1>7. QED BY <1>1, <1>2, <1>3, <1>4, <1>5, <1>6 DEF Work

LEMMA InitType == Init => TypeOK
BY NewRowType DEF Init, TypeOK

LEMMA NextType == TypeOK /\ [Next]_vars => TypeOK'
<1>1. CASE UNCHANGED vars
  BY <1>1 DEF vars, TypeOK
<1>2. QED
  BY <1>1, FileStepType, TaskStepType, WorkType DEF Next

\* Every reachable state is well typed.
THEOREM TypeCorrect == Spec => []TypeOK
BY InitType, NextType, PTL DEF Spec

---------------------------------------------------------------------------
(* What a step does to a task *)

\* The row of a task goes with its file, is created, runs out, is claimed, or is
\* left by the execution that owns it.
Created(t) ==
    /\ tasks[t].status = "NONE" /\ tasks'[t] = NewRow
    /\ t.type = "TEXT" \/ t.rev \in texts'[t.file]
LeftBy(s, t) ==
    /\ slots[s] # Free /\ Claimed(s) = t /\ Owns(s) /\ slots'[s] = Free
    /\ tasks'[t].holder = NoSlot
    /\ tasks'[t].status \in {"COMPLETED", "STALE", "PENDING", "FAILED"}
    /\ tasks'[t].status = "COMPLETED" => At(s, "complete")
RowChange(t) ==
    \/ Purge(t.file) /\ tasks'[t] = NoRow
    \/ Created(t)
    \/ Expire(t)
    \/ \E s \in Slots : Claim(s, t) \/ LeftBy(s, t)

LEMMA LeaveChange ==
    ASSUME TypeOK, NEW s \in Slots, Complete(s) \/ Fail(s),
           NEW t \in Task, tasks'[t] # tasks[t]
    PROVE  LeftBy(s, t)
<1>. DEFINE row == tasks[Claimed(s)]
            done == [row EXCEPT
               !.status = IF At(s, "stale") THEN "STALE" ELSE "COMPLETED",
               !.holder = NoSlot]
            failed == [row EXCEPT !.holder = NoSlot,
               !.status = IF At(s, "retry") /\ row.attempts < MaxAttempts
                            THEN "PENDING" ELSE "FAILED"]
<1>1. slots[s] # Free /\ row \in Row
  BY Executing DEF Complete, Fail, Free, TypeOK
<1>2. /\ done.holder = NoSlot /\ done.status \in {"COMPLETED", "STALE"}
      /\ done.status = "COMPLETED" => ~At(s, "stale")
      /\ failed.holder = NoSlot /\ failed.status \in {"PENDING", "FAILED"}
  BY <1>1 DEF Row
<1>3. CASE Complete(s)
  <2>1. Leave(s, done) /\ (At(s, "complete") \/ At(s, "stale"))
    BY <1>3 DEF Complete, At
  <2>2. Owns(s) /\ t = Claimed(s) /\ tasks'[t] = done /\ slots'[s] = Free
    BY <2>1, <1>1, Executing DEF Leave, TypeOK
  <2>3. QED BY <1>1, <1>2, <2>1, <2>2 DEF LeftBy
<1>4. CASE Fail(s)
  <2>1. Leave(s, failed)
    BY <1>4 DEF Fail
  <2>2. Owns(s) /\ t = Claimed(s) /\ tasks'[t] = failed /\ slots'[s] = Free
    BY <2>1, <1>1, Executing DEF Leave, TypeOK
  <2>3. QED BY <1>1, <1>2, <2>2 DEF LeftBy
<1>5. QED BY <1>3, <1>4

LEMMA StepChanges ==
    ASSUME TypeOK, Next, NEW t \in Task, tasks'[t] # tasks[t]
    PROVE  RowChange(t)
<1>0. t.file \in Files
  BY DEF Task
<1>1. ASSUME NEW u \in Task, tasks' = WithTask(u),
             u.type = "TEXT" \/ u.rev \in texts'[u.file]
      PROVE  Created(t)
  BY <1>1 DEF WithTask, TypeOK, Created
<1>2. ASSUME NEW f \in Files, FileStep(f) PROVE RowChange(t)
  <2>1. CASE Purge(f)
    BY <2>1, <1>0 DEF Purge, RowChange
  <2>2. CASE ConsumeEvent(f)
    <3>1. Text(f, current[f]) \in Task /\ Text(f, current[f]).type = "TEXT"
      BY KeyType DEF TypeOK, Text
    <3>2. tasks' = WithTask(Text(f, current[f]))
      BY <2>2 DEF ConsumeEvent
    <3>3. QED BY <3>1, <3>2, <1>1 DEF RowChange
  <2>3. CASE Backfill(f)
    <3>1. PICK n \in 1 .. current[f] : tasks' = WithTask(Text(f, n))
      BY <2>3 DEF Backfill
    <3>2. Text(f, n) \in Task /\ Text(f, n).type = "TEXT"
      BY <3>1, KeyType DEF TypeOK, Text
    <3>3. QED BY <3>1, <3>2, <1>1 DEF RowChange
  <2>4. QED
    BY <1>2, <2>1, <2>2, <2>3
    DEF FileStep, Mutate, Trash, RestoreFromTrash, SourceChanges
<1>3. ASSUME NEW u \in Task, Expire(u) PROVE RowChange(t)
  BY <1>3 DEF Expire, TypeOK, RowChange
<1>4. ASSUME NEW u \in Task, NEW s \in Slots, Claim(s, u) PROVE RowChange(t)
  BY <1>4 DEF Claim, TypeOK, RowChange
<1>5. ASSUME NEW s \in Slots, Work(s) \/ Trouble(s) \/ Crash(s) PROVE RowChange(t)
  <2>1. CASE Publish(s)
    <3>. DEFINE c == Claimed(s)
                u == Index(c.file, c.rev)
    <3>1. slots[s] # Free
      BY <2>1 DEF Publish, At, Free
    <3>2. c.file \in Files /\ c.rev \in Revisions /\ u \in Task
      BY <3>1, Executing, KeyType
    <3>3. tasks' = WithTask(u) /\ u.rev \in texts'[u.file]
      BY <2>1, <3>2 DEF Publish, Index, TypeOK
    <3>4. QED BY <3>2, <3>3, <1>1 DEF RowChange
  <2>2. CASE Complete(s) \/ Fail(s)
    BY <2>2, LeaveChange DEF RowChange
  <2>3. QED
    BY <1>5, <2>1, <2>2 DEF Work, Resolve, Extract, Load, PublishIndex, Trouble, Crash
<1>6. QED BY <1>2, <1>3, <1>4, <1>5 DEF Next

LEMMA RowStays ==
    ASSUME TypeOK, Next, NEW t \in Task, ~Purge(t.file), tasks[t].status # "NONE"
    PROVE  tasks'[t].status # "NONE"
<1>1. CASE tasks'[t] = tasks[t]
  BY <1>1
<1>2. CASE RowChange(t)
  BY <1>2 DEF RowChange, Created, Expire, Claim, LeftBy, TypeOK, Row
<1>3. QED BY <1>1, <1>2, StepChanges

---------------------------------------------------------------------------
(* The search document only moves forward *)

\* No search document is ahead of its file.
NotAhead == \A f \in Files : indexed[f] <= current[f]

\* Nothing but the purge of its file takes a text or an index away, and the
\* index of a file moves to the current revision if it moves at all.
LEMMA StepKeeps ==
    ASSUME TypeOK, NotAhead, Next, NEW f \in Files, ~Purge(f)
    PROVE  /\ texts[f] \subseteq texts'[f]
           /\ indexed'[f] >= indexed[f]
           /\ indexed'[f] <= current'[f]
<1>. DEFINE Kept == /\ texts[f] \subseteq texts'[f]
                    /\ indexed'[f] >= indexed[f]
                    /\ indexed'[f] <= current'[f]
<1>0. current[f] \in Nat /\ indexed[f] \in Nat /\ indexed[f] <= current[f]
  BY DEF TypeOK, NotAhead
<1>1. CASE UNCHANGED <<current, texts, indexed>>
  BY <1>0, <1>1
<1>2. ASSUME NEW g \in Files, Mutate(g) PROVE Kept
  <2>1. current'[f] \in Nat /\ current'[f] >= current[f]
    BY <1>0, <1>2 DEF Mutate, TypeOK
  <2>2. QED BY <1>0, <1>2, <2>1 DEF Mutate
<1>3. ASSUME NEW g \in Files, Purge(g) PROVE Kept
  <2>1. f # g
    BY <1>3
  <2>2. texts'[f] = texts[f] /\ indexed'[f] = indexed[f] /\ current' = current
    BY <1>3, <2>1 DEF Purge, TypeOK
  <2>3. QED BY <1>0, <2>2
<1>4. ASSUME NEW s \in Slots, Publish(s) PROVE Kept
  BY <1>0, <1>4 DEF Publish, TypeOK, file
<1>5. ASSUME NEW s \in Slots, PublishIndex(s) PROVE Kept
  <2>1. slots[s] # Free
    BY <1>5 DEF PublishIndex, At, Free
  <2>2. QED BY <1>0, <1>5, <2>1, Executing DEF PublishIndex, IsCurrent, TypeOK, file
<1>6. QED
  BY <1>1, <1>2, <1>3, <1>4, <1>5
  DEF Next, FileStep, Trash, RestoreFromTrash, SourceChanges, ConsumeEvent, Backfill,
      Expire, Claim, Work, Resolve, Extract, Load, Complete, Fail, Leave, Trouble,
      Crash, file

LEMMA PurgeStep ==
    ASSUME TypeOK, NEW f \in Files, Purge(f)
    PROVE  /\ place'[f] = "purged" /\ indexed'[f] = 0
           /\ \A g \in Files \ {f} : indexed'[g] = indexed[g]
           /\ current' = current /\ slots' = slots
BY DEF Purge, TypeOK

LEMMA NotAheadStep == TypeOK /\ NotAhead /\ [Next]_vars => NotAhead'
<1>1. CASE UNCHANGED vars
  BY <1>1 DEF vars, NotAhead
<1>2. ASSUME TypeOK, NotAhead, Next, NEW f \in Files PROVE indexed'[f] <= current'[f]
  <2>1. CASE Purge(f)
    BY <1>2, <2>1, PurgeStep DEF TypeOK
  <2>2. CASE ~Purge(f)
    BY <1>2, <2>2, StepKeeps
  <2>3. QED BY <2>1, <2>2
<1>3. QED BY <1>1, <1>2 DEF NotAhead

\* The search document of a file never goes back to an earlier revision, however
\* many executions of whatever age are at work, until the file is purged.
THEOREM IndexMovesForward == Spec => IndexNeverGoesBack
<1>1. Init => NotAhead
  BY DEF Init, NotAhead
<1>2. TypeOK /\ NotAhead /\ [Next]_vars =>
        [\A f \in Files : indexed'[f] >= indexed[f] \/ place'[f] = "purged"]_vars
  <2>1. ASSUME TypeOK, NotAhead, Next, NEW f \in Files
        PROVE  indexed'[f] >= indexed[f] \/ place'[f] = "purged"
    <3>1. CASE Purge(f)
      BY <2>1, <3>1, PurgeStep
    <3>2. CASE ~Purge(f)
      BY <2>1, <3>2, StepKeeps
    <3>3. QED BY <3>1, <3>2
  <2>2. QED BY <2>1
<1>3. QED BY <1>1, <1>2, InitType, NextType, NotAheadStep, PTL DEF Spec, IndexNeverGoesBack

---------------------------------------------------------------------------
(* A finished task left its result *)

\* The strengthening: a holder about to report completion has already left the
\* result, for as long as the claim is its own.
AboutToReport ==
    \A s \in Slots : slots[s] # Free /\ At(s, "complete") /\ Owns(s) => Left(Claimed(s))

\* An execution is at a stage of its task's own type.
StageFits ==
    \A s \in Slots : slots[s] # Free =>
        /\ slots[s].pc \in {"extract", "publish"} => Claimed(s).type = "TEXT"
        /\ slots[s].pc \in {"load", "index"} => Claimed(s).type = "INDEX"

PipelineInv ==
    TypeOK /\ NotAhead /\ StageFits /\ FinishedLeftItsResult /\ AboutToReport

LEMMA StageFitsStep ==
    ASSUME TypeOK, StageFits, Next
    PROVE  StageFits'
<1>. DEFINE Fits(x) == slots'[x] # Free =>
              /\ slots'[x].pc \in {"extract", "publish"} => slots'[x].task.type = "TEXT"
              /\ slots'[x].pc \in {"load", "index"} => slots'[x].task.type = "INDEX"
<1>1. CASE UNCHANGED slots
  BY <1>1 DEF StageFits, Claimed
<1>2. ASSUME NEW s \in Slots, NEW t \in Task, Claim(s, t), NEW x \in Slots PROVE Fits(x)
  BY <1>2 DEF StageFits, Claimed, Claim, TypeOK
<1>3. ASSUME NEW s \in Slots, slots' = [slots EXCEPT ![s] = Free], NEW x \in Slots
      PROVE  Fits(x)
  BY <1>3 DEF StageFits, Claimed, TypeOK
<1>4. ASSUME NEW s \in Slots, slots[s] # Free, NEW stage \in Stage, Goto(s, stage),
             stage \in {"extract", "publish"} => Claimed(s).type = "TEXT",
             stage \in {"load", "index"} => Claimed(s).type = "INDEX",
             NEW x \in Slots
      PROVE  Fits(x)
  <2>1. slots[s] \in Execution
    BY <1>4, Executing
  <2>2. slots'[s].pc = stage /\ slots'[s].task = Claimed(s)
    BY <1>4, <2>1 DEF Goto, Claimed, Execution, TypeOK
  <2>3. x # s => slots'[x] = slots[x]
    BY <1>4 DEF Goto, TypeOK
  <2>4. QED BY <1>4, <2>2, <2>3 DEF StageFits, Claimed
<1>5. ASSUME NEW s \in Slots, Work(s) \/ Trouble(s) \/ Crash(s), NEW x \in Slots
      PROVE  Fits(x)
  <2>1. CASE Complete(s) \/ Fail(s) \/ Crash(s)
    BY <1>3, <2>1 DEF Complete, Fail, Leave, Crash
  <2>2. CASE Resolve(s)
    <3>1. slots[s] # Free
      BY <2>2 DEF Resolve, At, Free
    <3>2. Claimed(s).type \in {"TEXT", "INDEX"}
      BY <3>1, Executing DEF Task
    <3>3. QED BY <1>4, <2>2, <3>1, <3>2 DEF Resolve, Stage
  <2>3. CASE Extract(s) \/ Publish(s)
    <3>1. slots[s] # Free /\ slots[s].pc \in {"extract", "publish"}
      BY <2>3 DEF Extract, Publish, At, Free
    <3>2. Claimed(s).type = "TEXT"
      BY <3>1 DEF StageFits
    <3>3. QED BY <1>4, <2>3, <3>1, <3>2 DEF Extract, Publish, Stage
  <2>4. CASE Load(s) \/ PublishIndex(s)
    <3>1. slots[s] # Free /\ slots[s].pc \in {"load", "index"}
      BY <2>4 DEF Load, PublishIndex, At, Free
    <3>2. Claimed(s).type = "INDEX"
      BY <3>1 DEF StageFits
    <3>3. QED BY <1>4, <2>4, <3>1, <3>2 DEF Load, PublishIndex, Stage
  <2>5. CASE Trouble(s)
    <3>1. slots[s] # Free
      BY <2>5 DEF Trouble, Free
    <3>2. QED BY <1>4, <2>5, <3>1 DEF Trouble, Stage
  <2>6. QED BY <1>5, <2>1, <2>2, <2>3, <2>4, <2>5 DEF Work
<1>6. \A x \in Slots : Fits(x)
  BY <1>1, <1>2, <1>3, <1>5
  DEF Next, FileStep, Mutate, Trash, RestoreFromTrash, Purge, SourceChanges,
      ConsumeEvent, Backfill, Expire, StageFits, Claimed
<1>7. QED BY <1>6 DEF StageFits, Claimed

\* What a task left stays, but for the purge of its file.
LEMMA LeftStays ==
    ASSUME TypeOK, NotAhead, Next, NEW t \in Task, ~Purge(t.file), Left(t)
    PROVE  Left(t)'
<1>. DEFINE u == Index(t.file, t.rev)
<1>1. t.file \in Files /\ t.rev \in Revisions
  BY DEF Task
<1>2. u \in Task /\ u.file = t.file
  BY <1>1, KeyType DEF Index
<1>3. CASE t.type = "TEXT"
  BY <1>2, <1>3, RowStays DEF Left
<1>4. CASE t.type # "TEXT"
  <2>1. indexed'[t.file] >= indexed[t.file]
    BY <1>1, StepKeeps
  <2>2. indexed[t.file] \in Nat /\ t.rev \in Nat
    BY <1>1 DEF TypeOK
  <2>3. indexed'[t.file] \in Nat
    BY <1>1, NextType DEF TypeOK
  <2>4. QED BY <1>4, <2>1, <2>2, <2>3 DEF Left
<1>5. QED BY <1>3, <1>4

\* A claim is its holder's own after a step only if it was before.
LEMMA OwnedBefore ==
    ASSUME TypeOK, Next, NEW s \in Slots, slots[s] # Free, slots'[s] = slots[s],
           Owns(s)'
    PROVE  Owns(s)
<1>. DEFINE c == Claimed(s)
<1>1. c \in Task /\ c' = c
  BY Executing DEF Claimed
<1>2. tasks'[c].status = "PROCESSING" /\ tasks'[c].holder = s /\ ~tasks'[c].expired
  BY <1>1 DEF Owns
<1>3. CASE RowChange(c)
  <2>1. ~Expire(c)
    BY <1>1, <1>2 DEF Expire, TypeOK, Row
  <2>2. ~Created(c) /\ tasks'[c] # NoRow
    BY <1>2 DEF Created, NewRow, NoRow
  <2>3. ASSUME NEW x \in Slots, Claim(x, c) PROVE FALSE
    BY <2>3, <1>1, <1>2 DEF Claim, TypeOK
  <2>4. ASSUME NEW x \in Slots, LeftBy(x, c) PROVE FALSE
    BY <2>4, <1>2 DEF LeftBy
  <2>5. QED BY <1>3, <2>1, <2>2, <2>3, <2>4 DEF RowChange
<1>4. CASE tasks'[c] = tasks[c]
  BY <1>1, <1>2, <1>4 DEF Owns
<1>5. QED BY <1>1, <1>3, <1>4, StepChanges

\* Only the execution that publishes gets to report completion.
LEMMA ReadyBecause ==
    ASSUME TypeOK, Next, NEW s \in Slots, slots'[s] # Free, slots'[s] # slots[s],
           At(s, "complete")'
    PROVE  /\ slots[s] # Free /\ Claimed(s)' = Claimed(s)
           /\ Publish(s) \/ PublishIndex(s)
<1>1. ASSUME NEW f \in Files, FileStep(f) PROVE FALSE
  BY <1>1 DEF FileStep, Mutate, Trash, RestoreFromTrash, Purge, SourceChanges,
              ConsumeEvent, Backfill
<1>2. ASSUME NEW t \in Task, Expire(t) PROVE FALSE
  BY <1>2 DEF Expire
<1>3. ASSUME NEW t \in Task, NEW x \in Slots, Claim(x, t) PROVE FALSE
  BY <1>3 DEF Claim, At, TypeOK
<1>4. ASSUME NEW x \in Slots, Work(x) \/ Trouble(x) \/ Crash(x)
      PROVE  /\ x = s /\ slots[s] # Free /\ Claimed(s)' = Claimed(s)
             /\ Publish(s) \/ PublishIndex(s)
  <2>1. x = s
    BY <1>4 DEF Work, Resolve, Extract, Publish, Load, PublishIndex, Complete, Fail,
                Leave, Trouble, Crash, Goto, TypeOK
  <2>2. slots[s] # Free
    BY <1>4, <2>1 DEF Work, Resolve, Extract, Publish, Load, PublishIndex, Complete,
                      Fail, Trouble, Crash, At, Free
  <2>3. slots[s] \in Execution
    BY <2>2, Executing
  <2>4. ASSUME NEW stage \in Stage, Goto(s, stage), stage # "complete" PROVE FALSE
    BY <2>3, <2>4 DEF Goto, At, Execution, TypeOK
  <2>5. ~(Resolve(s) \/ Extract(s) \/ Load(s) \/ Trouble(s))
    BY <2>4 DEF Resolve, Extract, Load, Trouble, Stage
  <2>6. ~(Complete(s) \/ Fail(s) \/ Crash(s))
    BY DEF Complete, Fail, Leave, Crash, TypeOK
  <2>7. Publish(s) \/ PublishIndex(s)
    BY <1>4, <2>1, <2>5, <2>6 DEF Work
  <2>8. Claimed(s)' = Claimed(s)
    BY <2>3, <2>7 DEF Publish, PublishIndex, Goto, Claimed, Execution, TypeOK
  <2>9. QED BY <2>1, <2>2, <2>7, <2>8
<1>5. QED BY <1>1, <1>2, <1>3, <1>4 DEF Next

LEMMA FinishedStep ==
    ASSUME PipelineInv, Next, NEW t \in Task
    PROVE  /\ t.type = "INDEX" /\ tasks'[t].status # "NONE" => t.rev \in texts'[t.file]
           /\ tasks'[t].status = "COMPLETED" => Left(t)'
<1>. USE DEF PipelineInv
<1>0. t.file \in Files
  BY DEF Task
<1>1. CASE tasks'[t] = NoRow
  BY <1>1 DEF NoRow
<1>2. CASE Created(t)
  BY <1>2 DEF Created, NewRow, NoRow
<1>3. CASE tasks[t].status # "NONE" /\ ~Purge(t.file)
  <2>1. t.type = "INDEX" => t.rev \in texts'[t.file]
    BY <1>0, <1>3, StepKeeps DEF FinishedLeftItsResult
  <2>2. ASSUME tasks'[t].status = "COMPLETED" PROVE Left(t)
    <3>1. CASE tasks[t].status = "COMPLETED"
      BY <3>1 DEF FinishedLeftItsResult
    <3>2. CASE tasks[t].status # "COMPLETED"
      <4>1. RowChange(t)
        BY <2>2, <3>2, StepChanges
      <4>2. \E s \in Slots : LeftBy(s, t)
        BY <1>3, <2>2, <4>1 DEF RowChange, Created, Expire, Claim, TypeOK, Row
      <4>3. QED BY <2>2, <4>2 DEF LeftBy, AboutToReport
    <3>3. QED BY <3>1, <3>2
  <2>3. QED BY <1>3, <2>1, <2>2, LeftStays
<1>4. CASE tasks'[t] = tasks[t] /\ (tasks[t].status = "NONE" \/ Purge(t.file))
  BY <1>0, <1>4, <1>1 DEF Purge, TypeOK
<1>5. RowChange(t) => tasks'[t] = NoRow \/ Created(t) \/ tasks[t].status # "NONE"
  BY DEF RowChange, Expire, Claim, Claimable, LeftBy, Owns
<1>6. Purge(t.file) => tasks'[t] = NoRow
  BY DEF Purge
<1>7. QED BY <1>1, <1>2, <1>3, <1>4, <1>5, <1>6, StepChanges

LEMMA AboutToReportStep ==
    ASSUME PipelineInv, Next, NEW s \in Slots,
           slots'[s] # Free, At(s, "complete")', Owns(s)'
    PROVE  Left(Claimed(s))'
<1>. USE DEF PipelineInv
<1>1. CASE slots'[s] = slots[s]
  <2>1. slots[s] # Free /\ At(s, "complete") /\ Claimed(s)' = Claimed(s)
    BY <1>1 DEF At, Claimed
  <2>2. Claimed(s) \in Task
    BY <2>1, Executing
  <2>3. Left(Claimed(s))
    BY <1>1, <2>1, OwnedBefore DEF AboutToReport
  <2>4. ~Purge(Claimed(s).file)
    BY <2>1, <2>2 DEF Purge, Owns, NoRow
  <2>5. QED BY <2>1, <2>2, <2>3, <2>4, LeftStays
<1>2. CASE slots'[s] # slots[s]
  <2>. DEFINE t == Claimed(s)
  <2>1. slots[s] # Free /\ t' = t /\ (Publish(s) \/ PublishIndex(s))
    BY <1>2, ReadyBecause
  <2>2. t \in Task /\ t.file \in Files /\ t.rev \in Revisions
    BY <2>1, Executing
  <2>3. CASE Publish(s)
    <3>1. Owns(s) /\ IsCurrent(t)
      <4>1. slots[s] \in Execution
        BY <2>1, Executing
      <4>2. ~Goto(s, "stale")
        BY <4>1 DEF Goto, At, Execution, TypeOK
      <4>3. QED BY <2>3, <4>2 DEF Publish
    <3>2. Index(t.file, t.rev) \in Task
      BY <2>2, KeyType
    <3>3. tasks'[Index(t.file, t.rev)].status # "NONE"
      BY <2>3, <3>1, <3>2 DEF Publish, WithTask, NewRow, NoRow, TypeOK
    <3>4. t.type = "TEXT"
      BY <2>1, <2>3 DEF StageFits, Publish, At
    <3>5. QED BY <2>1, <3>3, <3>4 DEF Left, Index
  <2>4. CASE PublishIndex(s)
    <3>1. Owns(s) /\ IsCurrent(t)
      <4>1. slots[s] \in Execution
        BY <2>1, Executing
      <4>2. ~Goto(s, "stale")
        BY <4>1 DEF Goto, At, Execution, TypeOK
      <4>3. QED BY <2>4, <4>2 DEF PublishIndex
    <3>2. indexed'[t.file] = t.rev
      BY <2>2, <2>4, <3>1 DEF PublishIndex, TypeOK
    <3>3. t.type = "INDEX"
      BY <2>1, <2>4 DEF StageFits, PublishIndex, At
    <3>4. QED BY <2>1, <2>2, <3>2, <3>3 DEF Left
  <2>5. QED BY <2>1, <2>3, <2>4
<1>3. QED BY <1>1, <1>2

LEMMA PipelineInvStep == PipelineInv /\ [Next]_vars => PipelineInv'
<1>1. CASE UNCHANGED vars
  BY <1>1 DEF vars, PipelineInv, TypeOK, NotAhead, StageFits, FinishedLeftItsResult,
              AboutToReport, Left, Claimed, At, Owns
<1>2. ASSUME PipelineInv, Next PROVE PipelineInv'
  <2>1. TypeOK' /\ NotAhead' /\ StageFits'
    BY <1>2, NextType, NotAheadStep, StageFitsStep DEF PipelineInv
  <2>2. FinishedLeftItsResult'
    BY <1>2, FinishedStep DEF FinishedLeftItsResult
  <2>3. AboutToReport'
    BY <1>2, AboutToReportStep DEF AboutToReport
  <2>4. QED BY <2>1, <2>2, <2>3 DEF PipelineInv
<1>3. QED BY <1>1, <1>2

\* An index task always finds the text it is to read, and a task completed as
\* current has left the next task or an index at least as recent, with any
\* number of executions, claims that ran out, crashes and purges.
THEOREM FinishedTasksLeftTheirResult == Spec => []FinishedLeftItsResult
<1>1. Init => PipelineInv
  <2>1. Init => NotAhead /\ StageFits /\ AboutToReport
    BY DEF Init, NotAhead, StageFits, AboutToReport
  <2>2. Init => FinishedLeftItsResult
    BY DEF Init, FinishedLeftItsResult, NoRow
  <2>3. QED BY <2>1, <2>2, InitType DEF PipelineInv
<1>2. PipelineInv => FinishedLeftItsResult
  BY DEF PipelineInv
<1>3. QED BY <1>1, <1>2, PipelineInvStep, PTL DEF Spec

---------------------------------------------------------------------------
(* Whoever lost its claim is harmless *)

\* An unexpired claim changes by its holder's own step only.
LEMMA HeldRowChanges ==
    ASSUME TypeOK, Next, NEW s \in Slots, slots[s] # Free, Owns(s),
           NEW t, t = Claimed(s), tasks'[t] # tasks[t]
    PROVE  \/ tasks'[t].expired \/ slots'[s] # slots[s]
           \/ place'[t.file] = "purged"
<1>1. t \in Task /\ t.file \in Files /\ tasks[t] \in Row
  BY Executing DEF TypeOK
<1>2. tasks[t].status = "PROCESSING" /\ tasks[t].holder = s /\ ~tasks[t].expired
  BY DEF Owns
<1>3. CASE Purge(t.file)
  BY <1>1, <1>3, PurgeStep
<1>4. CASE Expire(t)
  BY <1>1, <1>4 DEF Expire, TypeOK, Row
<1>5. ~Created(t) /\ \A x \in Slots : ~Claim(x, t)
  BY <1>2 DEF Created, Claim, Claimable
<1>6. ASSUME NEW x \in Slots, LeftBy(x, t) PROVE slots'[s] # slots[s]
  BY <1>2, <1>6 DEF LeftBy, Owns
<1>7. QED BY <1>1, <1>3, <1>4, <1>5, <1>6, StepChanges DEF RowChange

LEMMA SettledRowStays ==
    ASSUME TypeOK, Next, NEW t \in Task, tasks[t].status \in Settled,
           tasks'[t] # tasks[t]
    PROVE  place'[t.file] = "purged"
<1>1. t.file \in Files
  BY DEF Task
<1>2. ~Created(t) /\ ~Expire(t)
  BY DEF Settled, Created, Expire
<1>3. \A s \in Slots : ~Claim(s, t) /\ ~LeftBy(s, t)
  BY DEF Settled, Claim, Claimable, LeftBy, Owns
<1>4. Purge(t.file)
  BY <1>2, <1>3, StepChanges DEF RowChange
<1>5. QED BY <1>1, <1>4, PurgeStep

\* An execution that goes on after its lease ran out, with however many others
\* holding the task since, changes nothing: a running claim ends by its holder's
\* step only, and what was settled stays settled.
THEOREM LateHoldersAreHarmless == Spec => LateHolderIsHarmless
<1>. DEFINE Harmless ==
       /\ \A s \in Slots : slots[s] # Free =>
            LET row == tasks[Claimed(s)]
                next == tasks'[Claimed(s)] IN
            row.status = "PROCESSING" /\ row.holder = s /\ ~row.expired =>
                \/ next = row \/ next.expired \/ slots'[s] # slots[s]
                \/ place'[Claimed(s).file] = "purged"
       /\ \A t \in Task : tasks[t].status \in Settled =>
            tasks'[t] = tasks[t] \/ place'[t.file] = "purged"
<1>1. TypeOK /\ [Next]_vars => [Harmless]_vars
  <2>. SUFFICES ASSUME TypeOK, Next PROVE Harmless
    OBVIOUS
  <2>1. ASSUME NEW s \in Slots, slots[s] # Free, Owns(s),
               tasks'[Claimed(s)] # tasks[Claimed(s)]
        PROVE  \/ tasks'[Claimed(s)].expired \/ slots'[s] # slots[s]
               \/ place'[Claimed(s).file] = "purged"
    BY <2>1, HeldRowChanges
  <2>2. ASSUME NEW t \in Task, tasks[t].status \in Settled
        PROVE  tasks'[t] = tasks[t] \/ place'[t.file] = "purged"
    BY <2>2, SettledRowStays
  <2>3. QED BY <2>1, <2>2 DEF Owns
<1>2. QED BY <1>1, TypeCorrect, PTL DEF Spec, LateHolderIsHarmless
=============================================================================
