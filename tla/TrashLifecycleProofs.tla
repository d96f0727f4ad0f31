------------------------ MODULE TrashLifecycleProofs ------------------------
(***************************************************************************)
(* Whatever is trashed, nested, moved, created, restored and purged at     *)
(* once, marks and operations agree and a visible file has its objects:    *)
(* for any tree, any number of operations, writers and purges.             *)
(*                                                                         *)
(* Every argument about ancestors is one about sets closed under parents,  *)
(* so that none needs induction over the depth of the tree.                *)
(***************************************************************************)
EXTENDS TrashLifecycle, TLAPS

\* A node nobody has drawn stands alone; a live node is in a live folder.
TreeFits ==
    /\ \A n \in Nodes : row[n] = "free" => parent[n] = Top /\ mark[n] = NoOp
    /\ \A f \in Files : row[f] = "free" => versions[f] = {}
    /\ \A n \in There : parent[n] \in There \cup {Top}
    /\ \A o \in Ops : ops[o].status = "PURGED" => ops[o].root = Top

\* MarksMatchOperations, operation by operation.
MarkFits(n, o) == mark[n] = o => Open(o) /\ ops[o].root \in Above(n)
RootFits(o) ==
    Open(o) /\ ops[o].root # Top =>
        /\ ops[o].root \in There
        /\ mark[ops[o].root] = o
        /\ parent[ops[o].root] = ops[o].origin
MarksFit == \A o \in Ops : RootFits(o) /\ \A n \in There : MarkFits(n, o)

\* A file whose objects a purge may delete.
Lost(f) ==
    \/ row[f] = "gone"
    \/ \E o \in Ops : ops[o].status = "PURGING" /\ ops[o].root \in Above(f)

WriterFits(w) ==
    /\ writer[w].pc # "idle" => writer[w].node \in Nodes
    /\ writer[w].pc = "insert" => row[writer[w].node] = "free"
    /\ writer[w].pc = "version" => row[writer[w].node] # "free"
    /\ writer[w].pc = "remove" => writer[w].node \in Files
    /\ \A k \in writer[w].keys :
          /\ writer[w].pc # "idle" /\ k[1] = writer[w].node
          /\ row[k[1]] # "gone" => k \in stored /\ k[2] \notin versions[k[1]]

\* What one write has begun nobody else begins.
WritersApart ==
    \A v, w \in Writers : v # w =>
        /\ writer[v].keys \cap writer[w].keys = {}
        /\ writer[v].pc = "insert" /\ writer[w].pc = "insert" =>
              writer[v].node # writer[w].node

PurgeFits(p) ==
    /\ purge[p].pc # "idle" => purge[p].op \in Ops
    /\ purge[p].pc \in {"discover", "delete"} =>
          ops[purge[p].op].status \in {"PURGING", "PURGED"}
    /\ \A k \in purge[p].keys :
          /\ row[k[1]] # "free" /\ Lost(k[1])
          /\ row[k[1]] # "gone" => k[2] \in versions[k[1]]

ContentFits == \A f \in Files \cap There : KeysOf({f}) \subseteq stored \/ Lost(f)

TrashInv ==
    /\ TreeFits
    /\ MarksFit
    /\ \A w \in Writers : WriterFits(w)
    /\ WritersApart
    /\ \A p \in Purgers : PurgeFits(p)
    /\ ContentFits

---------------------------------------------------------------------------
(* Ancestors *)

LEMMA AboveIs ==
    ASSUME parent \in [Nodes -> Folders \cup {Top}], NEW n \in Nodes
    PROVE  /\ Above(n) \subseteq Nodes /\ n \in Above(n) /\ Upward(Above(n))
           /\ \A S \in SUBSET Nodes : n \in S /\ Upward(S) => Above(n) \subseteq S
<1>1. Above(n) \subseteq Nodes /\ n \in Above(n)
  BY DEF Above
<1>2. ASSUME NEW m \in Above(n), parent[m] # Top PROVE parent[m] \in Above(n)
  <2>1. m \in Nodes /\ parent[m] \in Nodes
    BY <1>1, <1>2 DEF Nodes
  <2>2. ASSUME NEW S \in SUBSET Nodes, n \in S, Upward(S) PROVE parent[m] \in S
    BY <1>2, <2>2 DEF Above, Upward
  <2>3. QED BY <2>1, <2>2 DEF Above
<1>3. QED BY <1>1, <1>2 DEF Above, Upward

LEMMA AboveTransitive ==
    ASSUME parent \in [Nodes -> Folders \cup {Top}], NEW n \in Nodes, NEW m \in Above(n)
    PROVE  m \in Nodes /\ Above(m) \subseteq Above(n)
BY AboveIs

\* A file has nothing below it.
LEMMA FileAbove ==
    ASSUME parent \in [Nodes -> Folders \cup {Top}], NEW f \in Files, NEW n \in Nodes,
           f \in Above(n)
    PROVE  n = f
<1>1. SUFFICES ASSUME n # f PROVE FALSE
  OBVIOUS
<1>2. Upward(Nodes \ {f})
  BY ConstantsAssumption DEF Upward, Nodes
<1>3. QED BY <1>1, <1>2, AboveIs

LEMMA AboveThere ==
    ASSUME TypeOK, TreeFits, NEW n \in There
    PROVE  Above(n) \subseteq There
<1>1. There \subseteq Nodes /\ Upward(There)
  BY DEF There, TreeFits, Upward
<1>2. QED BY <1>1, AboveIs DEF TypeOK

\* An ancestor stays one when the parents that change are those of a set closed
\* under them which it is not in.
LEMMA AboveKept ==
    ASSUME parent \in [Nodes -> Folders \cup {Top}],
           NEW n \in Nodes, NEW m \in Above(n), NEW B \in SUBSET Nodes, Upward(B), m \notin B,
           \A k \in Nodes \ B : parent'[k] = parent[k]
    PROVE  m \in Above(n)'
<1>1. m \in Nodes
  BY AboveIs
<1>2. ASSUME NEW S \in SUBSET Nodes, n \in S, \A k \in S : parent'[k] \in S \cup {Top}
      PROVE  m \in S
  <2>1. Upward(S \cup B)
    BY <1>2 DEF Upward
  <2>2. m \in S \cup B
    BY <1>2, <2>1, AboveIs
  <2>3. QED BY <2>2
<1>3. QED BY <1>1, <1>2 DEF Above, Upward

LEMMA AboveSame ==
    ASSUME UNCHANGED parent, NEW n
    PROVE  Above(n)' = Above(n)
BY DEF Above, Upward

\* Nothing below the root of an open operation is shown.
LEMMA Hidden ==
    ASSUME TypeOK, MarksFit, NEW o \in Ops, Open(o), NEW n \in Nodes,
           ops[o].root \in Above(n)
    PROVE  ~Visible(n) /\ mark[ops[o].root] = o /\ ops[o].root \in There
<1>1. ops[o].root \in Nodes
  BY AboveIs DEF TypeOK
<1>2. ops[o].root # Top /\ o # NoOp
  BY <1>1, ConstantsAssumption
<1>3. mark[ops[o].root] = o /\ ops[o].root \in There
  BY <1>2 DEF MarksFit, RootFits
<1>4. QED BY <1>2, <1>3 DEF Visible

---------------------------------------------------------------------------
(* Types *)

LEMMA ForgetIs ==
    ASSUME NEW op \in Operation, NEW nodes
    PROVE  /\ Forget(op, nodes) \in Operation
           /\ Forget(op, nodes).status = op.status
           /\ Forget(op, nodes).root = (IF op.root \in nodes THEN Top ELSE op.root)
           /\ Forget(op, nodes).origin = (IF op.origin \in nodes THEN Top ELSE op.origin)
           /\ [Forget(op, nodes) EXCEPT !.status = "PURGED"] \in Operation
           /\ [Forget(op, nodes) EXCEPT !.status = "PURGED"].status = "PURGED"
           /\ [Forget(op, nodes) EXCEPT !.status = "PURGED"].root = Forget(op, nodes).root
<1>. DEFINE forgotten == Forget(op, nodes)
            r == IF op.root \in nodes THEN Top ELSE op.root
            g == IF op.origin \in nodes THEN Top ELSE op.origin
<1>1. forgotten = [op EXCEPT !.root = r, !.origin = g]
  BY DEF Forget
<1>2. r \in Nodes \cup {Top} /\ g \in Nodes \cup {Top}
  BY DEF Operation
<1>. HIDE DEF forgotten, r, g
<1>3. /\ forgotten \in Operation /\ forgotten.status = op.status
      /\ forgotten.root = r /\ forgotten.origin = g
  BY <1>1, <1>2 DEF Operation
<1>4. /\ [forgotten EXCEPT !.status = "PURGED"] \in Operation
      /\ [forgotten EXCEPT !.status = "PURGED"].status = "PURGED"
      /\ [forgotten EXCEPT !.status = "PURGED"].root = forgotten.root
  BY <1>3 DEF Operation
<1>5. QED BY <1>3, <1>4 DEF forgotten, r, g

\* A purge that goes on to another step.
LEMMA PurgeMoves ==
    ASSUME TypeOK, NEW p \in Purgers, NEW call \in Purge, purge' = [purge EXCEPT ![p] = call]
    PROVE  purge' \in [Purgers -> Purge] /\ purge'[p] = call
           /\ \A q \in Purgers \ {p} : purge'[q] = purge[q]
BY DEF TypeOK

LEMMA CallSet ==
    ASSUME NEW call \in Purge, NEW pc, NEW keys
    PROVE  /\ [call EXCEPT !.pc = pc] = [pc |-> pc, op |-> call.op, keys |-> call.keys]
           /\ [call EXCEPT !.keys = keys] = [pc |-> call.pc, op |-> call.op, keys |-> keys]
<1>1. [call EXCEPT !.pc = pc] = [pc |-> pc, op |-> call.op, keys |-> call.keys]
  BY DEF Purge
<1>2. [call EXCEPT !.keys = keys] = [pc |-> call.pc, op |-> call.op, keys |-> keys]
  BY DEF Purge
<1>3. QED BY <1>1, <1>2

LEMMA TreeStepType ==
    ASSUME TypeOK, TreeStep
    PROVE  TypeOK'
<1>1. ASSUME NEW n \in Nodes, NEW d \in Folders \cup {Top}, Move(n, d) \/ AddDriveFile(n, d)
      PROVE  TypeOK'
  BY <1>1 DEF Move, AddDriveFile, TypeOK, content, retention
<1>2. ASSUME NEW o \in Ops, Restore(o) \/ Expire(o) PROVE TypeOK'
  <2>1. ops[o] \in Operation
    BY DEF TypeOK
  <2>2. /\ [ops[o] EXCEPT !.status = "RESTORED"] \in Operation
        /\ [ops[o] EXCEPT !.expired = TRUE] \in Operation
    BY <2>1 DEF Operation
  <2>3. ops' \in [Ops -> Operation]
    <3>1. \/ ops' = [ops EXCEPT ![o] = [ops[o] EXCEPT !.status = "RESTORED"]]
          \/ ops' = [ops EXCEPT ![o] = [ops[o] EXCEPT !.expired = TRUE]]
      BY <1>2 DEF Restore, Expire
    <3>2. QED BY <2>2, <3>1 DEF TypeOK
  <2>4. QED BY <1>2, <2>3 DEF Restore, Expire, TypeOK, tree, content, retention
<1>3. ASSUME NEW o \in Ops, NEW n \in Nodes, Trash(n, o) PROVE TypeOK'
  <2>1. [status |-> "ACTIVE", root |-> n, origin |-> parent[n], expired |-> FALSE] \in Operation
    BY DEF TypeOK, Operation, Nodes
  <2>2. ops' \in [Ops -> Operation]
    BY <1>3, <2>1 DEF Trash, TypeOK
  <2>3. mark' \in [Nodes -> Ops \cup {NoOp}]
    BY <1>3 DEF Trash, TypeOK
  <2>4. QED BY <1>3, <2>2, <2>3 DEF Trash, TypeOK, content, retention
<1>4. ASSUME NEW f \in Files, RecordMigration(f) PROVE TypeOK'
  BY <1>4 DEF RecordMigration, TypeOK, tree, retention
<1>5. QED BY <1>1, <1>2, <1>3, <1>4 DEF TreeStep

LEMMA WithVersionsType ==
    ASSUME TypeOK, NEW keys \in SUBSET Keys
    PROVE  WithVersions(keys) \in [Files -> SUBSET Versions]
BY DEF TypeOK, WithVersions, Keys

LEMMA WriteStepType ==
    ASSUME TypeOK, NEW w \in Writers, WriteStep(w)
    PROVE  TypeOK'
<1>1. /\ writer[w] \in Write /\ writer[w].node \in Nodes \cup {Top}
      /\ writer[w].keys \in SUBSET Keys
  BY DEF TypeOK, Write
<1>2. NoWrite \in Write
  BY DEF NoWrite, Write
<1>3. ASSUME NEW write \in Write, Begin(w, write) PROVE TypeOK'
  BY <1>3 DEF Begin, TypeOK, Write, tree, retention
<1>4. ASSUME NEW n \in Nodes, NEW d \in Folders \cup {Top}, CreateCheck(w, n, d) PROVE TypeOK'
  <2>1. [pc |-> "insert", node |-> n, at |-> d, keys |-> {k \in Keys : k = <<n, 1>>}] \in Write
    BY DEF Write, Nodes
  <2>2. QED BY <1>3, <1>4, <2>1 DEF CreateCheck
<1>5. ASSUME NEW n \in Nodes, VersionCheck(w, n) \/ RemoveCheck(w, n) PROVE TypeOK'
  <2>1. \A v \in Versions : n \in Files =>
          [pc |-> "version", node |-> n, at |-> Top, keys |-> {<<n, v>>}] \in Write
    BY DEF Write, Keys
  <2>2. [pc |-> "remove", node |-> n, at |-> Top, keys |-> {}] \in Write
    BY DEF Write
  <2>3. QED BY <1>3, <1>5, <2>1, <2>2 DEF VersionCheck, RemoveCheck
<1>6. CASE Insert(w)
  <2>1. writer[w].at \in Folders \cup {Top}
    BY DEF TypeOK, Write
  <2>2. QED BY <1>1, <1>2, <1>6, <2>1, WithVersionsType DEF Insert, Done, TypeOK, retention
<1>7. CASE AddVersion(w)
  BY <1>1, <1>2, <1>7, WithVersionsType DEF AddVersion, Done, TypeOK, tree, retention
<1>8. CASE RemoveNode(w)
  <2>1. ops' \in [Ops -> Operation]
    <3>1. ops' = [o \in Ops |-> Forget(ops[o], {writer[w].node})]
      BY <1>8 DEF RemoveNode
    <3>2. ASSUME NEW o \in Ops PROVE Forget(ops[o], {writer[w].node}) \in Operation
      <4>1. ops[o] \in Operation
        BY DEF TypeOK
      <4>2. QED BY <4>1, ForgetIs
    <3>3. QED BY <3>1, <3>2
  <2>2. QED BY <1>2, <1>8, <2>1 DEF RemoveNode, Done, TypeOK, content, retention
<1>9. CASE GiveUp(w)
  BY <1>2, <1>9 DEF GiveUp, Done, TypeOK, tree, retention
<1>10. QED BY <1>4, <1>5, <1>6, <1>7, <1>8, <1>9 DEF WriteStep

LEMMA PurgeStepType ==
    ASSUME TypeOK, NEW p \in Purgers,
           \/ PurgeStep(p) \/ Setback(p) \/ TakeCandidate(p)
           \/ \E o \in Ops : AskPurge(p, o)
    PROVE  TypeOK'
<1>1. /\ purge[p] \in Purge /\ purge[p].op \in Ops \cup {NoOp} /\ purge[p].keys \subseteq Keys
      /\ purge \in [Purgers -> Purge] /\ ops \in [Ops -> Operation]
  BY DEF TypeOK, Purge
<1>2. ASSUME Ends(p) PROVE purge' \in [Purgers -> Purge]
  <2>1. NoPurge \in Purge
    BY DEF NoPurge, Purge
  <2>2. QED BY <1>1, <1>2, <2>1 DEF Ends
<1>3. ASSUME NEW o \in Ops, AskPurge(p, o) PROVE TypeOK'
  <2>1. [pc |-> "claim", op |-> o, keys |-> {}] \in Purge
    BY DEF Purge
  <2>2. QED BY <1>3, <2>1 DEF AskPurge, TypeOK, tree, content, retention
<1>4. CASE TakeCandidate(p)
  <2>1. Head(batch) \in Ops /\ Tail(batch) \in Seq(Ops) /\ Len(Tail(batch)) <= BatchSize
    BY <1>4, ConstantsAssumption DEF TakeCandidate, TypeOK
  <2>2. [pc |-> "claim", op |-> Head(batch), keys |-> {}] \in Purge
    BY <2>1 DEF Purge
  <2>3. cursor' \in 0 .. LastOp
    BY <1>4, <2>1 DEF TakeCandidate, Ops
  <2>4. QED BY <1>4, <2>1, <2>2, <2>3 DEF TakeCandidate, TypeOK, tree, content
<1>5. CASE Claim(p)
  <2>1. [purge[p] EXCEPT !.pc = "discover"] \in Purge
    BY <1>1 DEF Purge
  <2>2. purge' \in [Purgers -> Purge]
    BY <1>1, <1>2, <1>5, <2>1 DEF Claim
  <2>3. ops' \in [Ops -> Operation]
    <3>1. ASSUME NEW o \in Ops PROVE [ops[o] EXCEPT !.status = "PURGING"] \in Operation
      BY <1>1 DEF Operation
    <3>2. \/ UNCHANGED ops
          \/ ops' = [ops EXCEPT ![purge[p].op] = [ops[purge[p].op] EXCEPT !.status = "PURGING"]]
      BY <1>5 DEF Claim
    <3>3. QED BY <1>1, <3>1, <3>2
  <2>4. QED BY <1>5, <2>2, <2>3 DEF Claim, TypeOK, tree, content, retention
<1>6. CASE Discover(p)
  <2>1. ASSUME NEW keys \in SUBSET Keys
        PROVE  [pc |-> "delete", op |-> purge[p].op, keys |-> keys] \in Purge
    BY <1>1 DEF Purge
  <2>2. KeysOf(Subtree(ops[purge[p].op].root)) \in SUBSET Keys
    BY DEF KeysOf
  <2>3. purge' \in [Purgers -> Purge]
    BY <1>1, <1>2, <1>6, <2>1, <2>2 DEF Discover
  <2>4. QED BY <1>6, <2>3 DEF Discover, TypeOK, tree, content, retention
<1>7. CASE DeleteObject(p)
  <2>1. ASSUME NEW k PROVE [purge[p] EXCEPT !.keys = @ \ {k}] \in Purge
    BY <1>1 DEF Purge
  <2>2. PICK k \in purge[p].keys : /\ stored' = stored \ {k}
                                   /\ purge' = [purge EXCEPT ![p].keys = @ \ {k}]
    BY <1>7 DEF DeleteObject
  <2>3. purge' = [purge EXCEPT ![p] = [purge[p] EXCEPT !.keys = @ \ {k}]]
    BY <2>2
  <2>4. purge' \in [Purgers -> Purge]
    BY <1>1, <2>1, <2>3
  <2>5. QED BY <1>7, <2>2, <2>4 DEF DeleteObject, TypeOK, tree, retention
<1>8. CASE Setback(p)
  BY <1>2, <1>8 DEF Setback, DeletionFails, Interrupted, TypeOK, tree, content, retention
<1>9. CASE Finalize(p)
  <2>1. ops' \in [Ops -> Operation]
    <3>1. CASE UNCHANGED ops
      BY <1>1, <3>1
    <3>2. CASE ~UNCHANGED ops
      <4>. DEFINE nodes == Subtree(ops[purge[p].op].root)
      <4>1. ops' = [x \in Ops |->
                IF ops[x].root \in nodes /\ Open(x)
                  THEN [Forget(ops[x], nodes) EXCEPT !.status = "PURGED"]
                  ELSE Forget(ops[x], nodes)]
        BY <1>9, <3>2 DEF Finalize
      <4>. HIDE DEF nodes
      <4>2. ASSUME NEW x \in Ops
            PROVE  /\ [Forget(ops[x], nodes) EXCEPT !.status = "PURGED"] \in Operation
                   /\ Forget(ops[x], nodes) \in Operation
        BY <1>1, ForgetIs
      <4>3. QED BY <4>1, <4>2
    <3>3. QED BY <3>1, <3>2
  <2>2. /\ row' \in [Nodes -> {"free", "there", "gone"}]
        /\ mark' \in [Nodes -> Ops \cup {NoOp}]
        /\ versions' \in [Files -> SUBSET Versions]
    BY <1>9 DEF Finalize, TypeOK
  <2>3. QED BY <1>2, <1>9, <2>1, <2>2 DEF Finalize, TypeOK, retention
<1>10. QED BY <1>3, <1>4, <1>5, <1>6, <1>7, <1>8, <1>9 DEF PurgeStep

LEMMA TypeInit == Init => TypeOK
<1>. SUFFICES ASSUME Init PROVE TypeOK
  OBVIOUS
<1>1. NoWrite \in Write /\ NoPurge \in Purge /\ Unused \in Operation
  BY DEF NoWrite, Write, NoPurge, Purge, Unused, Operation
<1>2. /\ \A f \in Files : versions[f] \subseteq Versions
      /\ stored \subseteq Keys /\ cursor \in 0 .. LastOp /\ Len(<<>>) <= BatchSize
  BY ConstantsAssumption DEF Init, Versions
<1>3. QED BY <1>1, <1>2 DEF Init, TypeOK

LEMMA TypeNext == TypeOK /\ [Next]_vars => TypeOK'
<1>. SUFFICES ASSUME TypeOK, [Next]_vars PROVE TypeOK'
  OBVIOUS
<1>1. CASE Select
  <2>1. \A b \in Selection : b \in Seq(Ops) /\ Len(b) <= BatchSize
    BY ConstantsAssumption DEF Selection, From
  <2>2. QED BY <1>1, <2>1 DEF Select, TypeOK, tree, content
<1>2. CASE Restart
  <2>1. NoPurge \in Purge
    BY DEF NoPurge, Purge
  <2>2. QED BY <1>2, <2>1, ConstantsAssumption DEF Restart, TypeOK, tree, content
<1>3. CASE UNCHANGED vars
  BY <1>3 DEF vars, tree, content, retention, TypeOK
<1>4. QED
  BY <1>1, <1>2, <1>3, TreeStepType, WriteStepType, PurgeStepType DEF Next

\* Every table, purge and write keeps its type.
THEOREM TrashTypes == Spec => []TypeOK
BY TypeInit, TypeNext, PTL DEF Spec

---------------------------------------------------------------------------
(* The tree and its marks *)

\* What is gone stays gone, what may be deleted stays so, and no purge is undone.
Onward ==
    /\ \A n \in Nodes : /\ row[n] = "gone" => row'[n] = "gone"
                        /\ row[n] # "free" => row'[n] # "free"
    /\ \A f \in Files : row[f] # "free" /\ Lost(f) => Lost(f)'
    /\ \A o \in Ops : ops[o].status \in {"PURGING", "PURGED"} =>
                      ops'[o].status \in {"PURGING", "PURGED"}

TreeHolds == TreeFits' /\ MarksFit' /\ Onward

LEMMA RootIs ==
    ASSUME TypeOK, MarksFit, NEW o \in Ops, Open(o), ops[o].root # Top
    PROVE  /\ o # NoOp /\ ops[o].root \in There /\ ops[o].root \in Nodes
           /\ mark[ops[o].root] = o /\ parent[ops[o].root] = ops[o].origin
           /\ ops[o].origin \in Folders \cup {Top}
BY ConstantsAssumption DEF MarksFit, RootFits, There, TypeOK

\* Steps that leave rows, parents and marks, and every operation where it is.
LEMMA QuietHolds ==
    ASSUME TypeOK, TreeFits, MarksFit, UNCHANGED <<row, parent, mark>>,
           \A f \in Files : row[f] = "free" => versions'[f] = {},
           \A o \in Ops :
              /\ ops'[o].root = ops[o].root /\ ops'[o].origin = ops[o].origin
              /\ Open(o)' <=> Open(o)
              /\ ops[o].status = "PURGING" => ops'[o].status = "PURGING"
              /\ ops[o].status = "PURGED" <=> ops'[o].status = "PURGED"
    PROVE  TreeHolds
<1>1. There' = There /\ \A n : Above(n)' = Above(n)
  BY AboveSame DEF There
<1>2. TreeFits'
  BY <1>1 DEF TreeFits
<1>3. ASSUME NEW o \in Ops PROVE RootFits(o)'
  BY <1>1 DEF MarksFit, RootFits, Open
<1>4. ASSUME NEW o \in Ops, NEW n \in There' PROVE MarkFits(n, o)'
  BY <1>1 DEF MarksFit, MarkFits
<1>5. \A f \in Files : Lost(f) => Lost(f)'
  BY <1>1 DEF Lost
<1>6. QED BY <1>2, <1>3, <1>4, <1>5 DEF TreeHolds, Onward, MarksFit

\* One node is given a folder: the nodes of a set closed under parents, the node
\* among them and no root of an operation, may lie below others than before.
LEMMA ReparentHolds ==
    ASSUME TypeOK, TypeOK', TreeFits, MarksFit, UNCHANGED <<mark, ops>>,
           NEW n \in Nodes, NEW d \in There \cup {Top},
           parent' = [parent EXCEPT ![n] = d],
           row[n] # "gone", row' = [row EXCEPT ![n] = "there"],
           \A f \in Files : row'[f] = "free" => versions'[f] = {},
           NEW B \in SUBSET Nodes, Upward(B), n \in B,
           \A o \in Ops : Open(o) => ops[o].root \notin B
    PROVE  TreeHolds
<1>1. /\ There' = There \cup {n} /\ parent'[n] = d
      /\ \A k \in Nodes \ {n} : row'[k] = row[k] /\ parent'[k] = parent[k]
      /\ parent \in [Nodes -> Folders \cup {Top}] /\ There \subseteq Nodes
  BY DEF There, TypeOK
<1>2. TreeFits'
  BY <1>1 DEF TreeFits, There
<1>3. ASSUME NEW o \in Ops PROVE RootFits(o)'
  BY <1>1, RootIs DEF MarksFit, RootFits, Open
<1>4. ASSUME NEW o \in Ops, Open(o), NEW k \in Nodes, ops[o].root \in Above(k)
      PROVE  ops[o].root \in Above(k)'
  BY <1>1, <1>4, AboveKept
<1>5. ASSUME NEW o \in Ops, NEW k \in There' PROVE MarkFits(k, o)'
  <2>1. CASE k \in There
    BY <1>1, <1>4, <2>1 DEF MarksFit, MarkFits, Open
  <2>2. CASE k \notin There
    BY <1>1, <2>2, ConstantsAssumption DEF TreeFits, MarkFits, There, TypeOK
  <2>3. QED BY <2>1, <2>2
<1>6. ASSUME NEW f \in Files, row[f] # "free", Lost(f) PROVE Lost(f)'
  BY <1>1, <1>4, <1>6 DEF Lost, Open, Nodes
<1>7. QED BY <1>1, <1>2, <1>3, <1>5, <1>6 DEF TreeHolds, Onward, MarksFit

LEMMA VisibleIs ==
    ASSUME TypeOK, TreeFits, MarksFit, NEW n \in Nodes, Visible(n)
    PROVE  /\ n \in There /\ mark[n] = NoOp
           /\ \A o \in Ops : Open(o) => ops[o].root \notin Above(n)
BY AboveIs, Hidden DEF Visible, TypeOK

LEMMA OpenFolderIs ==
    ASSUME NEW d, OpenFolder(d)
    PROVE  d \in (There \cap Folders) \cup {Top}
BY DEF OpenFolder, Visible

\* A new node is given a folder.
LEMMA CreateHolds ==
    ASSUME TypeOK, TypeOK', TreeFits, MarksFit, UNCHANGED <<mark, ops>>,
           NEW n \in Nodes, NEW d \in There \cup {Top},
           parent' = [parent EXCEPT ![n] = d],
           row[n] = "free", row' = [row EXCEPT ![n] = "there"],
           \A f \in Files : row'[f] = "free" => versions'[f] = {}
    PROVE  TreeHolds
<1>1. parent[n] = Top /\ n \notin There
  BY DEF TreeFits, There
<1>2. Upward({n})
  BY <1>1 DEF Upward
<1>3. \A o \in Ops : Open(o) => ops[o].root \notin {n}
  BY <1>1, RootIs, ConstantsAssumption
<1>4. QED BY <1>2, <1>3, ReparentHolds

LEMMA MoveHolds ==
    ASSUME TypeOK, TypeOK', TreeFits, MarksFit, NEW n \in Nodes, NEW d \in Folders \cup {Top},
           Move(n, d)
    PROVE  TreeHolds
<1>1. /\ Visible(n) /\ d \in There \cup {Top} /\ UNCHANGED <<row, mark, ops, versions>>
      /\ parent' = [parent EXCEPT ![n] = d]
  BY OpenFolderIs DEF Move, content
<1>2. row[n] = "there" /\ row' = [row EXCEPT ![n] = "there"]
  BY <1>1, VisibleIs DEF There, TypeOK
<1>3. /\ Above(n) \in SUBSET Nodes /\ Upward(Above(n)) /\ n \in Above(n)
      /\ \A o \in Ops : Open(o) => ops[o].root \notin Above(n)
  BY <1>1, AboveIs, VisibleIs DEF TypeOK
<1>4. \A f \in Files : row'[f] = "free" => versions'[f] = {}
  BY <1>1 DEF TreeFits
<1>5. QED BY <1>1, <1>2, <1>3, <1>4, ReparentHolds

LEMMA AddDriveFileHolds ==
    ASSUME TypeOK, TypeOK', TreeFits, MarksFit, NEW n \in Nodes, NEW d \in Folders \cup {Top},
           AddDriveFile(n, d)
    PROVE  TreeHolds
<1>1. /\ d \in There \cup {Top} /\ UNCHANGED <<mark, ops, versions>> /\ row[n] = "free"
      /\ parent' = [parent EXCEPT ![n] = d] /\ row' = [row EXCEPT ![n] = "there"]
  BY OpenFolderIs DEF AddDriveFile, content, Fresh
<1>2. \A f \in Files : row'[f] = "free" => versions'[f] = {}
  BY <1>1 DEF TreeFits, TypeOK, Nodes
<1>3. QED BY <1>1, <1>2, CreateHolds

LEMMA TrashHolds ==
    ASSUME TypeOK, TypeOK', TreeFits, MarksFit, NEW n \in Nodes, NEW o \in Ops, Trash(n, o)
    PROVE  TreeHolds
<1>1. /\ Visible(n) /\ ops[o].status = "NONE" /\ UNCHANGED <<row, parent, versions>>
      /\ mark' = [m \in Nodes |-> IF m \in Subtree(n) /\ mark[m] = NoOp THEN o ELSE mark[m]]
  BY DEF Trash, content
<1>2. /\ ops'[o].status = "ACTIVE" /\ ops'[o].root = n /\ ops'[o].origin = parent[n]
      /\ \A q \in Ops \ {o} : ops'[q] = ops[q]
  BY DEF Trash, TypeOK
<1>3. /\ There' = There /\ There \subseteq Nodes /\ \A k : Above(k)' = Above(k)
      /\ n \in There /\ n \in Above(n) /\ mark[n] = NoOp
  BY <1>1, AboveSame, VisibleIs, AboveIs DEF There, TypeOK
<1>4. TreeFits'
  <2>1. \A m \in Nodes : row[m] = "free" => mark'[m] = mark[m]
    BY <1>1 DEF Subtree, There
  <2>2. QED BY <1>1, <1>2, <1>3, <2>1 DEF TreeFits
<1>5. ASSUME NEW q \in Ops PROVE RootFits(q)'
  <2>1. CASE q = o
    BY <1>1, <1>2, <1>3, <2>1 DEF RootFits, Subtree
  <2>2. CASE q # o
    BY <1>1, <1>2, <1>3, <2>2, RootIs DEF RootFits, Open
  <2>3. QED BY <2>1, <2>2
<1>6. ASSUME NEW q \in Ops, NEW m \in There' PROVE MarkFits(m, q)'
  <2>1. CASE q = o
    <3>1. mark[m] # o
      BY <1>1, <1>3, <2>1 DEF MarksFit, MarkFits, Open
    <3>2. mark'[m] = o => n \in Above(m)
      BY <1>1, <1>3, <3>1 DEF Subtree
    <3>3. QED BY <1>2, <1>3, <2>1, <3>2 DEF MarkFits, Open
  <2>2. CASE q # o
    <3>1. mark'[m] = q => mark[m] = q
      BY <1>1, <1>3, <2>2
    <3>2. QED BY <1>2, <1>3, <2>2, <3>1 DEF MarksFit, MarkFits, Open
  <2>3. QED BY <2>1, <2>2
<1>7. ASSUME NEW f \in Files, Lost(f) PROVE Lost(f)'
  BY <1>1, <1>2, <1>3, <1>7 DEF Lost
<1>8. QED BY <1>1, <1>2, <1>4, <1>5, <1>6, <1>7 DEF TreeHolds, Onward, MarksFit

LEMMA RestoreHolds ==
    ASSUME TypeOK, TypeOK', TreeFits, MarksFit, NEW o \in Ops, Restore(o)
    PROVE  TreeHolds
<1>1. /\ ops[o].status = "ACTIVE" /\ UNCHANGED <<row, parent, versions>>
      /\ mark' = [m \in Nodes |-> IF mark[m] = o THEN NoOp ELSE mark[m]]
  BY DEF Restore, content
<1>2. /\ ops'[o].status = "RESTORED" /\ \A q \in Ops \ {o} : ops'[q] = ops[q]
      /\ ops'[o].root = ops[o].root
  <2>1. ops' = [ops EXCEPT ![o] = [ops[o] EXCEPT !.status = "RESTORED"]]
    BY DEF Restore
  <2>2. QED BY <2>1 DEF TypeOK, Operation
<1>3. There' = There /\ There \subseteq Nodes /\ \A k : Above(k)' = Above(k)
  BY <1>1, AboveSame DEF There
<1>4. TreeFits'
  BY <1>1, <1>2, <1>3 DEF TreeFits
<1>5. ASSUME NEW q \in Ops PROVE RootFits(q)'
  BY <1>1, <1>2, <1>3, RootIs DEF RootFits, Open
<1>6. ASSUME NEW q \in Ops, NEW m \in There' PROVE MarkFits(m, q)'
  BY <1>1, <1>2, <1>3, ConstantsAssumption DEF MarksFit, MarkFits, Open
<1>7. ASSUME NEW f \in Files, Lost(f) PROVE Lost(f)'
  BY <1>1, <1>2, <1>3, <1>7 DEF Lost
<1>8. QED BY <1>1, <1>2, <1>4, <1>5, <1>6, <1>7 DEF TreeHolds, Onward, MarksFit

LEMMA ExpireHolds ==
    ASSUME TypeOK, TreeFits, MarksFit, NEW o \in Ops, Expire(o)
    PROVE  TreeHolds
<1>1. UNCHANGED <<row, parent, mark, versions>>
  BY DEF Expire, tree, content
<1>2. \A q \in Ops : /\ ops'[q].root = ops[q].root /\ ops'[q].origin = ops[q].origin
                     /\ ops'[q].status = ops[q].status
  <2>1. ops' = [ops EXCEPT ![o] = [ops[o] EXCEPT !.expired = TRUE]]
    BY DEF Expire
  <2>2. QED BY <2>1 DEF TypeOK, Operation
<1>3. QED BY <1>1, <1>2, QuietHolds DEF Open, TreeFits

\* Nodes are removed with everything below them, and the operations whose roots
\* they are forget them, or end.
LEMMA RemovalHolds ==
    ASSUME TypeOK, TypeOK', TreeFits, MarksFit, UNCHANGED parent,
           NEW N \in SUBSET There, \A x \in There : Above(x) \cap N # {} => x \in N,
           row' = [n \in Nodes |-> IF n \in N THEN "gone" ELSE row[n]],
           mark' = [n \in Nodes |-> IF n \in N THEN NoOp ELSE mark[n]],
           \A f \in Files : row[f] = "free" => versions'[f] = {},
           \A o \in Ops :
              /\ ops'[o].root = (IF ops[o].root \in N THEN Top ELSE ops[o].root)
              /\ ops'[o].origin = (IF ops[o].origin \in N THEN Top ELSE ops[o].origin)
              /\ \/ ops'[o].status = ops[o].status
                 \/ ops[o].root \in N /\ Open(o) /\ ops'[o].status = "PURGED"
    PROVE  TreeHolds
<1>1. /\ There' = There \ N /\ There \subseteq Nodes /\ Top \notin N
      /\ \A k : Above(k)' = Above(k)
      /\ parent \in [Nodes -> Folders \cup {Top}]
  BY AboveSame, ConstantsAssumption DEF There, TypeOK
<1>2. \A x \in There \ N : parent[x] \notin N
  <2>1. \A x \in There : parent[x] \in Above(x) \cup {Top}
    BY <1>1, AboveIs DEF Upward
  <2>2. QED BY <1>1, <2>1
<1>3. TreeFits'
  <2>1. \A o \in Ops : ops'[o].status = "PURGED" => ops'[o].root = Top
    BY <1>1 DEF TreeFits
  <2>2. \A n \in Nodes : row'[n] = "free" => row[n] = "free" /\ mark'[n] = mark[n]
    BY DEF There
  <2>3. QED BY <1>1, <1>2, <2>1, <2>2, ConstantsAssumption DEF TreeFits, Nodes
<1>4. ASSUME NEW o \in Ops PROVE RootFits(o)'
  BY <1>1, <1>2, RootIs DEF RootFits, Open
<1>5. ASSUME NEW o \in Ops, NEW x \in There' PROVE MarkFits(x, o)'
  <2>1. x \in There \ N /\ mark'[x] = mark[x] /\ Above(x)' = Above(x)
    BY <1>1
  <2>2. SUFFICES ASSUME mark[x] = o PROVE Open(o)' /\ ops'[o].root \in Above(x)
    BY <2>1 DEF MarkFits
  <2>3. Open(o) /\ ops[o].root \in Above(x) /\ ops[o].root \notin N
    BY <2>1, <2>2 DEF MarksFit, MarkFits
  <2>4. QED BY <2>3 DEF Open
<1>6. ASSUME NEW f \in Files, row[f] # "free", Lost(f) PROVE Lost(f)'
  <2>1. CASE row[f] = "gone" \/ f \in N
    BY <2>1 DEF Lost, Nodes
  <2>2. CASE row[f] # "gone" /\ f \notin N
    <3>1. f \in There
      BY <1>6, <2>2 DEF There, TypeOK, Nodes
    <3>2. PICK o \in Ops : ops[o].status = "PURGING" /\ ops[o].root \in Above(f)
      BY <1>6, <2>2 DEF Lost
    <3>3. ops[o].root \notin N
      BY <2>2, <3>1, <3>2
    <3>4. QED BY <1>1, <3>2, <3>3 DEF Lost
  <2>3. QED BY <2>1, <2>2
<1>7. \A n \in Nodes : /\ row[n] = "gone" => row'[n] = "gone"
                       /\ row[n] # "free" => row'[n] # "free"
  OBVIOUS
<1>8. \A o \in Ops : ops[o].status \in {"PURGING", "PURGED"} =>
                     ops'[o].status \in {"PURGING", "PURGED"}
  OBVIOUS
<1>9. QED BY <1>3, <1>4, <1>5, <1>6, <1>7, <1>8 DEF TreeHolds, Onward, MarksFit

LEMMA RemoveNodeHolds ==
    ASSUME TypeOK, TypeOK', TreeFits, MarksFit, NEW w \in Writers, WriterFits(w), RemoveNode(w)
    PROVE  TreeHolds
<1>. DEFINE n == writer[w].node
<1>1. n \in Files /\ n \in There /\ UNCHANGED <<parent, versions>>
      /\ row' = [row EXCEPT ![n] = "gone"] /\ mark' = [mark EXCEPT ![n] = NoOp]
      /\ ops' = [o \in Ops |-> Forget(ops[o], {n})]
  BY DEF RemoveNode, WriterFits, content
<1>. HIDE DEF n
<1>2. /\ row' = [m \in Nodes |-> IF m \in {n} THEN "gone" ELSE row[m]]
      /\ mark' = [m \in Nodes |-> IF m \in {n} THEN NoOp ELSE mark[m]]
  BY <1>1 DEF TypeOK
<1>3. \A x \in There : Above(x) \cap {n} # {} => x \in {n}
  BY <1>1, FileAbove DEF TypeOK, There
<1>4. \A o \in Ops :
         /\ ops'[o].root = (IF ops[o].root \in {n} THEN Top ELSE ops[o].root)
         /\ ops'[o].origin = (IF ops[o].origin \in {n} THEN Top ELSE ops[o].origin)
         /\ ops'[o].status = ops[o].status
  <2>. SUFFICES ASSUME NEW o \in Ops
                PROVE  /\ ops'[o].root = (IF ops[o].root \in {n} THEN Top ELSE ops[o].root)
                       /\ ops'[o].origin = (IF ops[o].origin \in {n} THEN Top ELSE ops[o].origin)
                       /\ ops'[o].status = ops[o].status
    OBVIOUS
  <2>. DEFINE nodes == {n}
  <2>1. ops'[o] = Forget(ops[o], nodes) /\ ops[o] \in Operation
    BY <1>1 DEF TypeOK
  <2>. HIDE DEF nodes
  <2>2. /\ Forget(ops[o], nodes).status = ops[o].status
        /\ Forget(ops[o], nodes).root = (IF ops[o].root \in nodes THEN Top ELSE ops[o].root)
        /\ Forget(ops[o], nodes).origin = (IF ops[o].origin \in nodes THEN Top ELSE ops[o].origin)
    BY <2>1, ForgetIs
  <2>3. QED BY <2>1, <2>2 DEF nodes
<1>5. \A f \in Files : row[f] = "free" => versions'[f] = {}
  BY <1>1 DEF TreeFits
<1>6. QED BY <1>1, <1>2, <1>3, <1>4, <1>5, RemovalHolds

LEMMA FinalizeHolds ==
    ASSUME TypeOK, TypeOK', TreeFits, MarksFit, NEW p \in Purgers, Finalize(p)
    PROVE  TreeHolds
<1>. DEFINE o == purge[p].op
            r == ops[o].root
            N == Subtree(r)
<1>1. CASE r \in There /\ mark[r] = o /\ ops[o].status = "PURGING" /\ RowsLetGo(N)
  <2>1. /\ row' = [n \in Nodes |-> IF n \in N THEN "gone" ELSE row[n]]
        /\ mark' = [n \in Nodes |-> IF n \in N THEN NoOp ELSE mark[n]]
        /\ versions' = [f \in Files |-> IF f \in N THEN {} ELSE versions[f]]
        /\ ops' = [x \in Ops |-> IF ops[x].root \in N /\ Open(x)
                     THEN [Forget(ops[x], N) EXCEPT !.status = "PURGED"]
                     ELSE Forget(ops[x], N)]
        /\ UNCHANGED parent
    BY <1>1 DEF Finalize
  <2>2. r \in Nodes /\ N \in SUBSET There
    BY <1>1 DEF There, Subtree
  <2>3. \A x \in There : Above(x) \cap N # {} => x \in N
    <3>1. ASSUME NEW x \in There, NEW m \in Above(x), m \in N PROVE r \in Above(x)
      BY <3>1, AboveTransitive DEF Subtree, There, TypeOK
    <3>2. QED BY <3>1 DEF Subtree
  <2>. HIDE DEF N, r, o
  <2>4. ASSUME NEW x \in Ops
        PROVE  /\ ops'[x].root = (IF ops[x].root \in N THEN Top ELSE ops[x].root)
               /\ ops'[x].origin = (IF ops[x].origin \in N THEN Top ELSE ops[x].origin)
               /\ \/ ops'[x].status = ops[x].status
                  \/ ops[x].root \in N /\ Open(x) /\ ops'[x].status = "PURGED"
    <3>1. /\ Forget(ops[x], N) \in Operation /\ Forget(ops[x], N).status = ops[x].status
          /\ Forget(ops[x], N).root = (IF ops[x].root \in N THEN Top ELSE ops[x].root)
          /\ Forget(ops[x], N).origin = (IF ops[x].origin \in N THEN Top ELSE ops[x].origin)
      BY ForgetIs DEF TypeOK
    <3>2. CASE ops[x].root \in N /\ Open(x)
      <4>1. ops'[x] = [Forget(ops[x], N) EXCEPT !.status = "PURGED"]
        BY <2>1, <3>2
      <4>2. QED BY <3>1, <3>2, <4>1 DEF Operation
    <3>3. CASE ~(ops[x].root \in N /\ Open(x))
      <4>1. ops'[x] = Forget(ops[x], N)
        BY <2>1, <3>3
      <4>2. QED BY <3>1, <4>1
    <3>4. QED BY <3>2, <3>3
  <2>5. \A f \in Files : row[f] = "free" => versions'[f] = {}
    BY <2>1 DEF TreeFits
  <2>6. QED BY <2>1, <2>2, <2>3, <2>4, <2>5, RemovalHolds
<1>2. CASE ~(r \in There /\ mark[r] = o /\ ops[o].status = "PURGING" /\ RowsLetGo(N))
  <2>1. UNCHANGED <<row, parent, mark, versions, ops>>
    BY <1>2 DEF Finalize
  <2>2. QED BY <2>1, QuietHolds DEF Open, TreeFits
<1>3. QED BY <1>1, <1>2

LEMMA InsertHolds ==
    ASSUME TypeOK, TypeOK', TreeFits, MarksFit, NEW w \in Writers, WriterFits(w), Insert(w)
    PROVE  TreeHolds
<1>. DEFINE n == writer[w].node
            d == writer[w].at
<1>1. /\ n \in Nodes /\ row[n] = "free" /\ d \in There \cup {Top} /\ UNCHANGED <<mark, ops>>
      /\ row' = [row EXCEPT ![n] = "there"] /\ parent' = [parent EXCEPT ![n] = d]
      /\ versions' = WithVersions(writer[w].keys)
      /\ \A k \in writer[w].keys : k[1] = n
  BY DEF Insert, WriterFits
<1>. HIDE DEF n, d
<1>2. ASSUME NEW f \in Files, row'[f] = "free" PROVE versions'[f] = {}
  <2>1. f # n /\ row[f] = "free" /\ f \in Nodes
    BY <1>1, <1>2 DEF TypeOK, Nodes
  <2>2. \A k \in writer[w].keys : k[1] # f
    BY <1>1, <2>1
  <2>3. versions'[f] = versions[f]
    BY <1>1, <2>2 DEF WithVersions, TypeOK
  <2>4. QED BY <2>1, <2>3 DEF TreeFits
<1>3. QED BY <1>1, <1>2, CreateHolds

LEMMA StillHolds ==
    ASSUME TypeOK, TreeFits, MarksFit, UNCHANGED <<row, parent, mark, ops>>,
           \A f \in Files : row[f] = "free" => versions'[f] = {}
    PROVE  TreeHolds
BY QuietHolds DEF Open

LEMMA WithVersionsIs ==
    ASSUME TypeOK, NEW keys, versions' = WithVersions(keys), NEW f \in Files
    PROVE  /\ versions'[f] = versions[f] \cup {k[2] : k \in {x \in keys : x[1] = f}}
           /\ (\A k \in keys : k[1] # f) => versions'[f] = versions[f]
<1>1. versions'[f] = versions[f] \cup {k[2] : k \in {x \in keys : x[1] = f}}
  BY DEF WithVersions
<1>2. ASSUME \A k \in keys : k[1] # f PROVE {x \in keys : x[1] = f} = {}
  BY <1>2
<1>3. ASSUME NEW S, S = {} PROVE versions[f] \cup {k[2] : k \in S} = versions[f]
  BY <1>3
<1>4. QED BY <1>1, <1>2, <1>3

\* A version is added to no file that nobody has drawn.
LEMMA AddVersionIs ==
    ASSUME TypeOK, NEW w \in Writers, WriterFits(w), AddVersion(w)
    PROVE  /\ UNCHANGED <<row, parent, mark, ops, stored, purge>>
           /\ versions' = WithVersions(writer[w].keys) /\ Done(w)
           /\ row[writer[w].node] = "there"
           /\ \A k \in writer[w].keys : k[1] = writer[w].node
BY DEF AddVersion, WriterFits, tree, There

LEMMA ClaimHolds ==
    ASSUME TypeOK, TreeFits, MarksFit, NEW p \in Purgers, PurgeFits(p), Claim(p)
    PROVE  /\ TreeHolds /\ UNCHANGED <<row, parent, mark, versions, stored, writer>>
           /\ \/ Ends(p)
              \/ /\ ops'[purge[p].op].status = "PURGING"
                 /\ purge' = [purge EXCEPT ![p].pc = "discover"]
<1>. DEFINE o == purge[p].op
<1>1. o \in Ops /\ UNCHANGED <<row, parent, mark, versions, stored, writer>>
  BY DEF Claim, PurgeFits, tree, content
<1>2. \A f \in Files : row[f] = "free" => versions'[f] = {}
  BY <1>1 DEF TreeFits
<1>3. CASE UNCHANGED ops /\ Ends(p)
  BY <1>1, <1>2, <1>3, StillHolds
<1>4. CASE ~(UNCHANGED ops /\ Ends(p))
  <2>1. /\ Open(o) /\ purge' = [purge EXCEPT ![p].pc = "discover"]
        /\ ops' = [ops EXCEPT ![o] = [ops[o] EXCEPT !.status = "PURGING"]]
    BY <1>4 DEF Claim
  <2>. HIDE DEF o
  <2>2. /\ ops'[o].status = "PURGING"
        /\ \A q \in Ops : /\ ops'[q].root = ops[q].root /\ ops'[q].origin = ops[q].origin
                          /\ q # o => ops'[q].status = ops[q].status
    BY <1>1, <2>1 DEF TypeOK, Operation
  <2>3. \A q \in Ops : /\ Open(q)' <=> Open(q)
                       /\ ops[q].status = "PURGING" => ops'[q].status = "PURGING"
                       /\ ops[q].status = "PURGED" <=> ops'[q].status = "PURGED"
    BY <2>1, <2>2 DEF Open
  <2>4. TreeHolds
    BY <1>1, <1>2, <2>2, <2>3, QuietHolds
  <2>5. QED BY <1>1, <2>1, <2>2, <2>4 DEF o
<1>5. QED BY <1>3, <1>4

LEMMA TreeNext ==
    ASSUME TypeOK, TypeOK', TrashInv, [Next]_vars
    PROVE  TreeHolds
<1>. USE DEF tree, content, retention
<1>1. /\ TreeFits /\ MarksFit /\ \A w \in Writers : WriterFits(w)
      /\ \A p \in Purgers : PurgeFits(p)
  BY DEF TrashInv
<1>2. ASSUME UNCHANGED <<row, parent, mark, versions, ops>> PROVE TreeHolds
  BY <1>1, <1>2, StillHolds DEF TreeFits
<1>3. CASE TreeStep
  BY <1>1, <1>2, <1>3, MoveHolds, AddDriveFileHolds, TrashHolds, RestoreHolds, ExpireHolds
     DEF TreeStep, RecordMigration
<1>4. ASSUME NEW w \in Writers, WriteStep(w) PROVE TreeHolds
  <2>1. CASE AddVersion(w)
    <3>1. ASSUME NEW f \in Files, row[f] = "free" PROVE versions'[f] = {}
      <4>1. \A k \in writer[w].keys : k[1] # f
        BY <1>1, <2>1, <3>1, AddVersionIs
      <4>2. versions'[f] = versions[f]
        BY <1>1, <2>1, <4>1, AddVersionIs, WithVersionsIs
      <4>3. QED BY <1>1, <3>1, <4>2 DEF TreeFits
    <3>2. QED BY <1>1, <2>1, <3>1, AddVersionIs, StillHolds
  <2>2. CASE \/ GiveUp(w) \/ \E n \in Nodes : VersionCheck(w, n) \/ RemoveCheck(w, n)
             \/ \E n \in Nodes : \E d \in Folders \cup {Top} : CreateCheck(w, n, d)
    BY <1>2, <2>2 DEF GiveUp, VersionCheck, RemoveCheck, CreateCheck, Begin
  <2>3. QED
    BY <1>1, <1>4, <2>1, <2>2, InsertHolds, RemoveNodeHolds DEF WriteStep
<1>5. ASSUME NEW p \in Purgers, PurgeStep(p) \/ Setback(p) \/ TakeCandidate(p)
                                \/ \E o \in Ops : AskPurge(p, o)
      PROVE  TreeHolds
  <2>1. CASE Finalize(p)
    BY <1>1, <2>1, FinalizeHolds
  <2>2. CASE Claim(p)
    BY <1>1, <2>2, ClaimHolds
  <2>3. CASE \/ Discover(p) \/ DeleteObject(p) \/ Setback(p) \/ TakeCandidate(p)
             \/ \E o \in Ops : AskPurge(p, o)
    BY <1>2, <2>3 DEF Discover, DeleteObject, Setback, DeletionFails, Interrupted,
       TakeCandidate, AskPurge
  <2>4. QED BY <1>5, <2>1, <2>2, <2>3 DEF PurgeStep
<1>6. CASE Select \/ Restart \/ UNCHANGED vars
  BY <1>2, <1>6 DEF Select, Restart, vars
<1>7. QED BY <1>3, <1>4, <1>5, <1>6 DEF Next

---------------------------------------------------------------------------
(* Purges *)

VersionsStay == \A f \in Files : row'[f] # "gone" => versions[f] \subseteq versions'[f]

LEMMA VersionsNext ==
    ASSUME TypeOK, [Next]_vars
    PROVE  VersionsStay
<1>. USE DEF content
<1>1. CASE UNCHANGED versions
  BY <1>1 DEF VersionsStay
<1>2. ASSUME NEW w \in Writers, Insert(w) \/ AddVersion(w) PROVE VersionsStay
  BY <1>2, WithVersionsIs DEF Insert, AddVersion, VersionsStay
<1>3. ASSUME NEW p \in Purgers, Finalize(p) PROVE VersionsStay
  BY <1>3 DEF Finalize, VersionsStay, Nodes
<1>4. CASE TreeStep
  BY <1>1, <1>4 DEF TreeStep, Move, AddDriveFile, Trash, Restore, Expire, RecordMigration
<1>5. ASSUME NEW w \in Writers, WriteStep(w) PROVE VersionsStay
  BY <1>1, <1>2, <1>5 DEF WriteStep, CreateCheck, VersionCheck, RemoveCheck, Begin, RemoveNode,
     GiveUp
<1>6. ASSUME NEW p \in Purgers, PurgeStep(p) \/ Setback(p) \/ TakeCandidate(p)
                                \/ \E o \in Ops : AskPurge(p, o)
      PROVE  VersionsStay
  BY <1>1, <1>3, <1>6 DEF PurgeStep, Claim, Discover, DeleteObject, Setback, DeletionFails,
     Interrupted, TakeCandidate, AskPurge
<1>7. CASE Select \/ Restart \/ UNCHANGED vars
  BY <1>1, <1>7 DEF Select, Restart, vars
<1>8. QED BY <1>4, <1>5, <1>6, <1>7 DEF Next

LEMMA PurgeKept ==
    ASSUME TypeOK, TrashInv, TreeHolds, VersionsStay, NEW p \in Purgers,
           \/ purge'[p] = NoPurge
           \/ /\ purge'[p].op = purge[p].op
              /\ purge'[p].keys \subseteq purge[p].keys
              /\ purge'[p].pc = purge[p].pc
    PROVE  PurgeFits(p)'
<1>1. PurgeFits(p) /\ \A k \in purge[p].keys : k[1] \in Files
  BY DEF TrashInv, TypeOK, Purge, Keys
<1>2. CASE purge'[p] = NoPurge
  BY <1>2 DEF PurgeFits, NoPurge
<1>3. CASE /\ purge'[p].op = purge[p].op
           /\ purge'[p].keys \subseteq purge[p].keys
           /\ purge'[p].pc = purge[p].pc
  <2>1. ASSUME NEW k \in purge[p].keys
        PROVE  /\ row'[k[1]] # "free" /\ Lost(k[1])'
               /\ row'[k[1]] # "gone" => k[2] \in versions'[k[1]]
    BY <1>1 DEF PurgeFits, TreeHolds, Onward, VersionsStay, Nodes
  <2>2. QED BY <1>1, <1>3, <2>1 DEF PurgeFits, TreeHolds, Onward
<1>4. QED BY <1>2, <1>3

\* What a purge discovers, it may delete.
LEMMA Discovered ==
    ASSUME TypeOK, TrashInv, NEW p \in Purgers, Discover(p)
    PROVE  PurgeFits(p)'
<1>. DEFINE o == purge[p].op
            r == ops[o].root
<1>1. /\ UNCHANGED <<row, parent, mark, versions, stored, ops>> /\ PurgeFits(p)
      /\ purge[p].pc = "discover" /\ o \in Ops
      /\ purge \in [Purgers -> Purge]
  BY DEF Discover, TrashInv, tree, content, PurgeFits, TypeOK
<1>2. CASE r \notin There
  BY <1>1, <1>2 DEF Discover, Ends, PurgeFits, NoPurge
<1>3. CASE r \in There
  <2>1. /\ purge'[p].pc = "delete" /\ purge'[p].op = o
        /\ purge'[p].keys = KeysOf(Subtree(r))
    BY <1>1, <1>3 DEF Discover
  <2>2. ops[o].status = "PURGING"
    BY <1>1, <1>3, ConstantsAssumption DEF PurgeFits, TrashInv, TreeFits, There
  <2>3. ASSUME NEW k \in KeysOf(Subtree(r))
        PROVE  /\ k[1] \in Files /\ row[k[1]] = "there" /\ k[2] \in versions[k[1]]
               /\ r \in Above(k[1])
    BY <2>3 DEF KeysOf, Subtree, There, Keys
  <2>. HIDE DEF r
  <2>4. ASSUME NEW k \in purge'[p].keys
        PROVE  /\ row'[k[1]] # "free" /\ Lost(k[1])'
               /\ row'[k[1]] # "gone" => k[2] \in versions'[k[1]]
    <3>1. k \in KeysOf(Subtree(r))
      BY <2>1, <2>4
    <3>2. Above(k[1])' = Above(k[1])
      BY <1>1, AboveSame
    <3>3. Lost(k[1])'
      BY <1>1, <2>2, <2>3, <3>1, <3>2 DEF Lost, r
    <3>4. QED BY <1>1, <2>3, <3>1, <3>3
  <2>5. QED BY <1>1, <2>1, <2>2, <2>4 DEF PurgeFits
<1>4. QED BY <1>2, <1>3

LEMMA PurgesNext ==
    ASSUME TypeOK, TrashInv, TreeHolds, [Next]_vars
    PROVE  \A p \in Purgers : PurgeFits(p)'
<1>. USE DEF tree, content, retention
<1>1. VersionsStay /\ \A p \in Purgers : PurgeFits(p)
  BY VersionsNext DEF TrashInv
<1>2. ASSUME NEW q \in Purgers, purge'[q] = purge[q] PROVE PurgeFits(q)'
  BY <1>1, <1>2, PurgeKept
<1>3. ASSUME NEW p \in Purgers, PurgeStep(p) \/ Setback(p) \/ TakeCandidate(p)
                                \/ \E o \in Ops : AskPurge(p, o),
             NEW q \in Purgers
      PROVE  PurgeFits(q)'
  <2>. /\ purge \in [Purgers -> Purge] /\ purge[p] \in Purge
    BY DEF TypeOK
  <2>1. CASE q # p
    <3>1. purge'[q] = purge[q]
      <4>1. \E call : purge' = [purge EXCEPT ![p] = call]
        BY <1>3 DEF PurgeStep, Setback, TakeCandidate, AskPurge, Claim, Discover, DeleteObject,
           Finalize, DeletionFails, Interrupted, Ends
      <4>2. QED BY <2>1, <4>1
    <3>2. QED BY <1>2, <3>1
  <2>2. ASSUME q = p, NEW o \in Ops,
               purge' = [purge EXCEPT ![p] = [pc |-> "claim", op |-> o, keys |-> {}]]
        PROVE  PurgeFits(q)'
    BY <2>2 DEF PurgeFits
  <2>3. CASE q = p /\ (TakeCandidate(p) \/ \E o \in Ops : AskPurge(p, o))
    <3>1. TakeCandidate(p) => Head(batch) \in Ops
      BY DEF TakeCandidate, TypeOK
    <3>2. QED BY <2>2, <2>3, <3>1 DEF TakeCandidate, AskPurge
  <2>4. CASE q = p /\ (Setback(p) \/ Finalize(p))
    <3>1. purge'[p] = NoPurge
      BY <2>4 DEF Setback, DeletionFails, Interrupted, Finalize, Ends
    <3>2. QED BY <1>1, <2>4, <3>1, PurgeKept
  <2>5. CASE q = p /\ DeleteObject(p)
    <3>1. PICK k \in purge[p].keys : purge' = [purge EXCEPT ![p].keys = @ \ {k}]
      BY <2>5 DEF DeleteObject
    <3>2. purge' = [purge EXCEPT ![p] = [purge[p] EXCEPT !.keys = purge[p].keys \ {k}]]
      BY <3>1
    <3>3. purge'[p] = [pc |-> purge[p].pc, op |-> purge[p].op, keys |-> purge[p].keys \ {k}]
      BY <3>2, CallSet
    <3>4. QED BY <1>1, <2>5, <3>3, PurgeKept
  <2>6. CASE q = p /\ Claim(p)
    <3>1. CASE Ends(p)
      BY <1>1, <2>6, <3>1, PurgeKept DEF Ends
    <3>2. CASE /\ ops'[purge[p].op].status = "PURGING"
               /\ purge' = [purge EXCEPT ![p].pc = "discover"]
      <4>1. purge' = [purge EXCEPT ![p] = [purge[p] EXCEPT !.pc = "discover"]]
        BY <3>2
      <4>2. /\ purge'[p].pc = "discover" /\ purge'[p].op = purge[p].op
            /\ purge'[p].keys = purge[p].keys
        BY <4>1, CallSet
      <4>3. purge[p].op \in Ops /\ \A k \in purge[p].keys : k[1] \in Files
        BY <1>1, <2>6 DEF Claim, PurgeFits, Purge, Keys
      <4>4. ASSUME NEW k \in purge[p].keys
            PROVE  /\ row'[k[1]] # "free" /\ Lost(k[1])'
                   /\ row'[k[1]] # "gone" => k[2] \in versions'[k[1]]
        BY <1>1, <4>3 DEF PurgeFits, TreeHolds, Onward, VersionsStay, Nodes
      <4>5. QED BY <2>6, <3>2, <4>2, <4>3, <4>4 DEF PurgeFits
    <3>3. QED BY <1>1, <2>6, <3>1, <3>2, ClaimHolds DEF TrashInv
  <2>7. CASE q = p /\ Discover(p)
    BY <2>7, Discovered
  <2>8. QED BY <1>3, <2>1, <2>3, <2>4, <2>5, <2>6, <2>7 DEF PurgeStep
<1>4. CASE Restart
  <2>1. \A q \in Purgers : purge'[q] \in {NoPurge, purge[q]}
    BY <1>4 DEF Restart
  <2>2. QED BY <1>1, <2>1, PurgeKept
<1>5. ASSUME UNCHANGED purge, NEW q \in Purgers PROVE PurgeFits(q)'
  BY <1>2, <1>5
<1>6. CASE TreeStep \/ Select \/ UNCHANGED vars
  BY <1>5, <1>6 DEF TreeStep, Move, AddDriveFile, Trash, Restore, Expire, RecordMigration,
     Select, vars
<1>7. ASSUME NEW w \in Writers, WriteStep(w), NEW q \in Purgers PROVE PurgeFits(q)'
  BY <1>5, <1>7 DEF WriteStep, CreateCheck, VersionCheck, RemoveCheck, Begin, Insert, AddVersion,
     RemoveNode, GiveUp
<1>8. QED BY <1>3, <1>4, <1>6, <1>7 DEF Next

---------------------------------------------------------------------------
(* Writes and what is stored *)

\* An object goes when a purge deletes it or its writer gives up.
LEMMA StoredNext ==
    ASSUME TypeOK, TrashInv, [Next]_vars, NEW k \in stored \ stored'
    PROVE  \/ \E p \in Purgers : k \in purge[p].keys
           \/ \E w \in Writers : k \in writer[w].keys /\ writer'[w] = NoWrite
<1>. USE DEF content
<1>1. writer \in [Writers -> Write]
  BY DEF TypeOK
<1>2. CASE TreeStep \/ Select \/ Restart \/ UNCHANGED vars
  BY <1>2 DEF TreeStep, Move, AddDriveFile, Trash, Restore, Expire, RecordMigration,
     Select, Restart, vars
<1>3. ASSUME NEW w \in Writers, WriteStep(w) PROVE k \in writer[w].keys /\ writer'[w] = NoWrite
  BY <1>1, <1>3 DEF WriteStep, CreateCheck, VersionCheck, RemoveCheck, Begin, Insert, AddVersion,
     RemoveNode, GiveUp, Done
<1>4. ASSUME NEW p \in Purgers, PurgeStep(p) \/ Setback(p) \/ TakeCandidate(p)
                                \/ \E o \in Ops : AskPurge(p, o)
      PROVE  k \in purge[p].keys
  BY <1>4 DEF PurgeStep, Setback, TakeCandidate, AskPurge, Claim, Discover, DeleteObject,
     Finalize, DeletionFails, Interrupted
<1>5. QED BY <1>2, <1>3, <1>4 DEF Next

\* A version comes from the write that stored its object.
LEMMA VersionsAdded ==
    ASSUME TypeOK, TrashInv, [Next]_vars, NEW f \in Files, NEW v \in versions'[f] \ versions[f]
    PROVE  /\ UNCHANGED stored
           /\ \E w \in Writers : \E k \in writer[w].keys :
                 k[1] = f /\ k[2] = v /\ writer'[w] = NoWrite
<1>. USE DEF content
<1>1. writer \in [Writers -> Write] /\ versions \in [Files -> SUBSET Versions]
  BY DEF TypeOK
<1>2. CASE TreeStep \/ Select \/ Restart \/ UNCHANGED vars
  BY <1>2 DEF TreeStep, Move, AddDriveFile, Trash, Restore, Expire, RecordMigration,
     Select, Restart, vars
<1>3. ASSUME NEW w \in Writers, Insert(w) \/ AddVersion(w)
      PROVE  /\ UNCHANGED stored
             /\ \E k \in writer[w].keys : k[1] = f /\ k[2] = v /\ writer'[w] = NoWrite
  <2>1. UNCHANGED stored /\ writer'[w] = NoWrite /\ versions' = WithVersions(writer[w].keys)
    BY <1>1, <1>3 DEF Insert, AddVersion, Done
  <2>2. v \in {k[2] : k \in {x \in writer[w].keys : x[1] = f}}
    BY <2>1, WithVersionsIs
  <2>3. QED BY <2>1, <2>2
<1>4. ASSUME NEW w \in Writers, WriteStep(w), ~(Insert(w) \/ AddVersion(w)) PROVE FALSE
  BY <1>4 DEF WriteStep, CreateCheck, VersionCheck, RemoveCheck, Begin, RemoveNode, GiveUp
<1>5. ASSUME NEW p \in Purgers, PurgeStep(p) \/ Setback(p) \/ TakeCandidate(p)
                                \/ \E o \in Ops : AskPurge(p, o)
      PROVE  FALSE
  BY <1>1, <1>5 DEF PurgeStep, Setback, TakeCandidate, AskPurge, Claim, Discover, DeleteObject,
     Finalize, DeletionFails, Interrupted
<1>6. QED BY <1>2, <1>3, <1>4, <1>5 DEF Next

\* A node appears by itself, drawn fresh, or by the write that drew it.
LEMMA RowsAppear ==
    ASSUME TypeOK, TrashInv, [Next]_vars, NEW n \in Nodes, row[n] = "free", row'[n] # "free"
    PROVE  \/ Fresh(n)
           \/ \E w \in Writers : /\ writer[w].pc = "insert" /\ writer[w].node = n
                                 /\ writer'[w] = NoWrite
<1>. USE DEF tree
<1>1. writer \in [Writers -> Write] /\ row \in [Nodes -> {"free", "there", "gone"}]
  BY DEF TypeOK
<1>2. CASE TreeStep \/ Select \/ Restart \/ UNCHANGED vars
  BY <1>1, <1>2 DEF TreeStep, Move, AddDriveFile, Trash, Restore, Expire, RecordMigration,
     Select, Restart, vars
<1>3. ASSUME NEW w \in Writers, WriteStep(w)
      PROVE  writer[w].pc = "insert" /\ writer[w].node = n /\ writer'[w] = NoWrite
  <2>1. Insert(w) \/ RemoveNode(w)
    BY <1>3 DEF WriteStep, CreateCheck, VersionCheck, RemoveCheck, Begin, AddVersion, GiveUp
  <2>2. ~RemoveNode(w)
    BY <1>1 DEF RemoveNode, There
  <2>3. QED BY <1>1, <2>1, <2>2 DEF Insert, Done
<1>4. ASSUME NEW p \in Purgers, PurgeStep(p) \/ Setback(p) \/ TakeCandidate(p)
                                \/ \E o \in Ops : AskPurge(p, o)
      PROVE  FALSE
  BY <1>1, <1>4 DEF PurgeStep, Setback, TakeCandidate, AskPurge, Claim, Discover, DeleteObject,
     Finalize, DeletionFails, Interrupted, Subtree, There
<1>5. QED BY <1>2, <1>3, <1>4 DEF Next

\* A write that goes on owns its node and objects, whatever others do meanwhile.
LEMMA WriteKept ==
    ASSUME TypeOK, TrashInv, TreeHolds, [Next]_vars, NEW v \in Writers, writer'[v] = writer[v]
    PROVE  WriterFits(v)'
<1>1. /\ WriterFits(v) /\ \A p \in Purgers : PurgeFits(p)
      /\ writer[v].keys \subseteq Keys
      /\ \A w \in Writers : writer'[w] = NoWrite =>
            /\ writer[w].keys \cap writer[v].keys = {}
            /\ writer[w].pc = "insert" /\ writer[v].pc = "insert" =>
                 writer[w].node # writer[v].node
  <2>1. ASSUME NEW w \in Writers, writer'[w] = NoWrite
        PROVE  /\ writer[w].keys \cap writer[v].keys = {}
               /\ writer[w].pc = "insert" /\ writer[v].pc = "insert" =>
                    writer[w].node # writer[v].node
    <3>1. CASE w = v
      BY <2>1, <3>1 DEF NoWrite
    <3>2. CASE w # v
      BY <3>2 DEF TrashInv, WritersApart
    <3>3. QED BY <3>1, <3>2
  <2>2. QED BY <2>1 DEF TrashInv, TypeOK, Write
<1>2. ASSUME writer[v].pc = "insert" PROVE row'[writer[v].node] = "free"
  <2>1. writer[v].node \in Nodes /\ row[writer[v].node] = "free" /\ ~Fresh(writer[v].node)
    BY <1>1, <1>2 DEF WriterFits, Fresh
  <2>2. QED BY <1>1, <1>2, <2>1, RowsAppear
<1>3. ASSUME NEW k \in writer[v].keys, row'[k[1]] # "gone"
      PROVE  k \in stored' /\ k[2] \notin versions'[k[1]]
  <2>1. k[1] \in Files /\ k[2] \in Versions /\ k = <<k[1], k[2]>>
    BY <1>1 DEF Keys
  <2>2. row[k[1]] # "gone" /\ k \in stored /\ k[2] \notin versions[k[1]]
    BY <1>1, <1>3, <2>1 DEF WriterFits, TreeHolds, Onward, Nodes
  <2>3. k \in stored'
    BY <1>1, <2>2, StoredNext DEF PurgeFits
  <2>4. k[2] \notin versions'[k[1]]
    <3>1. SUFFICES ASSUME k[2] \in versions'[k[1]] PROVE FALSE
      OBVIOUS
    <3>2. PICK w \in Writers : \E x \in writer[w].keys :
             x[1] = k[1] /\ x[2] = k[2] /\ writer'[w] = NoWrite
      BY <2>1, <2>2, <3>1, VersionsAdded
    <3>3. writer[w].keys \subseteq Keys
      BY DEF TypeOK, Write
    <3>4. k \in writer[w].keys
      BY <2>1, <3>2, <3>3 DEF Keys
    <3>5. QED BY <1>1, <3>2, <3>4
  <2>5. QED BY <2>3, <2>4
<1>4. QED BY <1>1, <1>2, <1>3 DEF WriterFits, TreeHolds, Onward

\* A write that begins: its node, its objects and nobody else's.
Starts(w) ==
    /\ writer[w].pc = "idle"
    /\ \A v \in Writers \ {w} : writer'[v] = writer[v]
    /\ UNCHANGED <<row, versions>>
    /\ writer'[w].pc # "idle" /\ writer'[w].node \in Nodes
    /\ row[writer'[w].node] # "gone"
    /\ writer'[w].pc = "insert" => Fresh(writer'[w].node)
    /\ writer'[w].pc = "version" => row[writer'[w].node] # "free"
    /\ writer'[w].pc = "remove" => writer'[w].node \in Files
    /\ writer'[w].keys \cap stored = {} /\ writer'[w].keys \subseteq stored'
    /\ \A k \in writer'[w].keys : k[1] = writer'[w].node /\ k[2] \notin versions[k[1]]

LEMMA WritersMove ==
    ASSUME TypeOK, TrashInv, [Next]_vars
    PROVE  \/ \A v \in Writers : writer'[v] \in {NoWrite, writer[v]}
           \/ \E w \in Writers : Starts(w)
<1>. USE DEF tree
<1>1. writer \in [Writers -> Write] /\ TreeFits
  BY DEF TypeOK, TrashInv
<1>2. CASE UNCHANGED writer
  BY <1>2
<1>3. ASSUME NEW w \in Writers, WriteStep(w)
      PROVE  (\A v \in Writers : writer'[v] \in {NoWrite, writer[v]}) \/ Starts(w)
  <2>1. CASE Insert(w) \/ AddVersion(w) \/ RemoveNode(w) \/ GiveUp(w)
    BY <1>1, <2>1 DEF Insert, AddVersion, RemoveNode, GiveUp, Done
  <2>2. ASSUME NEW write, Begin(w, write)
        PROVE  /\ writer[w].pc = "idle" /\ writer'[w] = write
               /\ \A v \in Writers \ {w} : writer'[v] = writer[v]
               /\ write.keys \cap stored = {} /\ write.keys \subseteq stored'
               /\ UNCHANGED <<row, versions>>
    BY <1>1, <2>2 DEF Begin
  <2>3. ASSUME NEW n \in Nodes, NEW d \in Folders \cup {Top}, CreateCheck(w, n, d)
        PROVE  Starts(w)
    <3>. DEFINE write == [pc |-> "insert", node |-> n, at |-> d,
                          keys |-> {k \in Keys : k = <<n, 1>>}]
    <3>1. Fresh(n) /\ Begin(w, write)
      BY <2>3 DEF CreateCheck
    <3>2. \A k \in write.keys : k[1] = n /\ k[2] \notin versions[k[1]]
      BY <1>1, <3>1 DEF Fresh, TreeFits, Keys
    <3>3. row[n] # "gone"
      BY <3>1 DEF Fresh
    <3>4. writer'[w] = write
      BY <2>2, <3>1
    <3>5. QED BY <2>2, <3>1, <3>2, <3>3, <3>4 DEF Starts
  <2>4. ASSUME NEW n \in Nodes, VersionCheck(w, n) PROVE Starts(w)
    <3>1. PICK x \in Versions \ versions[n] :
             Begin(w, [pc |-> "version", node |-> n, at |-> Top, keys |-> {<<n, x>>}])
      BY <2>4 DEF VersionCheck
    <3>2. row[n] = "there"
      BY <2>4 DEF VersionCheck, Visible, There
    <3>3. writer'[w] = [pc |-> "version", node |-> n, at |-> Top, keys |-> {<<n, x>>}]
      BY <2>2, <3>1
    <3>4. QED BY <2>2, <3>1, <3>2, <3>3 DEF Starts
  <2>5. ASSUME NEW n \in Nodes, RemoveCheck(w, n) PROVE Starts(w)
    <3>1. /\ n \in Files /\ row[n] = "there"
          /\ Begin(w, [pc |-> "remove", node |-> n, at |-> Top, keys |-> {}])
      BY <2>5 DEF RemoveCheck, There
    <3>2. writer'[w] = [pc |-> "remove", node |-> n, at |-> Top, keys |-> {}]
      BY <2>2, <3>1
    <3>3. QED BY <2>2, <3>1, <3>2 DEF Starts
  <2>6. QED BY <1>3, <2>1, <2>3, <2>4, <2>5 DEF WriteStep
<1>4. CASE TreeStep \/ Select \/ Restart \/ UNCHANGED vars
  BY <1>2, <1>4 DEF TreeStep, Move, AddDriveFile, Trash, Restore, Expire, RecordMigration,
     Select, Restart, vars
<1>5. ASSUME NEW p \in Purgers, PurgeStep(p) \/ Setback(p) \/ TakeCandidate(p)
                                \/ \E o \in Ops : AskPurge(p, o)
      PROVE  UNCHANGED writer
  BY <1>5 DEF PurgeStep, Setback, TakeCandidate, AskPurge, Claim, Discover, DeleteObject,
     Finalize, DeletionFails, Interrupted
<1>6. QED BY <1>2, <1>3, <1>4, <1>5 DEF Next

LEMMA WritersNext ==
    ASSUME TypeOK, TrashInv, TreeHolds, [Next]_vars
    PROVE  (\A v \in Writers : WriterFits(v)') /\ WritersApart'
<1>1. (\A v \in Writers : WriterFits(v)) /\ WritersApart /\ NoWrite.keys = {}
      /\ NoWrite.pc = "idle"
  BY DEF TrashInv, NoWrite
<1>2. ASSUME NEW v \in Writers, writer'[v] = NoWrite PROVE WriterFits(v)'
  BY <1>2 DEF WriterFits, NoWrite
<1>3. CASE \A v \in Writers : writer'[v] \in {NoWrite, writer[v]}
  <2>1. WritersApart'
    BY <1>1, <1>3 DEF WritersApart
  <2>2. QED BY <1>2, <1>3, <2>1, WriteKept
<1>4. ASSUME NEW w \in Writers, Starts(w)
      PROVE  (\A v \in Writers : WriterFits(v)') /\ WritersApart'
  <2>1. WriterFits(w)'
    BY <1>4 DEF Starts, WriterFits, Fresh
  <2>2. \A v \in Writers \ {w} : WriterFits(v)'
    BY <1>4, WriteKept DEF Starts
  <2>3. ASSUME NEW v \in Writers \ {w}
        PROVE  /\ writer'[v].keys \cap writer'[w].keys = {}
               /\ writer'[v].pc = "insert" /\ writer'[w].pc = "insert" =>
                    writer'[v].node # writer'[w].node
    <3>1. writer'[v] = writer[v] /\ WriterFits(v)
      BY <1>1, <1>4 DEF Starts
    <3>2. QED BY <1>4, <3>1 DEF Starts, WriterFits, Fresh
  <2>4. ASSUME NEW u \in Writers \ {w}, NEW v \in Writers \ {w}, u # v
        PROVE  /\ writer'[u].keys \cap writer'[v].keys = {}
               /\ writer'[u].pc = "insert" /\ writer'[v].pc = "insert" =>
                    writer'[u].node # writer'[v].node
    BY <1>1, <1>4, <2>4 DEF Starts, WritersApart
  <2>5. QED BY <2>1, <2>2, <2>3, <2>4 DEF WritersApart
<1>5. QED BY <1>3, <1>4, WritersMove

LEMMA ContentNext ==
    ASSUME TypeOK, TypeOK', TrashInv, TreeHolds, [Next]_vars
    PROVE  ContentFits'
<1>1. SUFFICES ASSUME NEW f \in Files, row'[f] = "there", ~Lost(f)',
                      NEW k \in Keys, k[1] = f, k[2] \in versions'[f]
               PROVE  k \in stored'
  BY DEF ContentFits, KeysOf, There
<1>2. /\ TreeFits /\ ContentFits /\ \A w \in Writers : WriterFits(w)
      /\ \A p \in Purgers : PurgeFits(p)
  BY DEF TrashInv
<1>3. f \in Nodes /\ row[f] # "gone"
  BY <1>1 DEF TreeHolds, Onward, Nodes
<1>4. row[f] # "free" => ~Lost(f)
  BY <1>1 DEF TreeHolds, Onward
<1>5. CASE k[2] \in versions[f]
  <2>1. row[f] # "free"
    BY <1>2, <1>5 DEF TreeFits
  <2>2. f \in There /\ ~Lost(f)
    BY <1>3, <1>4, <2>1 DEF There, TypeOK
  <2>3. k \in stored
    BY <1>1, <1>2, <1>5, <2>2 DEF ContentFits, KeysOf
  <2>4. \A p \in Purgers : k \notin purge[p].keys
    BY <1>1, <1>2, <2>2 DEF PurgeFits
  <2>5. \A w \in Writers : k \notin writer[w].keys
    BY <1>1, <1>2, <1>3, <1>5 DEF WriterFits
  <2>6. QED BY <2>3, <2>4, <2>5, StoredNext
<1>6. CASE k[2] \notin versions[f]
  <2>1. UNCHANGED stored
    BY <1>1, <1>6, VersionsAdded
  <2>2. PICK w \in Writers : \E x \in writer[w].keys : x[1] = f /\ x[2] = k[2]
    BY <1>1, <1>6, VersionsAdded
  <2>3. writer[w].keys \subseteq Keys
    BY DEF TypeOK, Write
  <2>4. k \in writer[w].keys
    BY <1>1, <2>2, <2>3 DEF Keys
  <2>5. k \in stored
    BY <1>1, <1>2, <1>3, <2>4 DEF WriterFits
  <2>6. QED BY <2>1, <2>5
<1>7. QED BY <1>5, <1>6

---------------------------------------------------------------------------
(* The invariant *)

LEMMA InitTrash == Init => TrashInv
<1>. SUFFICES ASSUME Init PROVE TrashInv
  OBVIOUS
<1>1. TypeOK
  BY TypeInit
<1>2. /\ \A o \in Ops : ops[o].status = "NONE" /\ ops[o].root = Top
      /\ \A p \in Purgers : purge[p].pc = "idle" /\ purge[p].keys = {}
      /\ \A w \in Writers : writer[w].pc = "idle" /\ writer[w].keys = {}
      /\ \A n \in Nodes : mark[n] = NoOp
  BY DEF Init, Unused, NoPurge, NoWrite
<1>3. TreeFits
  <2>1. \A n \in There : parent[n] \in There \cup {Top}
    BY <1>1 DEF Init, There, TypeOK, Nodes
  <2>2. QED BY <1>2, <2>1 DEF Init, TreeFits
<1>4. MarksFit
  BY <1>2, ConstantsAssumption DEF MarksFit, RootFits, MarkFits, Open, There
<1>5. ContentFits
  BY DEF Init, ContentFits, KeysOf
<1>6. QED
  BY <1>2, <1>3, <1>4, <1>5 DEF TrashInv, WriterFits, WritersApart, PurgeFits

LEMMA TrashNext == TypeOK /\ TypeOK' /\ TrashInv /\ [Next]_vars => TrashInv'
<1>. SUFFICES ASSUME TypeOK, TypeOK', TrashInv, [Next]_vars PROVE TrashInv'
  OBVIOUS
<1>1. TreeHolds
  BY TreeNext
<1>2. (\A w \in Writers : WriterFits(w)') /\ WritersApart'
  BY <1>1, WritersNext
<1>3. \A p \in Purgers : PurgeFits(p)'
  BY <1>1, PurgesNext
<1>4. ContentFits'
  BY <1>1, ContentNext
<1>5. QED BY <1>1, <1>2, <1>3, <1>4 DEF TrashInv, TreeHolds

LEMMA TrashInvariant == Spec => [](TypeOK /\ TrashInv)
<1>1. Init => TypeOK /\ TrashInv
  BY TypeInit, InitTrash
<1>2. TypeOK /\ TrashInv /\ [Next]_vars => (TypeOK /\ TrashInv)'
  BY TypeNext, TrashNext
<1>3. QED BY <1>1, <1>2, PTL DEF Spec

\* Marks and operations agree: whatever is trashed inside what is trashed
\* already, moved, created below it or purged meanwhile, a marked node is below
\* the root of an open operation, which still is where it was trashed.
THEOREM MarksMatch == Spec => []MarksMatchOperations
<1>1. TypeOK /\ TrashInv => MarksMatchOperations
  <2>. SUFFICES ASSUME TypeOK, TrashInv PROVE MarksMatchOperations
    OBVIOUS
  <2>1. MarksFit
    BY DEF TrashInv
  <2>2. ASSUME NEW n \in There, mark[n] # NoOp
        PROVE  Open(mark[n]) /\ n \in Subtree(ops[mark[n]].root)
    <3>1. mark[n] \in Ops
      BY <2>2 DEF TypeOK, There
    <3>2. Open(mark[n]) /\ ops[mark[n]].root \in Above(n)
      BY <2>1, <3>1 DEF MarksFit, MarkFits
    <3>3. QED BY <3>2 DEF Subtree
  <2>3. \A o \in Ops : RootFits(o)
    BY <2>1 DEF MarksFit
  <2>4. QED BY <2>2, <2>3 DEF MarksMatchOperations, RootFits
<1>2. QED BY <1>1, TrashInvariant, PTL

\* Whoever can see a file finds every version of it: however many purges stop
\* between the deletion of its objects and that of its row.
THEOREM VisibleContent == Spec => []VisibleHasContent
<1>1. TypeOK /\ TrashInv => VisibleHasContent
  <2>. SUFFICES ASSUME TypeOK, TrashInv PROVE VisibleHasContent
    OBVIOUS
  <2>1. SUFFICES ASSUME NEW f \in Files, Visible(f) PROVE KeysOf({f}) \subseteq stored
    BY DEF VisibleHasContent
  <2>2. f \in Nodes /\ f \in There /\ row[f] # "gone"
    BY <2>1 DEF Visible, There
  <2>3. ASSUME Lost(f) PROVE FALSE
    <3>1. PICK o \in Ops : ops[o].status = "PURGING" /\ ops[o].root \in Above(f)
      BY <2>2, <2>3 DEF Lost
    <3>2. Open(o) /\ MarksFit
      BY <3>1 DEF Open, TrashInv
    <3>3. QED BY <2>1, <2>2, <3>1, <3>2, Hidden
  <2>4. QED BY <2>2, <2>3 DEF TrashInv, ContentFits
<1>2. QED BY <1>1, TrashInvariant, PTL

\* Both at once, of one behaviour: marks are as operations are, and what can be seen
\* has its content.
THEOREM TrashSound == Spec => []TrashIsSound
BY MarksMatch, VisibleContent, PTL DEF TrashIsSound
=============================================================================
