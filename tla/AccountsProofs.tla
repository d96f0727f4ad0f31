---------------------------- MODULE AccountsProofs ----------------------------
(***************************************************************************)
(* Proofs about Accounts: types, the binding of Google accounts, approval  *)
(* before access, the last administrator and the rotation of tokens.       *)
(*                                                                         *)
(* A transaction works on what it read.  The invariant says how far that   *)
(* may be from the tables: what a login or a SERIALIZABLE mutation saw is  *)
(* still so, or it is marked stale, or it has missed a write and so may    *)
(* not write what the writer read.                                         *)
(***************************************************************************)
EXTENDS Accounts, FiniteSetTheorems, TLAPS

Resources == {RowOf(x) : x \in Users} \cup {AccountsOf(x) : x \in Users}
TxRow == [pc : {"idle", "waiting", "checked", "binding", "session", "insert"},
          kind : Mutations \cup {"none", "login"}, target : Users \cup {NoUser},
          sub : Subs \cup {"none"}, role : Roles, view : Row, others : BOOLEAN,
          bound : SUBSET Subs, attempt : 0..MaxAttempts, stale : BOOLEAN,
          missed : SUBSET Resources]
SessionRow == [owner : Users \cup {NoUser}, token : Nat, revoked : BOOLEAN,
               expired : BOOLEAN, redeemed : SUBSET (RefreshRequests \X Nat)]
RefreshState == [session : SessionIds \cup {NoSession}, token : Nat]

\* A user without a row, or one who asked for access and was not approved yet.
Young(x) == user[x].status = "none" \/ x \in requested \ approved
Unapproved == {"none", "PENDING_APPROVAL"}
ActiveAdmin == [status |-> "ACTIVE", role |-> "ADMIN"]

\* The form of a transaction.
Shaped(r, t) ==
    /\ t \in TxRow
    /\ r \in AdminRequests => t.pc \in {"idle", "waiting", "checked"}
    /\ r \in LoginRequests => t.pc \in {"idle", "binding", "session", "insert"}
    /\ t.pc # "idle" => t.target \in Users
    /\ t.pc \in {"waiting", "checked"} => t.kind \in Mutations /\ t.kind \in workload
    /\ t.pc = "binding" => t.kind = "login" /\ t.sub \in Subs /\ t.target = EmailOf[t.sub]
    /\ t.pc = "checked" <=> lockHolder = r
    /\ t.pc = "checked" /\ t.kind = "approveUser" => t.view.status = "ACTIVE"
    /\ t.pc = "checked" /\ t.kind = "suspendUser" => t.view.status = "SUSPENDED"
    /\ t.pc = "checked" /\ t.kind = "reactivateUser" => t.view.status \in {"ACTIVE", "INVITED"}

\* What it saw of its user.
RowSeen(t) ==
    /\ t.pc = "binding" => t.stale \/ t.view = user[t.target]
    /\ t.pc = "waiting" /\ t.kind \in Serializable =>
         t.stale \/ t.view = user[t.target] \/ t.view.status = "none"
    /\ t.pc = "checked" /\ t.kind = "reactivateUser" =>
         t.stale \/ user[t.target].status = "SUSPENDED"

\* What a login saw of the accounts bound to its user.
AccountsSeen(t) ==
    t.pc = "binding" =>
      /\ t.bound = BoundTo(t.target) \/ AccountsOf(t.target) \in t.missed
      /\ t.view.status = "none" => t.bound = {}

\* Nothing under way knows a young user as more than that.
SeenYoung(t) ==
    t.pc # "idle" /\ Young(t.target) =>
      /\ t.pc \notin {"session", "insert"}
      /\ t.pc # "checked" => t.view.status \in Unapproved
      /\ t.pc = "checked" => t.kind = "approveUser"

TxFits(r, t) == Shaped(r, t) /\ RowSeen(t) /\ AccountsSeen(t) /\ SeenYoung(t)

AccountsInv ==
    /\ workload \in Workloads
    /\ user \in [Users -> Row]
    /\ account \in [Subs -> Users \cup {NoUser}]
    /\ lockHolder \in AdminRequests \cup {NoRequest}
    /\ tx \in [Transactions -> TxRow]
    /\ session \in [SessionIds -> SessionRow]
    /\ refresh \in [RefreshRequests -> RefreshState]
    /\ requested \subseteq Users /\ approved \subseteq Users
    /\ \A r \in Transactions : TxFits(r, tx[r])
    /\ \A s \in Subs : account[s] # NoUser =>
         account[s] = EmailOf[s] /\ user[account[s]].status # "none"
    /\ \A s, t \in Subs : account[s] = account[t] /\ account[s] # NoUser => s = t
    /\ \A x \in requested : user[x].status # "none"
    /\ \A x \in Users : Young(x) =>
         user[x].status \in Unapproved /\ \A i \in SessionIds : session[i].owner # x

\* Somebody else is an active administrator.
Others(x) == ActiveAdmins(user) \ {x} # {}

RotationInv ==
    \A i \in SessionIds :
      /\ session[i].owner = NoUser => session[i].token = 0 /\ session[i].redeemed = {}
      /\ session[i].owner # NoUser =>
           session[i].token >= 1
           /\ {p[2] : p \in session[i].redeemed} = 1..(session[i].token - 1)
      /\ \A p, r \in session[i].redeemed : p[2] = r[2] => p = r

-----------------------------------------------------------------------------
(* Helpers.                                                                *)

LEMMA ResourcesDiffer ==
    ASSUME NEW x, NEW y
    PROVE /\ RowOf(x) = RowOf(y) <=> x = y
          /\ AccountsOf(x) = AccountsOf(y) <=> x = y
          /\ RowOf(x) # AccountsOf(y)
BY DEF RowOf, AccountsOf

\* What is known of a transaction.
LEMMA TxKnown ==
    ASSUME AccountsInv, NEW r \in Transactions
    PROVE /\ tx[r] \in TxRow /\ TxFits(r, tx[r])
          /\ Shaped(r, tx[r]) /\ RowSeen(tx[r]) /\ AccountsSeen(tx[r]) /\ SeenYoung(tx[r])
          /\ tx[r].pc # "idle" => tx[r].target \in Users /\ user[tx[r].target] \in Row
BY DEF AccountsInv, TxFits, Shaped

LEMMA RowType ==
    ASSUME NEW row \in Row
    PROVE /\ row.status \in Statuses /\ row.role \in Roles
          /\ \A s \in Statuses : [row EXCEPT !.status = s] \in Row
                                 /\ [row EXCEPT !.status = s].status = s
                                 /\ [row EXCEPT !.status = s].role = row.role
          /\ \A role \in Roles : [row EXCEPT !.role = role] \in Row
                                 /\ [row EXCEPT !.role = role].role = role
                                 /\ [row EXCEPT !.role = role].status = row.status
BY DEF Row

LEMMA AbsentType == Absent \in Row /\ Absent.status = "none"
BY DEF Absent, Row, Statuses, Roles

LEMMA ActivatedType ==
    ASSUME NEW row \in Row
    PROVE /\ Activated(row) \in Row
          /\ Activated(row).role = row.role
          /\ row.status = "INVITED" => Activated(row).status = "ACTIVE"
          /\ row.status # "INVITED" => Activated(row) = row
BY RowType DEF Activated, Statuses

LEMMA IdleType == Idle \in TxRow /\ Idle.pc = "idle"
BY AccountsConstants, AbsentType DEF Idle, TxRow, Roles

\* A transaction that was told of another's commit.
Told(t, u) ==
    /\ u \in TxRow
    /\ u.pc = t.pc /\ u.kind = t.kind /\ u.target = t.target /\ u.sub = t.sub
    /\ u.role = t.role /\ u.view = t.view /\ u.others = t.others /\ u.bound = t.bound
    /\ t.stale => u.stale
    /\ t.missed \subseteq u.missed

Open == {"waiting", "checked", "binding"}

LEMMA TellsOthers ==
    ASSUME AccountsInv, NEW r \in Transactions, NEW writes
    PROVE /\ TellOthers(r, writes) \in [Transactions -> TxRow]
          /\ \A q \in Transactions : Told(tx[q], TellOthers(r, writes)[q])
          /\ \A q \in Transactions \ {r} : tx[q].pc \in Open =>
               /\ RowOf(tx[q].target) \in writes => TellOthers(r, writes)[q].stale
               /\ IsSerializable(r) /\ writes \cap ReadsOf(q) # {} =>
                    ReadsOf(r) \cap Writable(tx[q].target) \subseteq TellOthers(r, writes)[q].missed
<1>1. ASSUME NEW q \in Transactions
      PROVE /\ TellOthers(r, writes)[q] \in TxRow /\ Told(tx[q], TellOthers(r, writes)[q])
            /\ q # r /\ tx[q].pc \in Open =>
               /\ RowOf(tx[q].target) \in writes => TellOthers(r, writes)[q].stale
               /\ IsSerializable(r) /\ writes \cap ReadsOf(q) # {} =>
                    ReadsOf(r) \cap Writable(tx[q].target) \subseteq TellOthers(r, writes)[q].missed
  <2>1. CASE q = r \/ tx[q].pc \notin Open
    <3>1. TellOthers(r, writes)[q] = tx[q]
      BY <2>1 DEF TellOthers, Open
    <3> QED
      BY <2>1, <3>1, TxKnown DEF Told
  <2>2. CASE q # r /\ tx[q].pc \in Open
    <3> DEFINE st == tx[q].stale \/ RowOf(tx[q].target) \in writes
               mi == IF IsSerializable(r) /\ writes \cap ReadsOf(q) # {}
                     THEN tx[q].missed \cup (ReadsOf(r) \cap Writable(tx[q].target))
                     ELSE tx[q].missed
    <3>1. TellOthers(r, writes)[q] = [tx[q] EXCEPT !.stale = st, !.missed = mi]
      BY <2>2 DEF TellOthers, Open
    <3>2. mi \in SUBSET Resources /\ tx[q].missed \subseteq mi /\ st \in BOOLEAN
      <4>1. Writable(tx[q].target) \subseteq Resources
        BY <2>2, TxKnown DEF Writable, Resources, Open
      <4>2. tx[q].missed \subseteq Resources /\ tx[q].stale \in BOOLEAN
        BY TxKnown DEF TxRow
      <4> QED
        BY <4>1, <4>2
    <3>3. /\ tx[q].stale => st
          /\ RowOf(tx[q].target) \in writes => st
          /\ IsSerializable(r) /\ writes \cap ReadsOf(q) # {} =>
                    ReadsOf(r) \cap Writable(tx[q].target) \subseteq mi
      OBVIOUS
    <3> HIDE DEF st, mi
    <3>4. tx[q] \in TxRow
      BY TxKnown
    <3> DEFINE u == [tx[q] EXCEPT !.stale = st, !.missed = mi]
    <3>5. u \in TxRow /\ u.stale = st /\ u.missed = mi
          /\ u.pc = tx[q].pc /\ u.kind = tx[q].kind /\ u.target = tx[q].target
          /\ u.sub = tx[q].sub /\ u.role = tx[q].role /\ u.view = tx[q].view
          /\ u.others = tx[q].others /\ u.bound = tx[q].bound
      BY <3>2, <3>4 DEF TxRow
    <3> HIDE DEF u
    <3>6. TellOthers(r, writes)[q] = u
      BY <3>1 DEF u
    <3> QED
      BY <3>2, <3>3, <3>5, <3>6 DEF Told
  <2> QED
    BY <2>1, <2>2
<1>2. TellOthers(r, writes) = [q \in Transactions |-> TellOthers(r, writes)[q]]
  BY DEF TellOthers
<1> QED
  BY <1>1, <1>2

\* A transaction that did not act still fits, if its user did not change behind its
\* back, no user got younger, and it knows of the accounts bound since.
LEMMA OtherFits ==
    ASSUME AccountsInv, NEW q \in Transactions, Told(tx[q], tx'[q]), workload' = workload,
           lockHolder' = q <=> lockHolder = q,
           tx[q].pc # "idle" =>
             LET x == tx[q].target IN
             /\ \/ user'[x] = user[x] \/ tx'[q].stale \/ tx[q].pc \notin Open
                \/ user[x].status = "none" /\ tx[q].pc # "binding"
             /\ Young(x)' => Young(x)
             /\ tx[q].pc = "binding" =>
                  BoundTo(x)' = BoundTo(x) \/ AccountsOf(x) \in tx'[q].missed
    PROVE TxFits(q, tx[q])'
<1>1. /\ tx'[q].pc = tx[q].pc /\ tx'[q].kind = tx[q].kind /\ tx'[q].target = tx[q].target
      /\ tx'[q].sub = tx[q].sub /\ tx'[q].role = tx[q].role /\ tx'[q].view = tx[q].view
      /\ tx'[q].bound = tx[q].bound
      /\ tx[q].stale => tx'[q].stale
      /\ tx[q].missed \subseteq tx'[q].missed /\ tx'[q] \in TxRow
  BY DEF Told
<1>2. Shaped(q, tx[q])'
  BY <1>1, TxKnown DEF Shaped
<1>3. RowSeen(tx[q])'
  BY <1>1, TxKnown DEF RowSeen, Open
<1>4. AccountsSeen(tx[q])'
  BY <1>1, TxKnown DEF AccountsSeen
<1>5. SeenYoung(tx[q])'
  BY <1>1, TxKnown DEF SeenYoung
<1> QED
  BY <1>2, <1>3, <1>4, <1>5 DEF TxFits

\* A transaction steps and the tables stay as they are.
LEMMA ActorMoves ==
    ASSUME AccountsInv, NEW r \in Transactions,
           tx' \in [Transactions -> TxRow], \A q \in Transactions \ {r} : tx'[q] = tx[q],
           TxFits(r, tx[r])',
           UNCHANGED <<workload, user, account, session, refresh, requested, approved>>,
           \/ lockHolder' = lockHolder
           \/ lockHolder' \in {r, NoRequest} /\ lockHolder \in {r, NoRequest}
    PROVE AccountsInv'
<1>1. NoRequest \notin Transactions
  BY AccountsConstants DEF Transactions
<1>2. lockHolder' \in AdminRequests \cup {NoRequest}
  <2>1. CASE lockHolder' = r /\ lockHolder' # lockHolder
    <3>1. tx'[r].pc = "checked"
      BY <2>1 DEF TxFits, Shaped
    <3>2. r \notin LoginRequests
      BY <3>1 DEF TxFits, Shaped
    <3> QED
      BY <2>1, <3>2 DEF Transactions
  <2>2. lockHolder \in AdminRequests \cup {NoRequest}
    BY DEF AccountsInv
  <2> QED
    BY <2>1, <2>2
<1>3. ASSUME NEW x PROVE BoundTo(x)' = BoundTo(x) /\ (Young(x)' <=> Young(x))
  BY DEF BoundTo, Young
<1>4. ASSUME NEW q \in Transactions, q # r PROVE TxFits(q, tx[q])'
  <2>1. Told(tx[q], tx'[q]) /\ tx'[q] = tx[q]
    BY <1>4, TxKnown DEF Told
  <2>2. lockHolder' = q <=> lockHolder = q
    BY <1>1, <1>4
  <2>3. LET x == tx[q].target IN BoundTo(x)' = BoundTo(x) /\ (Young(x)' <=> Young(x))
    BY <2>1 DEF BoundTo, Young
  <2> QED
    BY <2>1, <2>2, <2>3, OtherFits
<1>5. \A q \in Transactions : TxFits(q, tx[q])'
  BY <1>4
<1>6. \A x \in Users : Young(x)' => Young(x)
  BY <1>3
<1> QED
  BY <1>2, <1>5, <1>6 DEF AccountsInv

LEMMA IdleFits ==
    ASSUME AccountsInv, NEW r \in Transactions, lockHolder' # r, tx'[r] = Idle
    PROVE TxFits(r, tx[r])'
BY IdleType DEF TxFits, Shaped, RowSeen, AccountsSeen, SeenYoung

LEMMA Replaced ==
    ASSUME AccountsInv, NEW r \in Transactions, NEW t \in TxRow, tx' = [tx EXCEPT ![r] = t]
    PROVE /\ tx' \in [Transactions -> TxRow] /\ tx'[r] = t
          /\ \A q \in Transactions \ {r} : tx'[q] = tx[q]
BY DEF AccountsInv

\* A transaction ends and the tables stay as they are.
LEMMA ActorEnds ==
    ASSUME AccountsInv, NEW r \in Transactions, tx' = [tx EXCEPT ![r] = Idle],
           UNCHANGED <<workload, user, account, session, refresh, requested, approved>>,
           lockHolder' = IF lockHolder = r THEN NoRequest ELSE lockHolder
    PROVE AccountsInv'
<1>1. lockHolder' # r
  BY AccountsConstants DEF Transactions
<1> QED
  BY <1>1, IdleType, IdleFits, Replaced, ActorMoves

LEMMA NotHolding ==
    ASSUME AccountsInv, NEW r \in Transactions, tx[r].pc # "checked"
    PROVE lockHolder # r
BY TxKnown DEF Shaped

-----------------------------------------------------------------------------
(* The actions.                                                            *)

LEMMA BeginMutationFits ==
    ASSUME AccountsInv, NEW r \in AdminRequests, NEW kind \in Mutations, NEW x \in Users,
           NEW role \in Roles, BeginMutation(r, kind, x, role)
    PROVE AccountsInv'
<1> DEFINE asked == [Idle EXCEPT !.pc = "waiting", !.kind = kind, !.target = x, !.role = role]
           seen == [asked EXCEPT !.view = Reads(x).view, !.others = Reads(x).others,
                                 !.bound = Reads(x).bound]
           t == IF kind \in Serializable THEN seen ELSE asked
<1>1. tx' = [tx EXCEPT ![r] = t] /\ kind \in workload
      /\ UNCHANGED <<workload, user, account, lockHolder, session, refresh, requested, approved>>
      /\ tx[r].pc = "idle" /\ r \in Transactions
  BY DEF BeginMutation, Transactions
<1>2. Reads(x).view = user[x] /\ Reads(x).others \in BOOLEAN /\ Reads(x).bound \in SUBSET Subs
      /\ user[x] \in Row
  BY DEF Reads, BoundTo, AccountsInv
<1>3. asked \in TxRow /\ asked.pc = "waiting" /\ asked.kind = kind /\ asked.target = x
      /\ asked.view = Absent
  BY IdleType DEF Idle, TxRow
<1>4. seen \in TxRow /\ seen.pc = "waiting" /\ seen.kind = kind /\ seen.target = x
      /\ seen.view = user[x]
  <2> HIDE DEF asked
  <2> QED
    BY <1>2, <1>3 DEF TxRow
<1>5. t \in TxRow /\ t.pc = "waiting" /\ t.kind = kind /\ t.target = x
      /\ (kind \in Serializable => t.view = user[x]) /\ (t.view = user[x] \/ t.view = Absent)
  BY <1>3, <1>4
<1> HIDE DEF t
<1>6. tx'[r] = t /\ tx' \in [Transactions -> TxRow]
      /\ \A q \in Transactions \ {r} : tx'[q] = tx[q]
  BY <1>1, <1>5, Replaced
<1>7. Young(x) => user[x].status \in Unapproved
  BY DEF AccountsInv
<1>8. lockHolder # r /\ r \notin LoginRequests
  BY <1>1, NotHolding, AccountsConstants
<1>9. Shaped(r, tx[r])'
  BY <1>1, <1>5, <1>6, <1>8 DEF Shaped
<1>10. SeenYoung(tx[r])'
  BY <1>1, <1>5, <1>6, <1>7, AbsentType DEF SeenYoung, Young, Unapproved
<1>11. TxFits(r, tx[r])'
  BY <1>1, <1>5, <1>6, <1>9, <1>10 DEF TxFits, RowSeen, AccountsSeen
<1> QED
  BY <1>1, <1>6, <1>11, ActorMoves

\* What a mutation decides to write.
LEMMA NextRowFacts ==
    ASSUME NEW r \in AdminRequests, NEW seen, seen.view \in Row, tx[r].role \in Roles,
           NextRow(r, seen) # Absent
    PROVE LET row == NextRow(r, seen) IN
          /\ row \in Row
          /\ \/ tx[r].kind = "approveUser" /\ MayApprove(seen) /\ row.status = "ACTIVE"
             \/ tx[r].kind = "updateUser" /\ MayChangeRole(seen, tx[r].role)
             \/ tx[r].kind = "suspendUser" /\ MaySuspend(seen) /\ row.status = "SUSPENDED"
             \/ tx[r].kind = "reactivateUser" /\ MayReactivate(seen)
                /\ row.status \in {"ACTIVE", "INVITED"}
<1> DEFINE V == seen.view
<1>6. /\ \A s \in Statuses : [V EXCEPT !.status = s] \in Row /\ [V EXCEPT !.status = s].status = s
      /\ [V EXCEPT !.role = tx[r].role] \in Row
  BY DEF Row
<1>1. CASE tx[r].kind = "approveUser"
  <2>1. NextRow(r, seen) = IF MayApprove(seen) THEN [V EXCEPT !.status = "ACTIVE"] ELSE Absent
    BY <1>1 DEF NextRow
  <2> QED
    BY <1>1, <1>6, <2>1 DEF Statuses
<1>2. CASE tx[r].kind = "updateUser"
  <2>1. NextRow(r, seen) = IF MayChangeRole(seen, tx[r].role) THEN [V EXCEPT !.role = tx[r].role]
                           ELSE Absent
    BY <1>2 DEF NextRow
  <2> QED
    BY <1>2, <1>6, <2>1
<1>3. CASE tx[r].kind = "suspendUser"
  <2>1. NextRow(r, seen) = IF MaySuspend(seen) THEN [V EXCEPT !.status = "SUSPENDED"] ELSE Absent
    BY <1>3 DEF NextRow
  <2> QED
    BY <1>3, <1>6, <2>1 DEF Statuses
<1>4. CASE tx[r].kind = "reactivateUser"
  <2>1. NextRow(r, seen) = IF MayReactivate(seen)
                           THEN IF seen.bound # {} THEN [V EXCEPT !.status = "ACTIVE"]
                                ELSE [V EXCEPT !.status = "INVITED"]
                           ELSE Absent
    BY <1>4 DEF NextRow
  <2> QED
    BY <1>4, <1>6, <2>1 DEF Statuses
<1>5. CASE tx[r].kind \notin Mutations
  BY <1>5 DEF NextRow, Mutations
<1> QED
  BY <1>1, <1>2, <1>3, <1>4, <1>5 DEF Mutations

LEMMA CheckMutationFits ==
    ASSUME AccountsInv, NEW r \in AdminRequests, CheckMutation(r) PROVE AccountsInv'
<1> DEFINE row == NextRow(r, SeenBy(r))
           x == tx[r].target
           t == [tx[r] EXCEPT !.pc = "checked", !.view = row, !.others = FALSE, !.bound = {}]
<1>1. /\ tx[r].pc = "waiting" /\ LockFree /\ r \in Transactions /\ r \notin LoginRequests
      /\ UNCHANGED <<workload, user, account, session, refresh, requested, approved>>
  BY AccountsConstants DEF CheckMutation, Transactions
<1>2. CASE row = Absent
  <2>1. tx' = [tx EXCEPT ![r] = Idle] /\ UNCHANGED lockHolder
    BY <1>2 DEF CheckMutation
  <2> QED
    BY <1>1, <2>1, NotHolding, ActorEnds
<1>3. CASE row # Absent
  <2>1. tx' = [tx EXCEPT ![r] = t] /\ lockHolder' = r
    BY <1>3 DEF CheckMutation
  <2>2. tx[r] \in TxRow /\ x \in Users /\ user[x] \in Row /\ tx[r].role \in Roles
        /\ tx[r].kind \in Mutations
    BY <1>1, TxKnown DEF TxRow, Shaped
  <2>3. /\ SeenBy(r).view \in Row
        /\ SeenBy(r).view = IF tx[r].kind \in Serializable THEN tx[r].view ELSE user[x]
    BY <2>2 DEF SeenBy, Reads, TxRow
  <2>4. /\ row \in Row
        /\ \/ tx[r].kind = "approveUser" /\ row.status = "ACTIVE"
           \/ tx[r].kind = "updateUser" /\ MayChangeRole(SeenBy(r), tx[r].role)
           \/ tx[r].kind = "suspendUser" /\ MaySuspend(SeenBy(r)) /\ row.status = "SUSPENDED"
           \/ tx[r].kind = "reactivateUser" /\ MayReactivate(SeenBy(r))
              /\ row.status \in {"ACTIVE", "INVITED"}
    BY <1>3, <2>2, <2>3, NextRowFacts
  <2> HIDE DEF row
  <2>5. /\ t \in TxRow /\ t.pc = "checked" /\ t.kind = tx[r].kind /\ t.target = x
        /\ t.view = row /\ t.stale = tx[r].stale
    BY <2>2, <2>4 DEF TxRow
  <2> HIDE DEF t
  <2>6. tx'[r] = t /\ tx' \in [Transactions -> TxRow]
        /\ \A q \in Transactions \ {r} : tx'[q] = tx[q]
    BY <1>1, <2>1, <2>5, Replaced
  <2>7. Shaped(r, tx[r])'
    BY <1>1, <2>1, <2>2, <2>4, <2>5, <2>6, TxKnown DEF Shaped, Mutations
  <2>8. RowSeen(tx[r])'
    <3>1. tx[r].kind = "reactivateUser" => tx[r].stale \/ user[x].status = "SUSPENDED"
      BY <1>1, <2>3, <2>4, TxKnown DEF RowSeen, MayReactivate, Serializable
    <3> QED
      BY <1>1, <2>5, <2>6, <3>1 DEF RowSeen
  <2>9. SeenYoung(tx[r])'
    <3>1. Young(x) => SeenBy(r).view.status \in Unapproved
      BY <1>1, <2>2, <2>3, TxKnown DEF SeenYoung, AccountsInv
    <3>2. Young(x) => tx[r].kind = "approveUser"
      BY <2>4, <3>1 DEF Unapproved, MayChangeRole, MaySuspend, MayReactivate
    <3> QED
      BY <1>1, <2>5, <2>6, <3>2 DEF SeenYoung, Young
  <2>10. TxFits(r, tx[r])'
    BY <2>5, <2>6, <2>7, <2>8, <2>9 DEF TxFits, AccountsSeen
  <2>11. lockHolder = NoRequest
    BY <1>1 DEF LockFree
  <2> QED
    BY <1>1, <2>1, <2>6, <2>10, <2>11, ActorMoves
<1> QED
  BY <1>2, <1>3

Attempted(x, s, v, n, b) ==
    [Idle EXCEPT !.pc = "binding", !.kind = "login", !.target = x, !.sub = s, !.view = v,
                 !.attempt = n, !.bound = b]

LEMMA AttemptType ==
    ASSUME NEW x \in Users, NEW s \in Subs, NEW v \in Row, NEW n \in 0..MaxAttempts,
           NEW b \in SUBSET Subs
    PROVE LET t == Attempted(x, s, v, n, b) IN
          /\ t \in TxRow /\ t.pc = "binding" /\ t.kind = "login" /\ t.target = x /\ t.sub = s
          /\ t.view = v /\ t.bound = b
BY IdleType DEF Idle, TxRow, Attempted

LEMMA AttemptFits ==
    ASSUME AccountsInv, NEW r \in LoginRequests, tx[r].pc \in {"idle", "binding"},
           NEW s \in Subs, NEW n \in 0..MaxAttempts, tx' = [tx EXCEPT ![r] = Attempt(r, s, n)],
           UNCHANGED <<workload, user, account, lockHolder, session, refresh, requested,
                       approved>>
    PROVE AccountsInv'
<1> DEFINE t == Attempt(r, s, n)
           x == EmailOf[s]
<1>1. r \in Transactions /\ r \notin AdminRequests /\ x \in Users /\ lockHolder # r
  BY NotHolding, AccountsConstants DEF Transactions
<1>2. user[x] \in Row /\ BoundTo(x) \in SUBSET Subs
  BY <1>1 DEF AccountsInv, BoundTo
<1>3. Attempt(r, s, n) = Attempted(x, s, user[x], n, BoundTo(x))
  BY DEF Attempt, Attempted, AccountsInv
<1>4. /\ t \in TxRow /\ t.pc = "binding" /\ t.kind = "login" /\ t.target = x /\ t.sub = s
      /\ t.view = user[x] /\ t.bound = BoundTo(x)
  BY <1>1, <1>2, <1>3, AttemptType
<1> HIDE DEF t
<1>5. tx'[r] = t /\ tx' \in [Transactions -> TxRow]
      /\ \A q \in Transactions \ {r} : tx'[q] = tx[q]
  BY <1>1, <1>4, Replaced DEF t
<1> HIDE DEF x
<1>6. /\ user[x].status = "none" => BoundTo(x) = {}
      /\ Young(x) => user[x].status \in Unapproved
  <2>1. x # NoUser
    BY <1>1, AccountsConstants
  <2>2. \A q \in Subs : account[q] = x => user[x].status # "none"
    BY <2>1 DEF AccountsInv
  <2> QED
    BY <1>1, <2>2 DEF AccountsInv, BoundTo
<1>7. Shaped(r, tx[r])'
  BY <1>1, <1>4, <1>5 DEF Shaped, x
<1>8. AccountsSeen(tx[r])'
  BY <1>4, <1>5, <1>6 DEF AccountsSeen, BoundTo
<1>9. SeenYoung(tx[r])'
  BY <1>4, <1>5, <1>6 DEF SeenYoung, Young
<1>10. TxFits(r, tx[r])'
  BY <1>4, <1>5, <1>7, <1>8, <1>9 DEF TxFits, RowSeen
<1> QED
  BY <1>1, <1>5, <1>10, ActorMoves

\* A login that ended its binding with an active user goes on to its session.
LEMMA AfterBindingFits ==
    ASSUME AccountsInv, NEW r \in LoginRequests, tx[r].pc = "binding", NEW row \in Row
    PROVE LET t == AfterBinding(r, row) IN
          /\ t \in TxRow
          /\ \/ t = Idle
             \/ /\ Activated(row).status = "ACTIVE"
                /\ t.pc = "session" /\ t.target = tx[r].target
<1> DEFINE u == [Idle EXCEPT !.pc = "session", !.kind = "login", !.target = tx[r].target]
<1>1. tx[r].target \in Users
  BY TxKnown DEF Transactions
<1>2. u \in TxRow /\ u.pc = "session" /\ u.target = tx[r].target
  BY <1>1, IdleType DEF Idle, TxRow
<1> HIDE DEF u
<1>3. AfterBinding(r, row) = IF Activated(row).status = "ACTIVE" THEN u ELSE Idle
  BY DEF AfterBinding, u
<1> QED
  BY <1>2, <1>3, IdleType

\* A login in its session part whose user is not young.
LEMMA SessionPartFits ==
    ASSUME AccountsInv, NEW r \in LoginRequests, tx'[r] \in TxRow,
           tx'[r].pc \in {"session", "insert"}, tx'[r].target \in Users,
           ~Young(tx[r].target)', lockHolder' # r
    PROVE TxFits(r, tx[r])'
BY AccountsConstants DEF TxFits, Shaped, RowSeen, AccountsSeen, SeenYoung

LEMMA CheckSessionOwnerFits ==
    ASSUME AccountsInv, NEW r \in LoginRequests, CheckSessionOwner(r) PROVE AccountsInv'
<1>1. /\ tx[r].pc = "session" /\ r \in Transactions /\ lockHolder # r
      /\ UNCHANGED <<workload, user, account, lockHolder, session, refresh, requested, approved>>
  BY NotHolding DEF CheckSessionOwner, Transactions
<1>2. CASE tx' = [tx EXCEPT ![r] = Idle]
  BY <1>1, <1>2, ActorEnds
<1>3. CASE tx' = [tx EXCEPT ![r] = [tx[r] EXCEPT !.pc = "insert"]]
  <2> DEFINE t == [tx[r] EXCEPT !.pc = "insert"]
  <2>1. t \in TxRow /\ t.pc = "insert" /\ t.target = tx[r].target
    BY <1>1, TxKnown DEF TxRow
  <2> HIDE DEF t
  <2>2. tx'[r] = t /\ tx' \in [Transactions -> TxRow]
        /\ \A q \in Transactions \ {r} : tx'[q] = tx[q]
    BY <1>1, <1>3, <2>1, Replaced DEF t
  <2>3. tx[r].target \in Users /\ ~Young(tx[r].target)
    BY <1>1, TxKnown DEF SeenYoung
  <2>4. tx'[r].target \in Users /\ ~Young(tx[r].target)'
    BY <1>1, <2>1, <2>2, <2>3 DEF Young
  <2>5. TxFits(r, tx[r])'
    BY <1>1, <2>1, <2>2, <2>4, SessionPartFits
  <2> QED
    BY <1>1, <2>2, <2>5, ActorMoves
<1> QED
  BY <1>2, <1>3 DEF CheckSessionOwner

\* A step that leaves the transactions and their tables alone.
LEMMA SessionsMove ==
    ASSUME AccountsInv, session' \in [SessionIds -> SessionRow],
           refresh' \in [RefreshRequests -> RefreshState],
           UNCHANGED <<workload, user, account, lockHolder, tx, requested, approved>>,
           \A i \in SessionIds : session'[i].owner = session[i].owner
    PROVE AccountsInv'
<1>1. ASSUME NEW q \in Transactions PROVE TxFits(q, tx[q])'
  BY <1>1, TxKnown DEF TxFits, Shaped, RowSeen, AccountsSeen, SeenYoung, BoundTo, Young
<1>2. \A x \in Users : Young(x)' => Young(x)
  BY DEF Young
<1> QED
  BY <1>1, <1>2 DEF AccountsInv

LEMMA InsertSessionFits ==
    ASSUME AccountsInv, NEW r \in LoginRequests, NEW i \in SessionIds, InsertSession(r, i)
    PROVE AccountsInv'
<1>1. /\ tx[r].pc = "insert" /\ r \in Transactions /\ lockHolder # r
      /\ session' = [session EXCEPT ![i].owner = tx[r].target, ![i].token = 1]
      /\ tx' = [tx EXCEPT ![r] = Idle]
      /\ UNCHANGED <<workload, user, account, lockHolder, refresh, requested, approved>>
  BY NotHolding DEF InsertSession, EndLogin, Transactions
<1>2. tx[r].target \in Users /\ ~Young(tx[r].target)
  BY <1>1, TxKnown DEF SeenYoung
<1>3. /\ session' \in [SessionIds -> SessionRow]
      /\ \A j \in SessionIds : session'[j].owner \in {session[j].owner, tx[r].target}
  <2> DEFINE w == [session[i] EXCEPT !.owner = tx[r].target, !.token = 1]
  <2>1. session[i] \in SessionRow /\ session \in [SessionIds -> SessionRow]
    BY DEF AccountsInv
  <2>2. w \in SessionRow /\ w.owner = tx[r].target
    BY <1>2, <2>1 DEF SessionRow
  <2>3. session' = [session EXCEPT ![i] = w]
    BY <1>1, <2>1
  <2> HIDE DEF w
  <2> QED
    BY <2>1, <2>2, <2>3
<1>4. /\ tx' \in [Transactions -> TxRow] /\ tx'[r] = Idle
      /\ \A q \in Transactions \ {r} : tx'[q] = tx[q]
  BY <1>1, IdleType, Replaced
<1>5. ASSUME NEW q \in Transactions, q # r PROVE TxFits(q, tx[q])'
  BY <1>1, <1>4, <1>5, TxKnown
  DEF TxFits, Shaped, RowSeen, AccountsSeen, SeenYoung, BoundTo, Young
<1>6. \A q \in Transactions : TxFits(q, tx[q])'
  BY <1>1, <1>4, <1>5, IdleFits
<1>7. ASSUME NEW x \in Users, Young(x)'
      PROVE user'[x].status \in Unapproved /\ \A j \in SessionIds : session'[j].owner # x
  <2>1. Young(x)
    BY <1>1, <1>7 DEF Young
  <2> QED
    BY <1>1, <1>2, <1>3, <2>1 DEF AccountsInv
<1> QED
  BY <1>1, <1>3, <1>4, <1>6, <1>7 DEF AccountsInv

LEMMA CreateUserFits ==
    ASSUME AccountsInv, NEW x \in Users, NEW role \in Roles, CreateUser(x, role)
    PROVE AccountsInv'
<1>1. /\ user[x].status = "none"
      /\ user' = [user EXCEPT ![x] = [status |-> "INVITED", role |-> role]]
      /\ UNCHANGED <<workload, account, lockHolder, session, refresh, requested, approved>>
  BY DEF CreateUser
<1>2. user' \in [Users -> Row] /\ user'[x].status = "INVITED"
      /\ \A y \in Users \ {x} : user'[y] = user[y]
  BY <1>1 DEF AccountsInv, Row, Statuses
<1>3. ASSUME NEW q \in Transactions
      PROVE /\ Told(tx[q], tx'[q])
            /\ tx[q].pc = "binding" /\ tx[q].target = x => tx'[q].stale
  <2>1. CASE tx[q].pc # "binding"
    <3>1. tx'[q] = tx[q]
      BY <2>1 DEF CreateUser
    <3> QED
      BY <2>1, <3>1, TxKnown DEF Told
  <2>2. CASE tx[q].pc = "binding"
    <3> DEFINE st == tx[q].stale \/ tx[q].target = x
    <3>1. tx'[q] = [tx[q] EXCEPT !.stale = st]
      BY <2>2 DEF CreateUser
    <3>2. st \in BOOLEAN /\ (tx[q].stale => st) /\ (tx[q].target = x => st)
      BY TxKnown DEF TxRow
    <3> HIDE DEF st
    <3> QED
      BY <3>1, <3>2, TxKnown DEF Told, TxRow
  <2> QED
    BY <2>1, <2>2
<1>4. tx' \in [Transactions -> TxRow]
  <2>1. tx' = [q \in Transactions |-> tx'[q]]
    BY DEF CreateUser
  <2> QED
    BY <1>3, <2>1 DEF Told
<1>5. ASSUME NEW y \in Users PROVE Young(y)' => Young(y) /\ y # x
  <2>1. x \in requested' => x \notin requested
    BY <1>1 DEF AccountsInv
  <2> QED
    BY <1>1, <1>2, <2>1 DEF Young
<1>6. ASSUME NEW q \in Transactions PROVE TxFits(q, tx[q])'
  <2>1. tx[q].pc # "idle" =>
          LET y == tx[q].target IN
          /\ user'[y] = user[y] \/ y = x
          /\ Young(y)' => Young(y)
          /\ BoundTo(y)' = BoundTo(y)
    <3>1. CASE tx[q].pc # "idle"
      <4>1. tx[q].target \in Users /\ tx'[q].target = tx[q].target
        BY <1>3, <3>1, TxKnown DEF Told
      <4>2. Young(tx[q].target)' => Young(tx[q].target)
        BY <1>1, <1>5, <4>1 DEF Young
      <4> QED
        BY <1>1, <1>2, <4>1, <4>2 DEF BoundTo
    <3> QED
      BY <3>1
  <2>2. lockHolder' = q <=> lockHolder = q
    BY <1>1
  <2>3. workload' = workload
    BY <1>1
  <2> QED
    BY <1>1, <1>3, <2>1, <2>2, <2>3, OtherFits
<1>7. \A s \in Subs : account'[s] # NoUser =>
         account'[s] = EmailOf[s] /\ user'[account'[s]].status # "none"
  BY <1>1, <1>2, AccountsConstants DEF AccountsInv
<1>8. \A y \in requested' : user'[y].status # "none"
  BY <1>1, <1>2 DEF AccountsInv
<1>9. \A y \in Users : Young(y)' =>
         user'[y].status \in Unapproved /\ \A i \in SessionIds : session'[i].owner # y
  BY <1>1, <1>2, <1>5 DEF AccountsInv
<1> QED
  BY <1>1, <1>2, <1>4, <1>6, <1>7, <1>8, <1>9 DEF AccountsInv

LEMMA UpdatedFacts ==
    ASSUME AccountsInv, NEW r \in AdminRequests, tx[r].pc = "checked"
    PROVE LET x == tx[r].target IN
          /\ x \in Users /\ Updated(r) \in Row
          /\ Updated(r).status = IF tx[r].kind = "updateUser" THEN user[x].status
                                 ELSE tx[r].view.status
          /\ Updated(r).role = IF tx[r].kind = "updateUser" THEN tx[r].role ELSE user[x].role
          /\ tx[r].kind # "updateUser" => Updated(r).status \in {"ACTIVE", "INVITED", "SUSPENDED"}
          /\ Updated(r).status # "none"
          /\ Young(x) => tx[r].kind = "approveUser"
<1> DEFINE x == tx[r].target
<1>1. r \in Transactions
  BY DEF Transactions
<1>2. x \in Users /\ user[x] \in Row /\ tx[r].view \in Row /\ tx[r].role \in Roles
      /\ tx[r].kind \in Mutations /\ TxFits(r, tx[r])
  BY <1>1, TxKnown DEF TxRow, Shaped
<1>3. Young(x) => tx[r].kind = "approveUser"
  BY <1>1, TxKnown DEF SeenYoung
<1>4. tx[r].kind # "updateUser" => tx[r].view.status \in {"ACTIVE", "INVITED", "SUSPENDED"}
  BY <1>1, <1>2, TxKnown DEF Shaped, Mutations
<1> HIDE DEF x
<1>5. /\ [user[x] EXCEPT !.role = tx[r].role] \in Row
      /\ [user[x] EXCEPT !.role = tx[r].role].status = user[x].status
      /\ [user[x] EXCEPT !.role = tx[r].role].role = tx[r].role
      /\ [user[x] EXCEPT !.status = tx[r].view.status] \in Row
      /\ [user[x] EXCEPT !.status = tx[r].view.status].status = tx[r].view.status
      /\ [user[x] EXCEPT !.status = tx[r].view.status].role = user[x].role
  BY <1>2 DEF Row
<1>6. tx[r].kind = "updateUser" => user[x].status # "none"
  BY <1>3 DEF Young
<1>7. Updated(r) = IF tx[r].kind = "updateUser" THEN [user[x] EXCEPT !.role = tx[r].role]
                   ELSE [user[x] EXCEPT !.status = tx[r].view.status]
  BY DEF Updated, x
<1> QED
  BY <1>2, <1>3, <1>4, <1>5, <1>6, <1>7 DEF x

LEMMA CommitMutationFits ==
    ASSUME AccountsInv, NEW r \in AdminRequests, CommitMutation(r) PROVE AccountsInv'
<1> DEFINE x == tx[r].target
           T == TellOthers(r, {RowOf(x)})
<1>1. /\ tx[r].pc = "checked" /\ r \in Transactions
      /\ user' = [user EXCEPT ![x] = Updated(r)]
      /\ tx' = [T EXCEPT ![r] = Idle]
      /\ lockHolder' = IF lockHolder = r THEN NoRequest ELSE lockHolder
      /\ approved' = IF tx[r].kind = "approveUser" THEN approved \cup {x} ELSE approved
      /\ UNCHANGED <<workload, account, session, refresh, requested>>
  BY DEF CommitMutation, Transactions
<1>2. /\ T \in [Transactions -> TxRow]
      /\ \A q \in Transactions : Told(tx[q], T[q])
      /\ \A q \in Transactions \ {r} : tx[q].pc \in Open /\ tx[q].target = x => T[q].stale
  BY <1>1, TellsOthers
<1> HIDE DEF T
<1>3. /\ tx' \in [Transactions -> TxRow] /\ tx'[r] = Idle
      /\ \A q \in Transactions \ {r} : tx'[q] = T[q]
  BY <1>1, <1>2, IdleType
<1>4. x \in Users /\ Updated(r) \in Row /\ Updated(r).status # "none"
      /\ (tx[r].kind # "updateUser" => Updated(r).status \in {"ACTIVE", "INVITED", "SUSPENDED"})
      /\ (Young(x) => tx[r].kind = "approveUser")
  BY <1>1, UpdatedFacts
<1> HIDE DEF x
<1>5. user' \in [Users -> Row] /\ user'[x] = Updated(r)
      /\ \A y \in Users \ {x} : user'[y] = user[y]
  BY <1>1, <1>4 DEF AccountsInv
<1>6. NoRequest \notin Transactions /\ lockHolder = r /\ lockHolder' = NoRequest
  BY <1>1, TxKnown, AccountsConstants DEF Transactions, Shaped
<1>7. ASSUME NEW y \in Users PROVE Young(y)' => Young(y) /\ y # x
  <2>1. CASE y = x
    BY <1>1, <1>4, <1>5, <2>1 DEF Young
  <2>2. CASE y # x
    BY <1>1, <1>5, <2>2 DEF Young
  <2> QED
    BY <2>1, <2>2
<1>8. ASSUME NEW q \in Transactions, q # r PROVE TxFits(q, tx[q])'
  <2>1. Told(tx[q], tx'[q]) /\ tx'[q] = T[q]
    BY <1>2, <1>3, <1>8
  <2>2. CASE tx[q].pc # "idle"
    <3>1. tx[q].target \in Users /\ tx'[q].target = tx[q].target
      BY <2>1, <2>2, TxKnown DEF Told
    <3>2. Young(tx[q].target)' => Young(tx[q].target)
      BY <1>7, <3>1 DEF Young
    <3>3. BoundTo(tx[q].target)' = BoundTo(tx[q].target)
      BY <1>1, <3>1 DEF BoundTo
    <3>4. user'[tx[q].target] = user[tx[q].target] \/ tx'[q].stale \/ tx[q].pc \notin Open
      BY <1>2, <1>5, <1>8, <2>1, <3>1
    <3>5. lockHolder' = q <=> lockHolder = q
      BY <1>6, <1>8
    <3> QED
      BY <1>1, <2>1, <3>2, <3>3, <3>4, <3>5, OtherFits
  <2>3. CASE tx[q].pc = "idle"
    <3>1. lockHolder' = q <=> lockHolder = q
      BY <1>6, <1>8
    <3> QED
      BY <1>1, <2>1, <2>3, <3>1, OtherFits
  <2> QED
    BY <2>2, <2>3
<1>9. \A q \in Transactions : TxFits(q, tx[q])'
  BY <1>1, <1>3, <1>6, <1>8, IdleFits
<1>10. \A s \in Subs : account'[s] # NoUser =>
         account'[s] = EmailOf[s] /\ user'[account'[s]].status # "none"
  BY <1>1, <1>4, <1>5, AccountsConstants DEF AccountsInv
<1>11. \A y \in requested' : user'[y].status # "none"
  BY <1>1, <1>4, <1>5 DEF AccountsInv
<1>12. \A y \in Users : Young(y)' =>
         user'[y].status \in Unapproved /\ \A i \in SessionIds : session'[i].owner # y
  BY <1>1, <1>5, <1>7 DEF AccountsInv
<1>13. lockHolder' \in AdminRequests \cup {NoRequest} /\ approved' \subseteq Users
  BY <1>1, <1>4, <1>6 DEF AccountsInv
<1> QED
  BY <1>1, <1>3, <1>5, <1>9, <1>10, <1>11, <1>12, <1>13 DEF AccountsInv

LEMMA LoginReads ==
    ASSUME AccountsInv, NEW q \in LoginRequests, tx[q].pc = "binding"
    PROVE q \in Transactions /\ ReadsOf(q) = Writable(tx[q].target) /\ IsSerializable(q)
<1>1. q \in Transactions
  BY DEF Transactions
<1>2. tx[q].kind = "login"
  BY <1>1, TxKnown DEF Shaped
<1> QED
  BY <1>1, <1>2 DEF ReadsOf, IsSerializable

\* A binding that commits saw its user as it is, and the accounts too if it adds one.
LEMMA BindingKnown ==
    ASSUME AccountsInv, NEW r \in LoginRequests, tx[r].pc = "binding"
    PROVE LET x == tx[r].target IN
          /\ x \in Users /\ x = EmailOf[tx[r].sub] /\ tx[r].sub \in Subs /\ user[x] \in Row
          /\ tx[r].view \in Row
          /\ BindingCommits(r) => tx[r].view = user[x]
          /\ BindingCommits(r) /\ ~SubjectBound(r) => BoundTo(x) = tx[r].bound
          /\ tx[r].view.status = "none" => tx[r].bound = {}
<1>1. r \in Transactions /\ IsSerializable(r)
  BY LoginReads
<1>2. TxFits(r, tx[r]) /\ tx[r].target \in Users /\ user[tx[r].target] \in Row /\ tx[r] \in TxRow
  BY <1>1, TxKnown
<1>3. ~SubjectBound(r) => AccountsOf(tx[r].target) \in BindingWrites(r)
  BY DEF BindingWrites
<1>4. BindingCommits(r) => ~tx[r].stale /\ BindingWrites(r) \cap tx[r].missed = {}
  BY <1>1 DEF BindingCommits, CanCommit
<1> QED
  BY <1>2, <1>3, <1>4 DEF TxFits, Shaped, RowSeen, AccountsSeen, TxRow

\* What a binding that commits does to everything else.
LEMMA LoginWrites ==
    ASSUME AccountsInv, NEW r \in LoginRequests, tx[r].pc = "binding", BindingCommits(r),
           NEW x, x = tx[r].target, NEW row \in Row,
           user' = [user EXCEPT ![x] = row],
           row = user[x] \/ user[x].status \in {"none", "INVITED"},
           row.status # "none",
           \/ account' = account
           \/ /\ account' = [account EXCEPT ![tx[r].sub] = x]
              /\ ~SubjectBound(r) /\ tx[r].bound = {},
           tx' \in [Transactions -> TxRow], TxFits(r, tx[r])',
           \A q \in Transactions \ {r} : tx'[q] = TellOthers(r, BindingWrites(r))[q],
           \/ requested' = requested
           \/ /\ requested' = requested \cup {x}
              /\ user[x].status = "none" /\ row.status = "PENDING_APPROVAL",
           UNCHANGED <<workload, lockHolder, session, refresh, approved>>
    PROVE AccountsInv'
<1> DEFINE W == BindingWrites(r)
<1>1. /\ r \in Transactions /\ IsSerializable(r) /\ ReadsOf(r) = Writable(x)
      /\ x \in Users /\ x = EmailOf[tx[r].sub] /\ tx[r].sub \in Subs /\ user[x] \in Row
      /\ tx[r].view = user[x]
      /\ ~SubjectBound(r) => BoundTo(x) = tx[r].bound
  BY LoginReads, BindingKnown
<1>2. /\ user' \in [Users -> Row] /\ user'[x] = row /\ \A y \in Users \ {x} : user'[y] = user[y]
      /\ user \in [Users -> Row] /\ account \in [Subs -> Users \cup {NoUser}]
  BY <1>1 DEF AccountsInv
<1>3. account' # account =>
        /\ BoundTo(x) = {} /\ account'[tx[r].sub] = x
        /\ AccountsOf(x) \in W
        /\ \A s \in Subs \ {tx[r].sub} : account'[s] = account[s]
  BY <1>1, <1>2 DEF BindingWrites
<1>4. account' \in [Subs -> Users \cup {NoUser}]
  BY <1>1, <1>2
<1>5. user' # user => RowOf(x) \in W
  <2>1. user'[x] = user[x] => user' = user
    BY <1>2
  <2> QED
    BY <1>1, <1>2, <2>1 DEF BindingWrites
<1>6. ASSUME NEW y \in Users PROVE Young(y)' => Young(y)
  BY <1>1, <1>2 DEF Young
<1>7. ASSUME NEW q \in Transactions, q # r PROVE TxFits(q, tx[q])'
  <2>1. /\ tx'[q] = TellOthers(r, W)[q] /\ Told(tx[q], tx'[q])
        /\ tx[q].pc \in Open =>
             /\ RowOf(tx[q].target) \in W => tx'[q].stale
             /\ W \cap ReadsOf(q) # {} =>
                  ReadsOf(r) \cap Writable(tx[q].target) \subseteq tx'[q].missed
    BY <1>1, <1>7, TellsOthers
  <2>2. CASE tx[q].pc = "idle"
    BY <2>1, <2>2, OtherFits
  <2>3. ASSUME NEW y, y = tx[q].target, tx[q].pc # "idle" PROVE TxFits(q, tx[q])'
    <3>1. y \in Users /\ tx'[q].target = y /\ tx[q].target = y
      BY <1>7, <2>1, <2>3, TxKnown DEF Told
    <3>2. user'[y] = user[y] \/ tx'[q].stale \/ tx[q].pc \notin Open
      BY <1>2, <1>5, <2>1, <3>1
    <3>3. Young(y)' => Young(y)
      BY <1>6, <3>1
    <3>4. ASSUME tx[q].pc = "binding"
          PROVE BoundTo(y)' = BoundTo(y) \/ AccountsOf(y) \in tx'[q].missed
      <4>1. CASE account' = account \/ y # x
        <5>1. account[tx[r].sub] \in {x, NoUser} /\ y # NoUser
          BY <1>1, <3>1, AccountsConstants DEF AccountsInv
        <5>2. account' # account /\ y # x =>
                \A s \in Subs : account'[s] = y <=> account[s] = y
          BY <1>1, <1>3, <5>1
        <5> QED
          BY <4>1, <5>2 DEF BoundTo
      <4>2. CASE account' # account /\ y = x
        <5>1. q \in LoginRequests
          BY <1>7, <3>4, TxKnown DEF Shaped, Transactions
        <5>2. ReadsOf(q) = Writable(x)
          BY <3>1, <3>4, <4>2, <5>1, LoginReads
        <5>3. AccountsOf(x) \in W /\ AccountsOf(x) \in Writable(x)
          BY <1>3, <4>2 DEF Writable
        <5> QED
          BY <1>1, <2>1, <3>1, <3>4, <4>2, <5>2, <5>3 DEF Open
      <4> QED
        BY <4>1, <4>2
    <3>5. /\ user'[tx[q].target] = user[tx[q].target] \/ tx'[q].stale \/ tx[q].pc \notin Open
          /\ Young(tx[q].target)' => Young(tx[q].target)
          /\ tx[q].pc = "binding" =>
               BoundTo(tx[q].target)' = BoundTo(tx[q].target)
               \/ AccountsOf(tx[q].target) \in tx'[q].missed
      BY <3>1, <3>2, <3>3, <3>4 DEF BoundTo, Young
    <3> QED
      BY <2>1, <3>5, OtherFits
  <2> QED
    BY <2>2, <2>3
<1>8. \A q \in Transactions : TxFits(q, tx[q])'
  BY <1>7
<1>9. ASSUME NEW s \in Subs, account'[s] # NoUser
      PROVE account'[s] = EmailOf[s] /\ user'[account'[s]].status # "none"
  <2>1. CASE account'[s] = account[s]
    <3>1. account[s] = EmailOf[s] /\ user[account[s]].status # "none" /\ account[s] \in Users
      BY <1>2, <1>9, <2>1 DEF AccountsInv
    <3> QED
      BY <1>2, <2>1, <3>1
  <2>2. CASE account'[s] # account[s]
    BY <1>1, <1>2, <1>3, <2>2
  <2> QED
    BY <2>1, <2>2
<1>10. ASSUME NEW s \in Subs, NEW t \in Subs, account'[s] = account'[t], account'[s] # NoUser
       PROVE s = t
  <2>1. CASE account' = account
    BY <1>10, <2>1 DEF AccountsInv
  <2>2. CASE account' # account
    BY <1>3, <1>10, <2>2 DEF BoundTo, AccountsInv
  <2> QED
    BY <2>1, <2>2
<1>11. requested' \subseteq Users /\ \A y \in requested' : user'[y].status # "none"
  BY <1>1, <1>2 DEF AccountsInv
<1>12. ASSUME NEW y \in Users, Young(y)'
       PROVE user'[y].status \in Unapproved /\ \A i \in SessionIds : session'[i].owner # y
  <2>1. Young(y) /\ user[y].status \in Unapproved /\ \A i \in SessionIds : session[i].owner # y
    BY <1>6, <1>12 DEF AccountsInv
  <2>2. CASE y # x
    BY <1>2, <2>1, <2>2
  <2>3. CASE y = x
    <3>1. y \in requested' \ approved
      BY <1>2, <1>12, <2>3 DEF Young
    <3>2. row = user[x] \/ row.status = "PENDING_APPROVAL"
      BY <2>1, <2>3, <3>1 DEF AccountsInv, Unapproved
    <3> QED
      BY <1>2, <2>1, <2>3, <3>2 DEF Unapproved
  <2> QED
    BY <2>2, <2>3
<1> QED
  BY <1>2, <1>4, <1>8, <1>9, <1>10, <1>11, <1>12 DEF AccountsInv

LEMMA RequestAccessFits ==
    ASSUME AccountsInv, NEW r \in LoginRequests, RequestAccess(r) PROVE AccountsInv'
<1> DEFINE row == [status |-> "PENDING_APPROVAL", role |-> "VIEWER"]
           T == TellOthers(r, BindingWrites(r))
<1>1. /\ tx[r].pc = "binding" /\ BindingCommits(r) /\ ~SubjectBound(r)
      /\ tx[r].view.status = "none"
      /\ user' = [user EXCEPT ![tx[r].target] = row]
      /\ account' = [account EXCEPT ![tx[r].sub] = tx[r].target]
      /\ tx' = [T EXCEPT ![r] = Idle]
      /\ requested' = requested \cup {tx[r].target}
      /\ UNCHANGED <<workload, lockHolder, session, refresh, approved>>
  BY DEF RequestAccess
<1>2. r \in Transactions /\ lockHolder # r
  BY <1>1, NotHolding DEF Transactions
<1>3. T \in [Transactions -> TxRow]
  BY <1>2, TellsOthers
<1> HIDE DEF T
<1>4. /\ tx' \in [Transactions -> TxRow] /\ tx'[r] = Idle
      /\ \A q \in Transactions \ {r} : tx'[q] = T[q]
  BY <1>1, <1>2, <1>3, IdleType
<1>5. TxFits(r, tx[r])'
  BY <1>1, <1>2, <1>4, IdleFits
<1>6. row \in Row /\ row.status = "PENDING_APPROVAL"
  BY DEF Row, Statuses, Roles
<1>7. user[tx[r].target].status = "none" /\ tx[r].bound = {}
  BY <1>1, BindingKnown
<1> HIDE DEF row
<1> QED
  BY <1>1, <1>4, <1>5, <1>6, <1>7, LoginWrites DEF T

\* A login that found its user ends the binding with the user activated.
LEMMA ActivateFits ==
    ASSUME AccountsInv, NEW r \in LoginRequests, tx[r].pc = "binding", BindingCommits(r),
           tx[r].view.status # "none",
           user' = [user EXCEPT ![tx[r].target] = Activated(tx[r].view)],
           \/ account' = account
           \/ /\ account' = [account EXCEPT ![tx[r].sub] = tx[r].target]
              /\ ~SubjectBound(r) /\ tx[r].bound = {},
           tx' = [TellOthers(r, BindingWrites(r)) EXCEPT ![r] = AfterBinding(r, tx[r].view)],
           UNCHANGED <<workload, lockHolder, session, refresh, requested, approved>>
    PROVE AccountsInv'
<1> DEFINE row == Activated(tx[r].view)
           x == tx[r].target
           T == TellOthers(r, BindingWrites(r))
           t == AfterBinding(r, tx[r].view)
<1>1. /\ r \in Transactions /\ lockHolder # r /\ x \in Users
      /\ tx[r].view \in Row /\ tx[r].view = user[x] /\ user \in [Users -> Row]
  BY NotHolding, BindingKnown DEF Transactions, AccountsInv
<1>2. T \in [Transactions -> TxRow]
  BY <1>1, TellsOthers
<1>3. row \in Row /\ row.status # "none" /\ (row = user[x] \/ user[x].status = "INVITED")
  BY <1>1, ActivatedType
<1>4. /\ t \in TxRow
      /\ \/ t = Idle
         \/ row.status = "ACTIVE" /\ t.pc = "session" /\ t.target = x
  BY <1>1, AfterBindingFits
<1> HIDE DEF T, row, t
<1>5. /\ tx' \in [Transactions -> TxRow] /\ tx'[r] = t
      /\ \A q \in Transactions \ {r} : tx'[q] = T[q]
  BY <1>1, <1>2, <1>4 DEF T, t
<1>6. user'[x] = row
  BY <1>1 DEF row
<1>7. TxFits(r, tx[r])'
  <2>1. CASE t = Idle
    BY <1>1, <1>5, <2>1, IdleFits
  <2>2. CASE row.status = "ACTIVE" /\ t.pc = "session" /\ t.target = x
    <3>1. x \in requested \ approved => user[x].status = "PENDING_APPROVAL"
      BY <1>1 DEF AccountsInv, Young, Unapproved
    <3>2. x \notin requested \ approved
      BY <1>3, <2>2, <3>1
    <3>3. ~Young(tx[r].target)'
      BY <1>5, <1>6, <2>2, <3>2 DEF Young
    <3> QED
      BY <1>1, <1>4, <1>5, <2>2, <3>3, SessionPartFits
  <2> QED
    BY <1>4, <2>1, <2>2
<1> QED
  BY <1>3, <1>5, <1>7, LoginWrites DEF T, row

LEMMA LoginBoundFits ==
    ASSUME AccountsInv, NEW r \in LoginRequests, LoginBound(r) PROVE AccountsInv'
<1>1. /\ tx[r].pc = "binding" /\ SubjectBound(r)
      /\ UNCHANGED <<workload, account, lockHolder, session, refresh, requested, approved>>
  BY DEF LoginBound
<1>2. CASE tx[r].view.status = "INVITED"
  BY <1>1, <1>2, ActivateFits DEF LoginBound
<1>3. CASE tx[r].view.status # "INVITED"
  <2> DEFINE t == AfterBinding(r, tx[r].view)
  <2>1. tx' = [tx EXCEPT ![r] = t] /\ UNCHANGED user
    BY <1>3 DEF LoginBound
  <2>2. r \in Transactions /\ lockHolder # r /\ tx[r].view \in Row /\ tx[r].target \in Users
    BY <1>1, NotHolding, BindingKnown DEF Transactions
  <2>3. /\ t \in TxRow
        /\ \/ t = Idle
           \/ tx[r].view.status = "ACTIVE" /\ t.pc = "session" /\ t.target = tx[r].target
    BY <1>1, <1>3, <2>2, AfterBindingFits, ActivatedType
  <2> HIDE DEF t
  <2>4. tx'[r] = t /\ tx' \in [Transactions -> TxRow]
        /\ \A q \in Transactions \ {r} : tx'[q] = tx[q]
    BY <2>1, <2>2, <2>3, Replaced
  <2>5. TxFits(r, tx[r])'
    <3>1. CASE t = Idle
      BY <1>1, <2>2, <2>4, <3>1, IdleFits
    <3>2. CASE tx[r].view.status = "ACTIVE" /\ t.pc = "session" /\ t.target = tx[r].target
      <4>1. ~Young(tx[r].target)
        BY <1>1, <2>2, <3>2, TxKnown DEF SeenYoung, Unapproved
      <4>2. ~Young(tx[r].target)'
        BY <1>1, <2>1, <2>4, <3>2, <4>1 DEF Young
      <4> QED
        BY <1>1, <2>2, <2>3, <2>4, <3>2, <4>2, SessionPartFits
    <3> QED
      BY <2>3, <3>1, <3>2
  <2> QED
    BY <1>1, <2>1, <2>2, <2>4, <2>5, ActorMoves
<1> QED
  BY <1>2, <1>3

LEMMA LoginFits ==
    ASSUME AccountsInv, NEW r \in LoginRequests,
           \/ \E s \in Subs : BeginLogin(r, s)
           \/ RetryLogin(r) \/ RequestAccess(r) \/ Bind(r) \/ LoginBound(r)
           \/ RefuseLogin(r) \/ CheckSessionOwner(r)
           \/ \E i \in SessionIds : InsertSession(r, i)
    PROVE AccountsInv'
<1>1. r \in Transactions
  BY DEF Transactions
<1>2. CASE \E s \in Subs : BeginLogin(r, s)
  <2>1. 1 \in 0..MaxAttempts
    BY AccountsConstants
  <2> QED
    BY <1>2, <2>1, AttemptFits DEF BeginLogin
<1>3. CASE RetryLogin(r)
  <2>1. tx[r].sub \in Subs /\ tx[r].attempt \in 0..MaxAttempts /\ tx[r].pc = "binding"
    BY <1>1, <1>3, TxKnown DEF RetryLogin, Shaped, TxRow
  <2>2. CASE tx[r].attempt < MaxAttempts
    <3>1. tx[r].attempt + 1 \in 0..MaxAttempts
      BY <2>1, <2>2, AccountsConstants
    <3> QED
      BY <1>3, <2>1, <2>2, <3>1, AttemptFits DEF RetryLogin
  <2>3. CASE ~(tx[r].attempt < MaxAttempts)
    BY <1>1, <1>3, <2>1, <2>3, NotHolding, ActorEnds DEF RetryLogin
  <2> QED
    BY <2>2, <2>3
<1>4. CASE Bind(r)
  <2>1. tx[r].bound = {} /\ tx[r].view.status # "none" /\ tx[r].pc = "binding"
    BY <1>4 DEF Bind, MayBind, SubjectBound, OtherBound
  <2> QED
    BY <1>4, <2>1, ActivateFits DEF Bind, MayBind
<1>5. CASE RefuseLogin(r)
  BY <1>1, <1>5, NotHolding, ActorEnds DEF RefuseLogin, EndLogin
<1> QED
  BY <1>2, <1>3, <1>4, <1>5, RequestAccessFits, LoginBoundFits, CheckSessionOwnerFits,
     InsertSessionFits

-----------------------------------------------------------------------------
(* Every step.                                                             *)

LEMMA SessionType ==
    ASSUME NEW row \in SessionRow, NEW n \in Nat, NEW used \in SUBSET (RefreshRequests \X Nat)
    PROVE /\ [row EXCEPT !.token = n, !.redeemed = used] \in SessionRow
          /\ [row EXCEPT !.token = n, !.redeemed = used].owner = row.owner
          /\ [row EXCEPT !.revoked = TRUE] \in SessionRow
          /\ [row EXCEPT !.revoked = TRUE].owner = row.owner
          /\ [row EXCEPT !.expired = TRUE] \in SessionRow
          /\ [row EXCEPT !.expired = TRUE].owner = row.owner
BY DEF SessionRow

LEMMA ExchangeFits ==
    ASSUME AccountsInv,
           \/ \E q \in RefreshRequests :
                \/ \E i \in SessionIds, n \in 1..MaxRotations : ReadForRefresh(q, i, n)
                \/ SwapToken(q)
           \/ \E i \in SessionIds : Logout(i) \/ Expire(i)
    PROVE AccountsInv'
<1>1. UNCHANGED <<workload, user, account, lockHolder, tx, requested, approved>>
  BY DEF ReadForRefresh, SwapToken, Logout, Expire
<1>2. /\ session \in [SessionIds -> SessionRow] /\ refresh \in [RefreshRequests -> RefreshState]
      /\ 0 \in Nat /\ \A n \in 1..MaxRotations : n \in Nat
  BY AccountsConstants DEF AccountsInv
<1>3. ASSUME NEW q \in RefreshRequests, NEW i \in SessionIds, NEW n \in 1..MaxRotations,
             ReadForRefresh(q, i, n)
      PROVE AccountsInv'
  <2>1. session' = session /\ refresh' \in [RefreshRequests -> RefreshState]
    BY <1>2, <1>3 DEF ReadForRefresh, RefreshState
  <2> QED
    BY <1>1, <1>2, <2>1, SessionsMove
<1>4. ASSUME NEW q \in RefreshRequests, SwapToken(q) PROVE AccountsInv'
  <2> DEFINE i == refresh[q].session
             n == session[i].token + 1
             used == session[i].redeemed \cup {<<q, refresh[q].token>>}
             w == [session[i] EXCEPT !.token = n, !.redeemed = used]
  <2>1. i \in SessionIds /\ refresh[q].token \in Nat
    BY <1>2, <1>4 DEF SwapToken, RefreshState
  <2>2. session[i] \in SessionRow /\ used \in SUBSET (RefreshRequests \X Nat) /\ n \in Nat
    BY <1>2, <2>1 DEF SessionRow
  <2>3. w \in SessionRow /\ w.owner = session[i].owner
    <3> HIDE DEF n, used
    <3> QED
      BY <2>2 DEF SessionRow
  <2>4. session' = session \/ session' = [session EXCEPT ![i] = w]
    BY <1>4 DEF SwapToken
  <2>5. refresh' \in [RefreshRequests -> RefreshState]
    BY <1>2, <1>4, AccountsConstants DEF SwapToken, RefreshState
  <2> HIDE DEF w, i
  <2>6. session' \in [SessionIds -> SessionRow]
        /\ \A j \in SessionIds : session'[j].owner = session[j].owner
    BY <1>2, <2>1, <2>3, <2>4
  <2> QED
    BY <1>1, <2>5, <2>6, SessionsMove
<1>5. ASSUME NEW i \in SessionIds, Logout(i) \/ Expire(i) PROVE AccountsInv'
  <2>1. refresh' = refresh /\ session' \in [SessionIds -> SessionRow]
        /\ \A j \in SessionIds : session'[j].owner = session[j].owner
    <3>1. /\ [session[i] EXCEPT !.revoked = TRUE] \in SessionRow
          /\ [session[i] EXCEPT !.revoked = TRUE].owner = session[i].owner
          /\ [session[i] EXCEPT !.expired = TRUE] \in SessionRow
          /\ [session[i] EXCEPT !.expired = TRUE].owner = session[i].owner
      BY <1>2, SessionType
    <3>2. refresh' = refresh
          /\ \/ session' = [session EXCEPT ![i] = [session[i] EXCEPT !.revoked = TRUE]]
             \/ session' = [session EXCEPT ![i] = [session[i] EXCEPT !.expired = TRUE]]
      BY <1>5 DEF Logout, Expire
    <3> QED
      BY <1>2, <3>1, <3>2
  <2> QED
    BY <1>1, <1>2, <2>1, SessionsMove
<1> QED
  BY <1>3, <1>4, <1>5

LEMMA AccountsStepFits == AccountsInv /\ [AccountsNext]_accountsVars => AccountsInv'
<1> SUFFICES ASSUME AccountsInv, [AccountsNext]_accountsVars PROVE AccountsInv'
  OBVIOUS
<1>1. ASSUME NEW r \in AdminRequests, GiveUp(r) PROVE AccountsInv'
  BY <1>1, ActorEnds DEF GiveUp, Transactions
<1>2. CASE UNCHANGED accountsVars
  <2>1. session' \in [SessionIds -> SessionRow] /\ refresh' \in [RefreshRequests -> RefreshState]
    BY <1>2 DEF accountsVars, AccountsInv
  <2> QED
    BY <1>2, <2>1, SessionsMove DEF accountsVars
<1> QED
  BY <1>1, <1>2, CreateUserFits, BeginMutationFits, CheckMutationFits, CommitMutationFits,
     LoginFits, ExchangeFits DEF AccountsNext

LEMMA AccountsInitFits == AccountsInit => AccountsInv
<1> SUFFICES ASSUME AccountsInit PROVE AccountsInv
  OBVIOUS
<1>1. user \in [Users -> Row] /\ account \in [Subs -> Users \cup {NoUser}]
      /\ tx \in [Transactions -> TxRow]
  BY IdleType, AbsentType DEF AccountsInit, Row, Statuses, Roles
<1>2. /\ session \in [SessionIds -> SessionRow]
      /\ \A i \in SessionIds : session[i].owner = NoUser
  BY DEF AccountsInit, SessionRow
<1>3. refresh \in [RefreshRequests -> RefreshState]
  BY DEF AccountsInit, RefreshState
<1>4. ASSUME NEW r \in Transactions PROVE TxFits(r, tx[r])
  <2>1. tx[r] = Idle /\ lockHolder # r
    BY AccountsConstants DEF AccountsInit, Transactions
  <2> QED
    BY <2>1, IdleType DEF TxFits, Shaped, RowSeen, AccountsSeen, SeenYoung
<1>5. \A x \in Users : Young(x) => user[x].status \in Unapproved /\ x # NoUser
  BY AccountsConstants DEF AccountsInit, Young, Unapproved
<1> QED
  BY <1>1, <1>2, <1>3, <1>4, <1>5 DEF AccountsInit, AccountsInv

\* Users, accounts, transactions and sessions have their types.
THEOREM AccountsTypes == AccountsSpec => []AccountsTypeOK
<1>1. AccountsInv => AccountsTypeOK
  <2> SUFFICES ASSUME AccountsInv PROVE AccountsTypeOK
    OBVIOUS
  <2>1. \A r \in Transactions :
          /\ tx[r].pc \in {"idle", "waiting", "checked", "binding", "session", "insert"}
          /\ tx[r].pc # "idle" => tx[r].target \in Users
          /\ tx[r].view \in Row /\ tx[r].attempt \in 0..MaxAttempts
    BY TxKnown DEF TxRow
  <2>2. \A i \in SessionIds : session[i].owner \in Users \cup {NoUser}
    BY DEF AccountsInv, SessionRow
  <2> QED
    BY <2>1, <2>2 DEF AccountsInv, AccountsTypeOK
<1> QED
  BY <1>1, AccountsInitFits, AccountsStepFits, PTL DEF AccountsSpec

\* However many logins bind subjects of one address at once, a user has at most
\* one Google account, although no index of the database says so.
THEOREM OneAccount == AccountsSpec => []OneGoogleAccount
<1>1. AccountsInv => OneGoogleAccount
  <2> SUFFICES ASSUME AccountsInv, NEW x \in Users PROVE Cardinality(BoundTo(x)) <= 1
    BY DEF OneGoogleAccount
  <2>1. x # NoUser
    BY AccountsConstants
  <2>2. CASE BoundTo(x) = {}
    BY <2>2, FS_EmptySet
  <2>3. ASSUME NEW s \in BoundTo(x) PROVE Cardinality(BoundTo(x)) <= 1
    <3>1. BoundTo(x) = {s}
      BY <2>1, <2>3 DEF BoundTo, AccountsInv
    <3> QED
      BY <3>1, FS_Singleton
  <2> QED
    BY <2>2, <2>3
<1> QED
  BY <1>1, AccountsInitFits, AccountsStepFits, PTL DEF AccountsSpec

\* A user who asked for access is neither active nor has a session before an
\* administrator approved them, whatever else is under way on the row.
THEOREM ApprovalFirst == AccountsSpec => []ApprovalBeforeAccess
<1>1. AccountsInv => ApprovalBeforeAccess
  BY DEF AccountsInv, ApprovalBeforeAccess, Young, Unapproved
<1> QED
  BY <1>1, AccountsInitFits, AccountsStepFits, PTL DEF AccountsSpec

-----------------------------------------------------------------------------
(* Tokens.                                                                 *)

\* What a step may do to one row of Session.
LEMMA SessionSteps ==
    ASSUME AccountsInv, [AccountsNext]_accountsVars, NEW i \in SessionIds
    PROVE \/ session'[i] = session[i]
          \/ /\ session[i].owner = NoUser /\ session'[i].owner \in Users
             /\ session'[i].token = 1 /\ session'[i].redeemed = session[i].redeemed
          \/ /\ Live(i) /\ session'[i].owner = session[i].owner
             /\ session'[i].token = session[i].token + 1
             /\ \E q \in RefreshRequests :
                  session'[i].redeemed = session[i].redeemed \cup {<<q, session[i].token>>}
          \/ /\ session'[i].owner = session[i].owner /\ session'[i].token = session[i].token
             /\ session'[i].redeemed = session[i].redeemed
             /\ session[i].revoked => session'[i].revoked
             /\ session[i].expired => session'[i].expired
<1> DEFINE Goal ==
          \/ session'[i] = session[i]
          \/ /\ session[i].owner = NoUser /\ session'[i].owner \in Users
             /\ session'[i].token = 1 /\ session'[i].redeemed = session[i].redeemed
          \/ /\ Live(i) /\ session'[i].owner = session[i].owner
             /\ session'[i].token = session[i].token + 1
             /\ \E q \in RefreshRequests :
                  session'[i].redeemed = session[i].redeemed \cup {<<q, session[i].token>>}
          \/ /\ session'[i].owner = session[i].owner /\ session'[i].token = session[i].token
             /\ session'[i].redeemed = session[i].redeemed
             /\ session[i].revoked => session'[i].revoked
             /\ session[i].expired => session'[i].expired
<1>1. session \in [SessionIds -> SessionRow] /\ session[i] \in SessionRow
  BY DEF AccountsInv
<1>2. CASE session' = session
  BY <1>2
<1>3. ASSUME NEW r \in LoginRequests, NEW j \in SessionIds, InsertSession(r, j) PROVE Goal
  <2>1. CASE j # i
    BY <1>1, <1>3, <2>1 DEF InsertSession
  <2>2. CASE j = i
    <3>1. session' = [session EXCEPT ![i] = [session[i] EXCEPT !.owner = tx[r].target, !.token = 1]]
          /\ session[i].owner = NoUser
      BY <1>1, <1>3, <2>2 DEF InsertSession
    <3>2. tx[r].target \in Users
      BY <1>3, TxKnown DEF InsertSession, Transactions
    <3>3. session'[i] = [session[i] EXCEPT !.owner = tx[r].target, !.token = 1]
      BY <1>1, <3>1
    <3> QED
      BY <1>1, <3>1, <3>2, <3>3 DEF SessionRow
  <2> QED
    BY <2>1, <2>2
<1>4. ASSUME NEW q \in RefreshRequests, SwapToken(q) PROVE Goal
  <2>1. CASE refresh[q].session # i \/ ~SwapAllowed(q)
    BY <1>1, <1>4, <2>1 DEF SwapToken
  <2>2. CASE refresh[q].session = i /\ SwapAllowed(q)
    <3> DEFINE used == session[i].redeemed \cup {<<q, session[i].token>>}
               n == session[i].token + 1
    <3>1. session[i].token = refresh[q].token /\ Live(i)
      BY <2>2 DEF SwapAllowed
    <3>2. session' = [session EXCEPT ![i] = [session[i] EXCEPT !.token = n, !.redeemed = used]]
      BY <1>1, <1>4, <2>2, <3>1 DEF SwapToken
    <3> HIDE DEF used, n
    <3>3. session'[i] = [session[i] EXCEPT !.token = n, !.redeemed = used]
      BY <1>1, <3>2
    <3>4. session'[i].owner = session[i].owner /\ session'[i].token = n
          /\ session'[i].redeemed = used
      BY <1>1, <3>3 DEF SessionRow
    <3> QED
      BY <3>1, <3>4 DEF used, n
  <2> QED
    BY <2>1, <2>2
<1>5. ASSUME NEW j \in SessionIds, Logout(j) \/ Expire(j) PROVE Goal
  <2>1. CASE j # i
    BY <1>1, <1>5, <2>1 DEF Logout, Expire
  <2>2. CASE j = i
    <3>1. \/ session'[i] = [session[i] EXCEPT !.revoked = TRUE]
          \/ session'[i] = [session[i] EXCEPT !.expired = TRUE]
      BY <1>1, <1>5, <2>2 DEF Logout, Expire
    <3> QED
      BY <1>1, <3>1 DEF SessionRow
  <2> QED
    BY <2>1, <2>2
<1>6. CASE \/ \E x \in Users, role \in Roles : CreateUser(x, role)
           \/ \E r \in AdminRequests :
                \/ \E kind \in Mutations, x \in Users, role \in Roles :
                     BeginMutation(r, kind, x, role)
                \/ CheckMutation(r) \/ CommitMutation(r) \/ GiveUp(r)
           \/ \E r \in LoginRequests :
                \/ \E s \in Subs : BeginLogin(r, s)
                \/ RetryLogin(r) \/ RequestAccess(r) \/ Bind(r) \/ LoginBound(r)
                \/ RefuseLogin(r) \/ CheckSessionOwner(r)
           \/ \E q \in RefreshRequests :
                \E j \in SessionIds, n \in 1..MaxRotations : ReadForRefresh(q, j, n)
           \/ UNCHANGED accountsVars
  <2>1. session' = session
    BY <1>6 DEF CreateUser, BeginMutation, CheckMutation, CommitMutation, GiveUp, BeginLogin,
                RetryLogin, RequestAccess, Bind, LoginBound, RefuseLogin, CheckSessionOwner,
                ReadForRefresh, accountsVars
  <2> QED
    BY <1>2, <2>1
<1> QED
  BY <1>3, <1>4, <1>5, <1>6 DEF AccountsNext

LEMMA RotationInitFits == AccountsInit => RotationInv
<1> SUFFICES ASSUME AccountsInit PROVE RotationInv
  OBVIOUS
<1>1. \A i \in SessionIds : session[i].owner = NoUser /\ session[i].token = 0
                            /\ session[i].redeemed = {}
  BY DEF AccountsInit
<1> QED
  BY <1>1 DEF RotationInv

LEMMA RotationStepFits ==
    AccountsInv /\ RotationInv /\ [AccountsNext]_accountsVars => RotationInv'
<1> SUFFICES ASSUME AccountsInv, RotationInv, [AccountsNext]_accountsVars,
                    NEW i \in SessionIds
             PROVE /\ session'[i].owner = NoUser =>
                        session'[i].token = 0 /\ session'[i].redeemed = {}
                   /\ session'[i].owner # NoUser =>
                        session'[i].token >= 1
                        /\ {p[2] : p \in session'[i].redeemed} = 1..(session'[i].token - 1)
                   /\ \A p, r \in session'[i].redeemed : p[2] = r[2] => p = r
  BY DEF RotationInv
<1>1. session[i] \in SessionRow /\ NoUser \notin Users
  BY AccountsConstants DEF AccountsInv
<1>2. /\ session[i].owner = NoUser => session[i].token = 0 /\ session[i].redeemed = {}
      /\ session[i].owner # NoUser =>
           session[i].token >= 1
           /\ {p[2] : p \in session[i].redeemed} = 1..(session[i].token - 1)
      /\ \A p, r \in session[i].redeemed : p[2] = r[2] => p = r
  BY DEF RotationInv
<1>3. CASE \/ session'[i] = session[i]
           \/ /\ session'[i].owner = session[i].owner /\ session'[i].token = session[i].token
              /\ session'[i].redeemed = session[i].redeemed
  BY <1>2, <1>3
<1>4. CASE /\ session[i].owner = NoUser /\ session'[i].owner \in Users
           /\ session'[i].token = 1 /\ session'[i].redeemed = session[i].redeemed
  <2>1. session'[i].redeemed = {} /\ {p[2] : p \in session'[i].redeemed} = {}
    BY <1>2, <1>4
  <2> QED
    BY <1>1, <1>4, <2>1
<1>5. ASSUME Live(i), session'[i].owner = session[i].owner,
             session'[i].token = session[i].token + 1, NEW q \in RefreshRequests,
             session'[i].redeemed = session[i].redeemed \cup {<<q, session[i].token>>}
      PROVE /\ session'[i].owner # NoUser /\ session'[i].token >= 1
            /\ {p[2] : p \in session'[i].redeemed} = 1..(session'[i].token - 1)
            /\ \A p, r \in session'[i].redeemed : p[2] = r[2] => p = r
  <2> DEFINE n == session[i].token
             R == session[i].redeemed
  <2>1. n \in Nat /\ n >= 1 /\ {p[2] : p \in R} = 1..(n - 1)
        /\ \A p, r \in R : p[2] = r[2] => p = r
    BY <1>1, <1>2, <1>5 DEF Live, SessionRow
  <2>2. session'[i].owner # NoUser
    BY <1>5 DEF Live
  <2> HIDE DEF n, R
  <2>3. \A p \in R : p[2] \in 1..(n - 1)
    BY <2>1
  <2>4. \A p \in R : p[2] # n
    BY <2>1, <2>3
  <2>5. session'[i].redeemed = R \cup {<<q, n>>} /\ session'[i].token = n + 1
    BY <1>5 DEF n, R
  <2>6. {p[2] : p \in R \cup {<<q, n>>}} = {p[2] : p \in R} \cup {n}
    <3>1. <<q, n>>[2] = n
      OBVIOUS
    <3>2. \A y : y \in {p[2] : p \in R \cup {<<q, n>>}} <=>
                  y \in {p[2] : p \in R} \cup {<<q, n>>[2]}
      OBVIOUS
    <3> QED
      BY <3>1, <3>2
  <2>7. 1..(n - 1) \cup {n} = 1..((n + 1) - 1)
    BY <2>1
  <2>8. \A p, r \in R \cup {<<q, n>>} : p[2] = r[2] => p = r
    BY <2>1, <2>4
  <2> QED
    BY <2>1, <2>2, <2>5, <2>6, <2>7, <2>8
<1> QED
  BY <1>3, <1>4, <1>5, SessionSteps

\* Of two refreshes with one token one is refused, and every token up to the
\* current one was redeemed: rotation never forks and never skips.
THEOREM RotationSound == AccountsSpec => []RedeemedOnce
<1>1. RotationInv => RedeemedOnce
  BY DEF RotationInv, RedeemedOnce
<1>2. AccountsInit => AccountsInv /\ RotationInv
  BY AccountsInitFits, RotationInitFits
<1>3. (AccountsInv /\ RotationInv) /\ [AccountsNext]_accountsVars
        => (AccountsInv /\ RotationInv)'
  BY AccountsStepFits, RotationStepFits
<1> QED
  BY <1>1, <1>2, <1>3, PTL DEF AccountsSpec

\* No refresh that is under way brings back a session that was revoked or expired.
THEOREM ClosedStaysClosed == AccountsSpec => ClosedIsFinal
<1> DEFINE Closed == \A i \in SessionIds : session[i].owner # NoUser /\ ~Live(i) =>
                       session'[i].token = session[i].token /\ ~Live(i)'
<1>1. ASSUME AccountsInv, [AccountsNext]_accountsVars PROVE Closed
  <2>1. ASSUME NEW i \in SessionIds, session[i].owner # NoUser, ~Live(i)
        PROVE session'[i].token = session[i].token /\ ~Live(i)'
    <3>1. session[i].revoked \/ session[i].expired
      BY <2>1 DEF Live
    <3>2. CASE session'[i] = session[i]
      BY <3>1, <3>2 DEF Live
    <3> QED
      BY <1>1, <2>1, <3>1, <3>2, SessionSteps DEF Live
  <2> QED
    BY <2>1
<1>2. AccountsInv /\ [AccountsNext]_accountsVars => [Closed]_accountsVars
  BY <1>1
<1> QED
  BY <1>2, AccountsInitFits, AccountsStepFits, PTL DEF AccountsSpec, ClosedIsFinal

-----------------------------------------------------------------------------
(* The last administrator.                                                 *)

\* Suspensions decide on a snapshot and changes of role on the tables, so the two
\* kinds are sound each by itself.
MutationsApart ==
    /\ Seeded # {}
    /\ \A w \in Workloads : ~({"updateUser", "suspendUser"} \subseteq w)

AdminFits(t) ==
    /\ t.pc = "waiting" /\ t.kind = "suspendUser" /\ t.others =>
         Others(t.target) \/ RowOf(t.target) \in t.missed
    /\ t.pc = "checked" /\ t.kind = "suspendUser" =>
         \/ t.stale \/ RowOf(t.target) \in t.missed
         \/ user[t.target] # ActiveAdmin \/ Others(t.target)
    /\ t.pc = "checked" /\ t.kind = "updateUser" /\ t.role = "VIEWER" => Others(t.target)

AdminInv == AnAdminRemains /\ \A r \in AdminRequests : AdminFits(tx[r])

Acts(r) ==
    \/ \E kind \in Mutations, x \in Users, role \in Roles : BeginMutation(r, kind, x, role)
    \/ CheckMutation(r)
    \/ GiveUp(r)

\* A step of somebody else, which demotes nobody.
Harmless(q) ==
    /\ Told(tx[q], tx'[q])
    /\ tx[q].pc \in Open =>
         LET x == tx[q].target IN
         user'[x] = user[x] \/ tx'[q].stale \/ user'[x] # ActiveAdmin

AdminsStay == \A y \in Users : user[y] = ActiveAdmin => user'[y] = ActiveAdmin

LEMMA SameIsHarmless ==
    ASSUME AccountsInv, NEW q \in AdminRequests, user' = user, tx'[q] = tx[q]
    PROVE Harmless(q)
<1>1. Told(tx[q], tx'[q])
  BY TxKnown DEF Told, Transactions
<1> QED
  BY <1>1 DEF Harmless

\* A login that commits.
LEMMA LoginHarmless ==
    ASSUME AccountsInv, NEW r \in LoginRequests, tx[r].pc = "binding", BindingCommits(r),
           NEW row, user' = [user EXCEPT ![tx[r].target] = row],
           row = user[tx[r].target] \/ user[tx[r].target].status \in {"none", "INVITED"},
           NEW t, tx' = [TellOthers(r, BindingWrites(r)) EXCEPT ![r] = t]
    PROVE AdminsStay /\ \A q \in AdminRequests : Harmless(q)
<1> DEFINE x == tx[r].target
           T == TellOthers(r, BindingWrites(r))
<1>1. r \in Transactions /\ r \notin AdminRequests /\ x \in Users /\ tx[r].view = user[x]
      /\ user \in [Users -> Row]
  BY BindingKnown, AccountsConstants DEF Transactions, AccountsInv
<1>2. /\ T \in [Transactions -> TxRow]
      /\ \A q \in Transactions : Told(tx[q], T[q])
      /\ \A q \in Transactions \ {r} : tx[q].pc \in Open /\ RowOf(tx[q].target) \in BindingWrites(r)
           => T[q].stale
  BY <1>1, TellsOthers
<1>3. \A q \in AdminRequests : tx'[q] = T[q] /\ q \in Transactions /\ q # r
  BY <1>1, <1>2 DEF Transactions
<1>4. user'[x] # user[x] => RowOf(x) \in BindingWrites(r)
  BY <1>1 DEF BindingWrites
<1>5. \A y \in Users \ {x} : user'[y] = user[y]
  BY <1>1
<1>6. ActiveAdmin.status = "ACTIVE"
  BY DEF ActiveAdmin
<1> HIDE DEF T, x
<1>7. AdminsStay
  BY <1>1, <1>5, <1>6 DEF AdminsStay, x
<1>8. ASSUME NEW q \in AdminRequests PROVE Harmless(q)
  <2>1. tx[q].pc \in Open => tx[q].target \in Users
    BY <1>3, TxKnown DEF Open
  <2>2. tx[q].pc \in Open =>
          user'[tx[q].target] = user[tx[q].target] \/ tx'[q].stale
    BY <1>2, <1>3, <1>4, <1>5, <2>1
  <2> QED
    BY <1>2, <1>3, <2>2 DEF Harmless
<1> QED
  BY <1>7, <1>8

LEMMA AdminSteps ==
    ASSUME AccountsInv, [AccountsNext]_accountsVars
    PROVE \/ \E r \in AdminRequests : CommitMutation(r)
          \/ /\ AdminsStay
             /\ \A q \in AdminRequests : Harmless(q) \/ (Acts(q) /\ user' = user)
<1> DEFINE Safe == AdminsStay /\ \A q \in AdminRequests : Harmless(q) \/ (Acts(q) /\ user' = user)
<1>1. ASSUME user' = user, \A q \in AdminRequests : tx'[q] = tx[q] PROVE Safe
  BY <1>1, SameIsHarmless DEF AdminsStay
<1>2. ASSUME NEW r \in AdminRequests, Acts(r) PROVE Safe
  <2>1. user' = user
    BY <1>2 DEF Acts, BeginMutation, CheckMutation, GiveUp
  <2>2. \A q \in AdminRequests \ {r} : tx'[q] = tx[q]
    BY <1>2 DEF Acts, BeginMutation, CheckMutation, GiveUp, AccountsInv, Transactions
  <2> QED
    BY <1>2, <2>1, <2>2, SameIsHarmless DEF AdminsStay
<1>3. ASSUME NEW x \in Users, NEW role \in Roles, CreateUser(x, role) PROVE Safe
  <2>1. user' = [user EXCEPT ![x] = [status |-> "INVITED", role |-> role]]
        /\ user[x].status = "none" /\ user \in [Users -> Row]
    BY <1>3 DEF CreateUser, AccountsInv
  <2>2. AdminsStay
    BY <2>1 DEF AdminsStay, ActiveAdmin
  <2>3. ASSUME NEW q \in AdminRequests PROVE Harmless(q)
    <3>1. q \in Transactions /\ tx[q].pc # "binding"
      BY TxKnown DEF Transactions, Shaped
    <3>2. tx'[q] = tx[q]
      BY <1>3, <3>1 DEF CreateUser
    <3>3. Told(tx[q], tx'[q]) /\ (tx[q].pc \in Open => tx[q].target \in Users)
      BY <3>1, <3>2, TxKnown DEF Told, Open
    <3>4. tx[q].pc \in Open =>
            user'[tx[q].target] = user[tx[q].target] \/ user'[tx[q].target] # ActiveAdmin
      BY <2>1, <3>3 DEF ActiveAdmin
    <3> QED
      BY <3>3, <3>4 DEF Harmless
  <2> QED
    BY <2>2, <2>3
<1>4. ASSUME NEW r \in LoginRequests,
             \/ \E s \in Subs : BeginLogin(r, s)
             \/ RetryLogin(r) \/ RequestAccess(r) \/ Bind(r) \/ LoginBound(r)
             \/ RefuseLogin(r) \/ CheckSessionOwner(r)
             \/ \E i \in SessionIds : InsertSession(r, i)
      PROVE Safe
  <2>1. r \notin AdminRequests /\ tx \in [Transactions -> TxRow]
    BY AccountsConstants DEF AccountsInv
  <2>2. CASE \/ \E s \in Subs : BeginLogin(r, s)
             \/ RetryLogin(r) \/ RefuseLogin(r) \/ CheckSessionOwner(r)
             \/ \E i \in SessionIds : InsertSession(r, i)
             \/ LoginBound(r) /\ tx[r].view.status # "INVITED"
    <3>1. user' = user /\ \A q \in AdminRequests : tx'[q] = tx[q]
      BY <2>1, <2>2 DEF BeginLogin, RetryLogin, RefuseLogin, CheckSessionOwner, InsertSession,
                        LoginBound, EndLogin, Transactions
    <3> QED
      BY <1>1, <3>1
  <2>3. CASE RequestAccess(r)
    <3>1. user[tx[r].target].status = "none"
      BY <2>3, BindingKnown DEF RequestAccess
    <3> QED
      BY <2>3, <3>1, LoginHarmless DEF RequestAccess
  <2>4. CASE Bind(r) \/ (LoginBound(r) /\ tx[r].view.status = "INVITED")
    <3>1. tx[r].pc = "binding" /\ BindingCommits(r)
          /\ user' = [user EXCEPT ![tx[r].target] = Activated(tx[r].view)]
          /\ tx' = [TellOthers(r, BindingWrites(r)) EXCEPT ![r] = AfterBinding(r, tx[r].view)]
      BY <2>4 DEF Bind, LoginBound
    <3>2. tx[r].view = user[tx[r].target] /\ tx[r].view \in Row
      BY <3>1, BindingKnown
    <3>3. Activated(tx[r].view) = user[tx[r].target]
          \/ user[tx[r].target].status \in {"none", "INVITED"}
      BY <3>2, ActivatedType
    <3> QED
      BY <3>1, <3>3, LoginHarmless
  <2> QED
    BY <1>4, <2>2, <2>3, <2>4
<1>5. CASE \/ \E q \in RefreshRequests :
                \/ \E i \in SessionIds, n \in 1..MaxRotations : ReadForRefresh(q, i, n)
                \/ SwapToken(q)
           \/ \E i \in SessionIds : Logout(i) \/ Expire(i)
           \/ UNCHANGED accountsVars
  BY <1>1, <1>5 DEF ReadForRefresh, SwapToken, Logout, Expire, accountsVars
<1> QED
  BY <1>2, <1>3, <1>4, <1>5 DEF AccountsNext, Acts

\* A mutation that acts on what it read.
LEMMA ActsFits ==
    ASSUME AccountsInv, AdminInv, NEW q \in AdminRequests, Acts(q), user' = user
    PROVE AdminFits(tx[q])'
<1>1. q \in Transactions /\ tx \in [Transactions -> TxRow] /\ user \in [Users -> Row]
  BY DEF Transactions, AccountsInv
<1>2. \A x : Others(x)' <=> Others(x)
  BY DEF Others, ActiveAdmins
<1>3. CASE tx'[q] = Idle
  BY <1>3, IdleType DEF AdminFits
<1>4. ASSUME NEW kind \in Mutations, NEW x \in Users, NEW role \in Roles,
             BeginMutation(q, kind, x, role)
      PROVE AdminFits(tx[q])'
  <2> DEFINE asked == [Idle EXCEPT !.pc = "waiting", !.kind = kind, !.target = x, !.role = role]
             seen == [asked EXCEPT !.view = Reads(x).view, !.others = Reads(x).others,
                                   !.bound = Reads(x).bound]
             t == IF kind \in Serializable THEN seen ELSE asked
  <2>1. tx'[q] = t
    BY <1>1, <1>4 DEF BeginMutation
  <2>2. asked \in TxRow /\ asked.pc = "waiting" /\ asked.kind = kind /\ asked.target = x
    BY IdleType DEF Idle, TxRow
  <2>3. seen.pc = "waiting" /\ seen.kind = kind /\ seen.target = x /\ (seen.others <=> Others(x))
    <3>1. Reads(x).others <=> Others(x)
      BY DEF Reads, Others
    <3> HIDE DEF asked
    <3> QED
      BY <2>2, <3>1 DEF TxRow
  <2>4. t.pc = "waiting" /\ t.target = x /\ (t.kind = "suspendUser" => (t.others <=> Others(x)))
    BY <2>2, <2>3 DEF Serializable
  <2> HIDE DEF t
  <2>5. tx'[q].pc = "waiting" /\ tx'[q].target = x
        /\ (tx'[q].kind = "suspendUser" => (tx'[q].others <=> Others(x)))
    BY <2>1, <2>4
  <2>6. Others(tx[q].target)' <=> Others(x)
    BY <1>4, <2>5 DEF Others, ActiveAdmins, BeginMutation
  <2> QED
    BY <2>5, <2>6 DEF AdminFits
<1>5. CASE CheckMutation(q) /\ tx'[q] # Idle
  <2> DEFINE row == NextRow(q, SeenBy(q))
             x == tx[q].target
             t == [tx[q] EXCEPT !.pc = "checked", !.view = row, !.others = FALSE, !.bound = {}]
  <2>1. tx' = [tx EXCEPT ![q] = t] /\ row # Absent /\ tx[q].pc = "waiting"
    BY <1>1, <1>5 DEF CheckMutation
  <2>2. /\ tx[q] \in TxRow /\ x \in Users /\ user[x] \in Row /\ tx[q].role \in Roles
        /\ tx[q].kind \in Mutations /\ RowSeen(tx[q]) /\ AdminFits(tx[q])
    BY <1>1, <2>1, TxKnown DEF TxRow, Shaped, AdminInv
  <2>3. /\ t \in TxRow => t.pc = "checked" /\ t.kind = tx[q].kind /\ t.target = x
                          /\ t.stale = tx[q].stale /\ t.missed = tx[q].missed
                          /\ t.role = tx[q].role
    BY <2>2 DEF TxRow
  <2>4. SeenBy(q).view \in Row
    BY <2>2 DEF SeenBy, Reads, TxRow
  <2>5. /\ row \in Row
        /\ \/ tx[q].kind = "approveUser"
           \/ tx[q].kind = "updateUser" /\ MayChangeRole(SeenBy(q), tx[q].role)
           \/ tx[q].kind = "suspendUser" /\ MaySuspend(SeenBy(q))
           \/ tx[q].kind = "reactivateUser"
    BY <2>1, <2>2, <2>4, NextRowFacts
  <2> HIDE DEF row
  <2>6. t \in TxRow
    BY <2>2, <2>5 DEF TxRow
  <2> HIDE DEF t
  <2>7. tx'[q] = t
    BY <1>1, <2>1
  <2>8. ASSUME tx[q].kind = "suspendUser"
        PROVE tx[q].stale \/ RowOf(x) \in tx[q].missed \/ user[x] # ActiveAdmin \/ Others(x)
    <3>1. SeenBy(q).view = tx[q].view /\ SeenBy(q).others = tx[q].others
      BY <2>8 DEF SeenBy, Serializable
    <3>2. tx[q].view.status # "none" /\ (tx[q].view # ActiveAdmin \/ tx[q].others)
      BY <2>5, <2>8, <3>1 DEF MaySuspend, ActiveAdminRemains, ActiveAdmin
    <3>3. tx[q].stale \/ tx[q].view = user[x]
      BY <2>1, <2>2, <2>8, <3>2 DEF RowSeen, Serializable
    <3> QED
      BY <2>1, <2>2, <2>8, <3>2, <3>3 DEF AdminFits
  <2>9. ASSUME tx[q].kind = "updateUser", tx[q].role = "VIEWER" PROVE Others(x)
    <3>1. SeenBy(q).view = user[x] /\ SeenBy(q).others = Others(x)
      BY <2>9 DEF SeenBy, Serializable, Reads, Others
    <3>2. user[x] # ActiveAdmin \/ Others(x)
      BY <2>5, <2>9, <3>1 DEF MayChangeRole, ActiveAdminRemains, ActiveAdmin
    <3>3. user[x] # ActiveAdmin => Others(x)
      BY DEF AdminInv, AnAdminRemains, Others, ActiveAdmins, ActiveAdmin
    <3> QED
      BY <3>2, <3>3
  <2>10. tx'[q].target = x /\ (Others(tx[q].target)' <=> Others(x))
    BY <2>3, <2>6, <2>7 DEF Others, ActiveAdmins
  <2> QED
    BY <2>3, <2>6, <2>7, <2>8, <2>9, <2>10 DEF AdminFits
<1>6. CASE GiveUp(q)
  BY <1>1, <1>3, <1>6 DEF GiveUp
<1> QED
  BY <1>3, <1>4, <1>5, <1>6 DEF Acts

\* A harmless step of somebody else.
LEMMA HarmlessFits ==
    ASSUME AccountsInv, AdminInv, AdminsStay, NEW q \in AdminRequests, Harmless(q)
    PROVE AdminFits(tx[q])'
<1> DEFINE x == tx[q].target
<1>1. AdminFits(tx[q]) /\ Told(tx[q], tx'[q])
  BY DEF AdminInv, Harmless
<1>2. tx'[q].pc = tx[q].pc /\ tx'[q].kind = tx[q].kind /\ tx'[q].target = x
      /\ tx'[q].role = tx[q].role /\ tx'[q].others = tx[q].others
      /\ (tx[q].stale => tx'[q].stale) /\ tx[q].missed \subseteq tx'[q].missed
  BY <1>1 DEF Told
<1>3. ASSUME Others(x) PROVE Others(tx[q].target)'
  <2>1. PICK y \in Users : user[y] = ActiveAdmin /\ y # x
    BY <1>3 DEF Others, ActiveAdmins, ActiveAdmin
  <2>2. user'[y] = ActiveAdmin
    BY <2>1 DEF AdminsStay
  <2> QED
    BY <1>2, <2>1, <2>2 DEF Others, ActiveAdmins, ActiveAdmin
<1>4. tx[q].pc \in Open => user'[x] = user[x] \/ tx'[q].stale \/ user'[x] # ActiveAdmin
  BY DEF Harmless
<1> HIDE DEF x
<1> QED
  BY <1>1, <1>2, <1>3, <1>4 DEF AdminFits, Open, x

\* A mutation that commits leaves an administrator, and who had counted on the
\* one it demotes may not commit.
LEMMA CommitLeavesAdmin ==
    ASSUME AccountsInv, AdminInv, MutationsApart, NEW r \in AdminRequests, CommitMutation(r)
    PROVE AdminInv'
<1> DEFINE x == tx[r].target
           T == TellOthers(r, {RowOf(x)})
           W == {RowOf(x)}
<1>1. /\ tx[r].pc = "checked" /\ r \in Transactions /\ CanCommit(r, {RowOf(x)})
      /\ user' = [user EXCEPT ![x] = Updated(r)] /\ tx' = [T EXCEPT ![r] = Idle]
      /\ user \in [Users -> Row] /\ workload \in Workloads
  BY DEF CommitMutation, Transactions, AccountsInv
<1>2. /\ x \in Users /\ Updated(r) \in Row
      /\ Updated(r).status = IF tx[r].kind = "updateUser" THEN user[x].status
                             ELSE tx[r].view.status
      /\ Updated(r).role = IF tx[r].kind = "updateUser" THEN tx[r].role ELSE user[x].role
      /\ tx[r] \in TxRow /\ Shaped(r, tx[r]) /\ RowSeen(tx[r]) /\ AdminFits(tx[r])
  BY <1>1, UpdatedFacts, TxKnown DEF AdminInv
<1>3. /\ T \in [Transactions -> TxRow]
      /\ \A q \in Transactions : Told(tx[q], T[q])
      /\ \A q \in Transactions \ {r} : tx[q].pc \in Open =>
           /\ tx[q].target = x => T[q].stale
           /\ IsSerializable(r) /\ W \cap ReadsOf(q) # {} =>
                ReadsOf(r) \cap Writable(tx[q].target) \subseteq T[q].missed
  BY <1>1, TellsOthers
<1>4. tx[r].kind \in Serializable => ~tx[r].stale /\ RowOf(x) \notin tx[r].missed
  BY <1>1 DEF CanCommit, IsSerializable
<1> HIDE DEF T
<1>5. tx'[r] = Idle /\ \A q \in Transactions \ {r} : tx'[q] = T[q]
  BY <1>1, <1>3, IdleType
<1> HIDE DEF x, W
<1>6. user'[x] = Updated(r) /\ \A y \in Users \ {x} : user'[y] = user[y]
  BY <1>1, <1>2
<1>7. lockHolder = r /\ tx[r].kind \in Mutations /\ tx[r].kind \in workload
  BY <1>1, <1>2 DEF Shaped
<1>8. user[x] = ActiveAdmin => Updated(r) = ActiveAdmin \/ Others(x)
  <2>1. CASE tx[r].kind = "approveUser"
    BY <1>1, <1>2, <2>1 DEF Shaped, ActiveAdmin, Row, x
  <2>2. CASE tx[r].kind = "updateUser"
    BY <1>1, <1>2, <2>2 DEF AdminFits, ActiveAdmin, Row, x, TxRow, Roles
  <2>3. CASE tx[r].kind = "suspendUser"
    BY <1>1, <1>2, <1>4, <2>3 DEF AdminFits, x, Serializable
  <2>4. CASE tx[r].kind = "reactivateUser"
    BY <1>1, <1>2, <1>4, <2>4 DEF RowSeen, x, Serializable, ActiveAdmin
  <2> QED
    BY <1>7, <2>1, <2>2, <2>3, <2>4 DEF Mutations
<1>9. AnAdminRemains'
  <2>1. PICK y \in Users : user[y] = ActiveAdmin
    BY DEF AdminInv, AnAdminRemains, ActiveAdmins, ActiveAdmin
  <2>2. \E z \in Users : user'[z] = ActiveAdmin
    BY <1>2, <1>6, <1>8, <2>1 DEF Others, ActiveAdmins, ActiveAdmin
  <2> QED
    BY <2>2 DEF AnAdminRemains, ActiveAdmins, ActiveAdmin
<1>10. ASSUME NEW q \in AdminRequests, q # r PROVE AdminFits(tx[q])'
  <2>1. q \in Transactions /\ tx'[q] = T[q] /\ Told(tx[q], tx'[q]) /\ AdminFits(tx[q])
        /\ tx[q].pc # "checked" /\ Shaped(q, tx[q])
    BY <1>3, <1>5, <1>7, <1>10, TxKnown DEF Transactions, AdminInv, Shaped
  <2>2. tx'[q].pc = tx[q].pc /\ tx'[q].kind = tx[q].kind /\ tx'[q].target = tx[q].target
        /\ tx'[q].others = tx[q].others /\ tx[q].missed \subseteq tx'[q].missed
    BY <2>1 DEF Told
  <2>3. ASSUME tx[q].pc = "waiting", tx[q].kind = "suspendUser", tx[q].others
        PROVE Others(tx[q].target)' \/ RowOf(tx[q].target) \in tx'[q].missed
    <3>1. tx[q].target \in Users
      BY <2>1, <2>3 DEF Shaped
    <3>2. CASE tx[r].kind = "suspendUser"
      <4>1. ReadsOf(q) = {RowOf(y) : y \in Users} /\ ReadsOf(r) = {RowOf(y) : y \in Users}
        BY <2>3, <3>2 DEF ReadsOf
      <4>2. IsSerializable(r)
        BY <3>2 DEF IsSerializable, Serializable
      <4>3. W \cap ReadsOf(q) # {} /\ RowOf(tx[q].target) \in ReadsOf(r)
        BY <1>2, <3>1, <4>1 DEF W
      <4>4. RowOf(tx[q].target) \in Writable(tx[q].target)
        BY DEF Writable
      <4> QED
        BY <1>3, <1>10, <2>1, <2>3, <4>2, <4>3, <4>4 DEF Open
    <3>3. CASE tx[r].kind = "updateUser"
      <4>1. tx[q].kind \in workload
        BY <2>1, <2>3 DEF Shaped
      <4> QED
        BY <1>1, <1>7, <2>3, <3>3, <4>1 DEF MutationsApart
    <3>4. CASE tx[r].kind \in {"approveUser", "reactivateUser"}
      <4>1. user[x] = ActiveAdmin => Updated(r) = ActiveAdmin
        <5>1. CASE tx[r].kind = "approveUser"
          BY <1>1, <1>2, <5>1 DEF Shaped, ActiveAdmin, Row, x
        <5>2. CASE tx[r].kind = "reactivateUser"
          BY <1>1, <1>2, <1>4, <5>2 DEF RowSeen, x, Serializable, ActiveAdmin
        <5> QED
          BY <3>4, <5>1, <5>2
      <4>2. \A y \in Users : user[y] = ActiveAdmin => user'[y] = ActiveAdmin
        BY <1>2, <1>6, <4>1
      <4>3. Others(tx[q].target) => Others(tx[q].target)'
        BY <2>2, <4>2 DEF Others, ActiveAdmins, ActiveAdmin
      <4> QED
        BY <2>1, <2>2, <2>3, <4>3 DEF AdminFits
    <3> QED
      BY <1>7, <3>2, <3>3, <3>4 DEF Mutations
  <2> QED
    BY <2>1, <2>2, <2>3 DEF AdminFits
<1>11. AdminFits(tx[r])'
  BY <1>5, IdleType DEF AdminFits
<1> QED
  BY <1>9, <1>10, <1>11 DEF AdminInv

LEMMA AdminInitFits == ASSUME MutationsApart PROVE AccountsInit => AdminInv
<1> SUFFICES ASSUME AccountsInit PROVE AdminInv
  OBVIOUS
<1>1. AnAdminRemains
  BY AccountsConstants DEF AccountsInit, MutationsApart, AnAdminRemains, ActiveAdmins
<1>2. \A r \in AdminRequests : AdminFits(tx[r])
  BY IdleType DEF AccountsInit, Transactions, AdminFits
<1> QED
  BY <1>1, <1>2 DEF AdminInv

LEMMA AdminStepFits ==
    ASSUME MutationsApart
    PROVE AccountsInv /\ AdminInv /\ [AccountsNext]_accountsVars => AdminInv'
<1> SUFFICES ASSUME AccountsInv, AdminInv, [AccountsNext]_accountsVars PROVE AdminInv'
  OBVIOUS
<1>1. ASSUME AdminsStay PROVE AnAdminRemains'
  BY <1>1 DEF AdminsStay, AdminInv, AnAdminRemains, ActiveAdmins, ActiveAdmin
<1>2. CASE AdminsStay /\ \A q \in AdminRequests : Harmless(q) \/ (Acts(q) /\ user' = user)
  BY <1>1, <1>2, ActsFits, HarmlessFits DEF AdminInv
<1> QED
  BY <1>2, AdminSteps, CommitLeavesAdmin

\* If suspensions and changes of role do not overlap, an active administrator is
\* left, however many mutations, logins and approvals there are.
THEOREM AdministratorLeft == ASSUME MutationsApart PROVE AccountsSpec => []AnAdminRemains
<1>1. AccountsInit => AccountsInv /\ AdminInv
  BY AccountsInitFits, AdminInitFits
<1>2. (AccountsInv /\ AdminInv) /\ [AccountsNext]_accountsVars => (AccountsInv /\ AdminInv)'
  BY AccountsStepFits, AdminStepFits
<1>3. AdminInv => AnAdminRemains
  BY DEF AdminInv
<1> QED
  BY <1>1, <1>2, <1>3, PTL DEF AccountsSpec

=============================================================================
