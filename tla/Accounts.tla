------------------------------- MODULE Accounts -------------------------------
(***************************************************************************)
(* Users, their Google accounts and their sessions: apps/api/src/auth and  *)
(* apps/api/src/admin.                                                     *)
(*                                                                         *)
(* An administrator's request is a transaction that first waits for one    *)
(* advisory lock.  Suspension, reactivation and approval run SERIALIZABLE, *)
(* a change of role runs at PostgreSQL's default READ COMMITTED.  A login  *)
(* binds a Google account to a user in a SERIALIZABLE transaction that is  *)
(* retried, then creates a session in two statements of their own.  A      *)
(* refresh reads its session and later swaps the token hash.               *)
(*                                                                         *)
(* A SERIALIZABLE transaction reads the snapshot its first statement took. *)
(* It fails when a row it writes was changed since (first updater wins) or *)
(* when a concurrent SERIALIZABLE one and it each missed what the other    *)
(* wrote.  PostgreSQL may refuse more than that: GiveUp and RetryLogin may *)
(* end any attempt.                                                        *)
(***************************************************************************)
EXTENDS Naturals, FiniteSets

CONSTANTS Users,           \* users, one for each normalized e-mail address
          Subs,            \* Google subjects
          EmailOf,         \* the verified address of each subject, as a user
          Seeded,          \* users present at the start, ACTIVE administrators
          AdminRequests,   \* requests of administrators
          LoginRequests,   \* callbacks of the Google login
          RefreshRequests, \* calls of POST /auth/refresh
          SessionIds,      \* rows of Session that may be created
          Workloads,       \* sets of operations and of requests that make them,
                           \* one of which a behaviour uses
          NoUser, NoRequest, NoSession,
          MaxAttempts,     \* MAX_BINDING_ATTEMPTS (5 in the code)
          MaxRotations     \* bound on the rotations of a session

ASSUME AccountsConstants ==
  /\ EmailOf \in [Subs -> Users]
  /\ Seeded \subseteq Users
  /\ MaxAttempts \in Nat \ {0} /\ MaxRotations \in Nat \ {0}
  /\ NoUser \notin Users /\ NoSession \notin SessionIds
  /\ NoRequest \notin AdminRequests \cup LoginRequests
  /\ AdminRequests \cap LoginRequests = {}

Statuses == {"none", "INVITED", "PENDING_APPROVAL", "ACTIVE", "SUSPENDED"}
Roles == {"ADMIN", "VIEWER"}
Mutations == {"approveUser", "updateUser", "suspendUser", "reactivateUser"}
Serializable == {"approveUser", "suspendUser", "reactivateUser"}
Transactions == AdminRequests \cup LoginRequests
Row == [status : Statuses, role : Roles]
Absent == [status |-> "none", role |-> "VIEWER"]

VARIABLES
  workload,    \* the operations and the requests of this behaviour
  user,        \* the User rows, status "none" for a row that is not there
  account,     \* the AuthAccount rows: the user each subject is bound to
  lockHolder,  \* the transaction holding pg_advisory_xact_lock(35001)
  tx,          \* the administrators' and the logins' transactions
  session,     \* the Session rows
  refresh,     \* the refreshes between their two statements
  requested,   \* history: users that asked for access themselves
  approved     \* history: users an administrator approved

accountsVars == <<workload, user, account, lockHolder, tx, session, refresh,
                  requested, approved>>

-----------------------------------------------------------------------------
(* Snapshots and serializable commits.                                     *)

Idle == [pc |-> "idle", kind |-> "none", target |-> NoUser,
         sub |-> "none", role |-> "VIEWER", view |-> Absent, others |-> FALSE,
         bound |-> {}, attempt |-> 0, stale |-> FALSE, missed |-> {}]

ActiveAdmins(u) == {x \in Users : u[x] = [status |-> "ACTIVE", role |-> "ADMIN"]}

BoundTo(x) == {s \in Subs : account[s] = x}

(* What a transaction on user x reads: the row, whether another active     *)
(* administrator is there, and the subjects bound to x.                    *)
Reads(x) == [view |-> user[x], others |-> ActiveAdmins(user) \ {x} # {},
             bound |-> BoundTo(x)]

IsSerializable(r) ==
  r \in LoginRequests \/ (r \in AdminRequests /\ tx[r].kind \in Serializable)

(* What a transaction may read or write of a user: its row, its accounts.  *)
RowOf(x) == <<"row", x>>
AccountsOf(x) == <<"accounts", x>>

Writable(x) == {RowOf(x), AccountsOf(x)}

(* A suspension of an active administrator counts the other users' rows.   *)
ReadsOf(r) ==
  CASE tx[r].kind = "suspendUser" -> {RowOf(x) : x \in Users}
    [] tx[r].kind \in {"login", "reactivateUser"} ->
         Writable(tx[r].target)
    [] OTHER -> {RowOf(tx[r].target)}

(* The other transactions, once r has committed its writes: a row one of   *)
(* them will write is stale, and a SERIALIZABLE one that reads what r      *)
(* wrote must not write what r has read.                                   *)
TellOthers(r, writes) ==
  [q \in Transactions |->
     IF q = r \/ tx[q].pc \notin {"waiting", "checked", "binding"} THEN tx[q]
     ELSE [tx[q] EXCEPT
             !.stale = @ \/ RowOf(tx[q].target) \in writes,
             !.missed = IF IsSerializable(r) /\ writes \cap ReadsOf(q) # {}
                        THEN @ \cup (ReadsOf(r) \cap Writable(tx[q].target)) ELSE @]]

\* Mutant: the transaction runs at REPEATABLE READ.
RepeatableRead(r, writes) == IsSerializable(r) => ~tx[r].stale
CanCommit(r, writes) ==
  IsSerializable(r) => ~tx[r].stale /\ writes \cap tx[r].missed = {}

-----------------------------------------------------------------------------
(* Administration.                                                         *)

(* createUser: one insert, refused by the unique index on the address.     *)
CreateUser(x, role) ==
  /\ "createUser" \in workload
  /\ user[x].status = "none"
  /\ user' = [user EXCEPT ![x] = [status |-> "INVITED", role |-> role]]
  /\ tx' = [q \in Transactions |-> IF tx[q].pc = "binding"
                                   THEN [tx[q] EXCEPT !.stale = @ \/ tx[q].target = x]
                                   ELSE tx[q]]
  /\ UNCHANGED <<workload, account, lockHolder, session, refresh, requested, approved>>

(* The first statement asks for the lock; a SERIALIZABLE transaction takes *)
(* its snapshot with it, before it waits.                                  *)
BeginMutation(r, kind, x, role) ==
  /\ {kind, r} \subseteq workload
  /\ kind # "updateUser" => role = "VIEWER"
  /\ tx[r].pc = "idle"
  /\ LET asked == [Idle EXCEPT !.pc = "waiting", !.kind = kind, !.target = x,
                               !.role = role]
     IN tx' = [tx EXCEPT ![r] =
          IF kind \in Serializable
          THEN [asked EXCEPT !.view = Reads(x).view, !.others = Reads(x).others,
                             !.bound = Reads(x).bound]
          ELSE asked]
  /\ UNCHANGED <<workload, user, account, lockHolder, session, refresh, requested, approved>>

\* Mutant: the advisory lock is not taken.
NoLock == TRUE
LockFree == lockHolder = NoRequest

(* The reads after the lock: the snapshot's, or the committed rows.        *)
SeenBy(r) ==
  IF tx[r].kind \in Serializable
  THEN [view |-> tx[r].view, others |-> tx[r].others, bound |-> tx[r].bound]
  ELSE Reads(tx[r].target)

(* assertActiveAdminRemains *)
ActiveAdminRemains(seen, role, status) ==
  \/ seen.view # [status |-> "ACTIVE", role |-> "ADMIN"]
  \/ status = "ACTIVE" /\ role = "ADMIN"
  \/ seen.others

MayApprove(seen) == seen.view.status = "PENDING_APPROVAL"

MayChangeRole(seen, role) ==
  /\ seen.view.status \notin {"none", "PENDING_APPROVAL"}
  /\ seen.view.role # role
  /\ ActiveAdminRemains(seen, role, seen.view.status)

\* Mutant: a user who waits for approval can be suspended.
SuspendsPending(seen) ==
  /\ seen.view.status \notin {"none", "SUSPENDED"}
  /\ ActiveAdminRemains(seen, seen.view.role, "SUSPENDED")

MaySuspend(seen) ==
  /\ seen.view.status \notin {"none", "SUSPENDED", "PENDING_APPROVAL"}
  /\ ActiveAdminRemains(seen, seen.view.role, "SUSPENDED")

MayReactivate(seen) == seen.view.status = "SUSPENDED"

(* The row a mutation writes over the one it saw; Absent if it refuses or  *)
(* has nothing to write.                                                   *)
NextRow(r, seen) ==
  LET to(status) == [seen.view EXCEPT !.status = status]
  IN CASE tx[r].kind = "approveUser" /\ MayApprove(seen) -> to("ACTIVE")
       [] tx[r].kind = "updateUser" /\ MayChangeRole(seen, tx[r].role) ->
            [seen.view EXCEPT !.role = tx[r].role]
       [] tx[r].kind = "suspendUser" /\ MaySuspend(seen) -> to("SUSPENDED")
       [] tx[r].kind = "reactivateUser" /\ MayReactivate(seen) ->
            IF seen.bound # {} THEN to("ACTIVE") ELSE to("INVITED")
       [] OTHER -> Absent

(* The lock is granted and the mutation reads and decides.                 *)
CheckMutation(r) ==
  /\ tx[r].pc = "waiting"
  /\ LockFree
  /\ LET row == NextRow(r, SeenBy(r))
     IN IF row = Absent
        THEN /\ tx' = [tx EXCEPT ![r] = Idle]
             /\ UNCHANGED lockHolder
        ELSE /\ tx' = [tx EXCEPT ![r] = [@ EXCEPT !.pc = "checked", !.view = row,
                                                 !.others = FALSE, !.bound = {}]]
             /\ lockHolder' = r
  /\ UNCHANGED <<workload, user, account, session, refresh, requested, approved>>

(* The columns the update names, over the row as it is now.                *)
Updated(r) ==
  IF tx[r].kind = "updateUser" THEN [user[tx[r].target] EXCEPT !.role = tx[r].role]
  ELSE [user[tx[r].target] EXCEPT !.status = tx[r].view.status]

CommitMutation(r) ==
  /\ tx[r].pc = "checked"
  /\ CanCommit(r, {RowOf(tx[r].target)})
  /\ user' = [user EXCEPT ![tx[r].target] = Updated(r)]
  /\ tx' = [TellOthers(r, {RowOf(tx[r].target)}) EXCEPT ![r] = Idle]
  /\ lockHolder' = IF lockHolder = r THEN NoRequest ELSE lockHolder
  /\ approved' = IF tx[r].kind = "approveUser" THEN approved \cup {tx[r].target}
                 ELSE approved
  /\ UNCHANGED <<workload, account, session, refresh, requested>>

(* A serialization failure, a deadlock or a lost connection: the           *)
(* transaction rolls back and the lock goes with it.                       *)
GiveUp(r) ==
  /\ tx[r].pc \in {"waiting", "checked"}
  /\ tx' = [tx EXCEPT ![r] = Idle]
  /\ lockHolder' = IF lockHolder = r THEN NoRequest ELSE lockHolder
  /\ UNCHANGED <<workload, user, account, session, refresh, requested, approved>>

-----------------------------------------------------------------------------
(* Google login.                                                           *)

(* An attempt at the binding: its transaction takes its snapshot and looks *)
(* the subject up.                                                         *)
Attempt(r, s, n) ==
  LET x == IF account[s] # NoUser THEN account[s] ELSE EmailOf[s]
  IN [Idle EXCEPT !.pc = "binding", !.kind = "login", !.target = x, !.sub = s,
                  !.view = user[x], !.attempt = n,
                  !.bound = BoundTo(x)]

(* A callback whose state, nonce and code Google's answer confirmed, and   *)
(* whose claims carry a verified address.                                  *)
BeginLogin(r, s) ==
  /\ {"login", r} \subseteq workload
  /\ tx[r].pc = "idle"
  /\ tx' = [tx EXCEPT ![r] = Attempt(r, s, 1)]
  /\ UNCHANGED <<workload, user, account, lockHolder, session, refresh, requested, approved>>

(* What the attempt sees of its subject and of the user.                   *)
SubjectBound(r) == tx[r].sub \in tx[r].bound
OtherBound(r) == tx[r].bound \ {tx[r].sub} # {}

(* What the binding writes: a new user, an invited user's status, the      *)
(* account.                                                                *)
BindingWrites(r) ==
  (IF SubjectBound(r) THEN {} ELSE {AccountsOf(tx[r].target)})
  \cup (IF tx[r].view.status \in {"none", "INVITED"} THEN {RowOf(tx[r].target)} ELSE {})

BindingCommits(r) == CanCommit(r, BindingWrites(r))

(* The login ends without a session: refused, or waiting for approval.     *)
EndLogin(r) == tx' = [tx EXCEPT ![r] = Idle]

\* Mutant: the attempts are not counted.
RetryForever(r) ==
  /\ tx[r].pc = "binding"
  /\ tx' = [tx EXCEPT ![r] = Attempt(r, tx[r].sub, tx[r].attempt + 1)]
  /\ UNCHANGED <<workload, user, account, lockHolder, session, refresh, requested, approved>>

(* A unique index, a stale row or a serialization failure ends the attempt *)
(* and starts the next one, up to the limit.                               *)
RetryLogin(r) ==
  /\ tx[r].pc = "binding"
  /\ tx' = [tx EXCEPT ![r] =
       IF tx[r].attempt < MaxAttempts
       THEN Attempt(r, tx[r].sub, tx[r].attempt + 1) ELSE Idle]
  /\ UNCHANGED <<workload, user, account, lockHolder, session, refresh, requested, approved>>

(* Nobody has this address: a user who asks for access.                    *)
RequestAccess(r) ==
  /\ tx[r].pc = "binding" /\ BindingCommits(r)
  /\ ~SubjectBound(r) /\ tx[r].view.status = "none"
  /\ user' = [user EXCEPT ![tx[r].target] =
                [status |-> "PENDING_APPROVAL", role |-> "VIEWER"]]
  /\ account' = [account EXCEPT ![tx[r].sub] = tx[r].target]
  /\ tx' = [TellOthers(r, BindingWrites(r)) EXCEPT ![r] = Idle]
  /\ requested' = requested \cup {tx[r].target}
  /\ UNCHANGED <<workload, lockHolder, session, refresh, approved>>

(* The subject is not bound, its address is a user's: bind it, unless the  *)
(* user is suspended or has another Google account.                        *)
MayBind(r) ==
  /\ ~SubjectBound(r)
  /\ tx[r].view.status \notin {"none", "SUSPENDED"}
  /\ ~OtherBound(r)

(* activateIfInvited, and what the login does next.                        *)
Activated(row) == IF row.status = "INVITED" THEN [row EXCEPT !.status = "ACTIVE"] ELSE row
AfterBinding(r, row) ==
  IF Activated(row).status = "ACTIVE"
  THEN [Idle EXCEPT !.pc = "session", !.kind = "login", !.target = tx[r].target]
  ELSE Idle

Bind(r) ==
  /\ tx[r].pc = "binding" /\ BindingCommits(r)
  /\ MayBind(r)
  /\ account' = [account EXCEPT ![tx[r].sub] = tx[r].target]
  /\ user' = [user EXCEPT ![tx[r].target] = Activated(tx[r].view)]
  /\ tx' = [TellOthers(r, BindingWrites(r)) EXCEPT ![r] = AfterBinding(r, tx[r].view)]
  /\ UNCHANGED <<workload, lockHolder, session, refresh, requested, approved>>

(* The subject is bound already.  Only an invited user's row is written.   *)
LoginBound(r) ==
  /\ tx[r].pc = "binding"
  /\ SubjectBound(r)
  /\ tx[r].view.status # "SUSPENDED"
  /\ IF tx[r].view.status = "INVITED"
     THEN /\ BindingCommits(r)
          /\ user' = [user EXCEPT ![tx[r].target] = Activated(tx[r].view)]
          /\ tx' = [TellOthers(r, BindingWrites(r)) EXCEPT ![r] = AfterBinding(r, tx[r].view)]
     ELSE /\ tx' = [tx EXCEPT ![r] = AfterBinding(r, tx[r].view)]
          /\ UNCHANGED user
  /\ UNCHANGED <<workload, account, lockHolder, session, refresh, requested, approved>>

RefuseLogin(r) ==
  /\ tx[r].pc = "binding"
  /\ \/ SubjectBound(r) /\ tx[r].view.status = "SUSPENDED"
     \/ ~SubjectBound(r) /\ tx[r].view.status # "none" /\ ~MayBind(r)
  /\ EndLogin(r)
  /\ UNCHANGED <<workload, user, account, lockHolder, session, refresh, requested, approved>>

(* createSession reads the user, then inserts the row.                     *)
CheckSessionOwner(r) ==
  /\ tx[r].pc = "session"
  /\ tx' = [tx EXCEPT ![r] = IF user[tx[r].target].status = "ACTIVE"
                             THEN [@ EXCEPT !.pc = "insert"] ELSE Idle]
  /\ UNCHANGED <<workload, user, account, lockHolder, session, refresh, requested, approved>>

InsertSession(r, i) ==
  /\ tx[r].pc = "insert"
  /\ session[i].owner = NoUser
  /\ session' = [session EXCEPT ![i].owner = tx[r].target, ![i].token = 1]
  /\ EndLogin(r)
  /\ UNCHANGED <<workload, user, account, lockHolder, refresh, requested, approved>>

-----------------------------------------------------------------------------
(* Sessions.  A token is the session's row and the number of its rotation. *)

Live(i) == session[i].owner # NoUser /\ ~session[i].revoked /\ ~session[i].expired

(* validateAccessSession, which every request with an access token passes. *)
Authenticated(i) == Live(i) /\ user[session[i].owner].status = "ACTIVE"

(* refreshSession finds the one row with the token's hash.                 *)
ReadForRefresh(q, i, n) ==
  /\ {"refresh", q} \subseteq workload
  /\ refresh[q].session = NoSession
  /\ session[i].token = n /\ Authenticated(i)
  /\ n <= MaxRotations
  /\ refresh' = [refresh EXCEPT ![q] = [session |-> i, token |-> n]]
  /\ UNCHANGED <<workload, user, account, lockHolder, tx, session, requested, approved>>

(* ... and swaps its hash if the row still has it and is still open.       *)
\* Mutants: the update names the row alone, or only its hash.
SwapById(q) == Live(refresh[q].session)
SwapByHash(q) == session[refresh[q].session].token = refresh[q].token

SwapAllowed(q) ==
  LET i == refresh[q].session IN session[i].token = refresh[q].token /\ Live(i)

SwapToken(q) ==
  /\ refresh[q].session # NoSession
  /\ LET i == refresh[q].session
     IN session' = IF SwapAllowed(q)
                   THEN [session EXCEPT ![i].token = @ + 1,
                                        ![i].redeemed = @ \cup {<<q, refresh[q].token>>}]
                   ELSE session
  /\ refresh' = [refresh EXCEPT ![q] = [session |-> NoSession, token |-> 0]]
  /\ UNCHANGED <<workload, user, account, lockHolder, tx, requested, approved>>

(* revokeSession: one statement, matched by the token's hash.              *)
Logout(i) ==
  /\ "logout" \in workload
  /\ Live(i)
  /\ session' = [session EXCEPT ![i].revoked = TRUE]
  /\ UNCHANGED <<workload, user, account, lockHolder, tx, refresh, requested, approved>>

Expire(i) ==
  /\ "logout" \in workload
  /\ session[i].owner # NoUser /\ ~session[i].expired
  /\ session' = [session EXCEPT ![i].expired = TRUE]
  /\ UNCHANGED <<workload, user, account, lockHolder, tx, refresh, requested, approved>>

-----------------------------------------------------------------------------
AccountsInit ==
  /\ workload \in Workloads
  /\ user = [x \in Users |-> IF x \in Seeded THEN [status |-> "ACTIVE", role |-> "ADMIN"]
                             ELSE Absent]
  /\ account = [s \in Subs |-> NoUser]
  /\ lockHolder = NoRequest
  /\ tx = [r \in Transactions |-> Idle]
  /\ session = [i \in SessionIds |-> [owner |-> NoUser, token |-> 0, revoked |-> FALSE,
                                      expired |-> FALSE, redeemed |-> {}]]
  /\ refresh = [q \in RefreshRequests |-> [session |-> NoSession, token |-> 0]]
  /\ requested = {}
  /\ approved = {}

AccountsNext ==
  \/ \E x \in Users, role \in Roles : CreateUser(x, role)
  \/ \E r \in AdminRequests :
       \/ \E kind \in Mutations, x \in Users, role \in Roles : BeginMutation(r, kind, x, role)
       \/ CheckMutation(r) \/ CommitMutation(r) \/ GiveUp(r)
  \/ \E r \in LoginRequests :
       \/ \E s \in Subs : BeginLogin(r, s)
       \/ RetryLogin(r) \/ RequestAccess(r) \/ Bind(r) \/ LoginBound(r)
       \/ RefuseLogin(r) \/ CheckSessionOwner(r)
       \/ \E i \in SessionIds : InsertSession(r, i)
  \/ \E q \in RefreshRequests :
       \/ \E i \in SessionIds, n \in 1..MaxRotations : ReadForRefresh(q, i, n)
       \/ SwapToken(q)
  \/ \E i \in SessionIds : Logout(i) \/ Expire(i)

AccountsSpec == AccountsInit /\ [][AccountsNext]_accountsVars

-----------------------------------------------------------------------------
(* The state has its types. *)
AccountsTypeOK ==
  /\ workload \in Workloads
  /\ user \in [Users -> Row]
  /\ account \in [Subs -> Users \cup {NoUser}]
  /\ lockHolder \in AdminRequests \cup {NoRequest}
  /\ \A r \in Transactions :
       /\ tx[r].pc \in {"idle", "waiting", "checked", "binding", "session", "insert"}
       /\ tx[r].pc # "idle" => tx[r].target \in Users
       /\ tx[r].view \in Row /\ tx[r].attempt \in 0..MaxAttempts
  /\ \A i \in SessionIds : session[i].owner \in Users \cup {NoUser}
  /\ requested \cup approved \subseteq Users

(* However suspensions, or changes of role, of several administrators      *)
(* overlap, an active administrator is left: lockAdminMutations with       *)
(* assertActiveAdminRemains.                                               *)
AnAdminRemains == ActiveAdmins(user) # {}

(* A person who asked for access through Google becomes ACTIVE, and gets a *)
(* session, only after an administrator approved them, whatever suspension *)
(* and reactivation come between: the PENDING_APPROVAL guards of           *)
(* AdminService and of activateIfInvited.                                  *)
ApprovalBeforeAccess ==
  \A x \in requested \ approved :
    user[x].status # "ACTIVE" /\ \A i \in SessionIds : session[i].owner # x

(* Two logins at once never bind two Google accounts to one user, although *)
(* the schema has no index against it: resolveOrBindInTransaction.         *)
OneGoogleAccount == \A x \in Users : Cardinality(BoundTo(x)) <= 1

(* Each refresh token is redeemed by one request: of two refreshes that    *)
(* read the session before either swapped the hash, one is refused.        *)
RedeemedOnce ==
  \A i \in SessionIds :
    /\ \A p, r \in session[i].redeemed : p[2] = r[2] => p = r
    /\ session[i].owner # NoUser =>
         {p[2] : p \in session[i].redeemed} = 1..(session[i].token - 1)

(* No refresh that is on its way brings back a session that was revoked or *)
(* has expired.                                                            *)
ClosedIsFinal ==
  [][\A i \in SessionIds : session[i].owner # NoUser /\ ~Live(i) =>
       session'[i].token = session[i].token /\ ~Live(i)']_accountsVars

=============================================================================
