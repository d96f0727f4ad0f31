------------------------------ MODULE MCAccounts ------------------------------
(* Three addresses, two of them administrators' at the start; two Google   *)
(* subjects share the first address, the third subject has an unknown one. *)
EXTENDS Accounts, TLC

MCUsers == {"ann", "bob", "eve"}
MCSeeded == {"ann", "bob"}
MCSubs == {"ann1", "ann2", "eve1"}
MCEmailOf == [s \in MCSubs |-> IF s = "eve1" THEN "eve" ELSE "ann"]

MCSymmetry == Permutations(AdminRequests) \cup Permutations(LoginRequests)
              \cup Permutations(RefreshRequests)

(* The overlaps one behaviour explores: changes of status together, changes *)
(* of role together, each with logins, and the life of a session.          *)
Status == {"suspendUser", "reactivateUser", "approveUser"}
RoleChanges == {"createUser", "updateUser"}
MCWorkloads ==
  {Status \cup {"createUser"} \cup AdminRequests, RoleChanges \cup AdminRequests}
  \cup {Status \cup {"login", r} \cup LoginRequests : r \in AdminRequests}
  \cup {RoleChanges \cup {"login", r} \cup LoginRequests : r \in AdminRequests}
  \cup {{"suspendUser", "login", "refresh", "logout"} \cup p \cup RefreshRequests :
          p \in {{r, l} : r \in AdminRequests, l \in LoginRequests}}

(* A suspension and a change of role at once. *)
MCMixedWorkloads == {{"suspendUser", "updateUser"} \cup AdminRequests}

=============================================================================
