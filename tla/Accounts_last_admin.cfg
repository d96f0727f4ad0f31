SPECIFICATION AccountsSpec
CONSTANTS
  Users <- MCUsers
  Subs <- MCSubs
  EmailOf <- MCEmailOf
  Seeded <- MCSeeded
  AdminRequests = {r1, r2}
  LoginRequests = {l1, l2}
  RefreshRequests = {q1, q2}
  SessionIds = {"i1"}
  Workloads <- MCMixedWorkloads
  NoUser = "nobody"
  NoRequest = "no request"
  NoSession = "no session"
  MaxAttempts = 2
  MaxRotations = 2
SYMMETRY MCSymmetry
INVARIANTS AnAdminRemains
CHECK_DEADLOCK FALSE
