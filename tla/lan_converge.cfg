CONSTANTS
  devA = devA
  devB = devB
  p1 = p1
  p2 = p2
  v0 = v0
  Device = {devA, devB}
  Projects = {p1, p2}
  Apps = {a1}
  Sessions = {s1}
  Manuals = {m1}
  Vals = {v0, v1}
  None = None
  AppOf <- MCAppOf
  Pid <- MCPid
  StartDbs <- MCStartDbs
  UserOps = {"create_project", "update_project", "restore_project", "merge_project", "rename_application", "reset_app_time", "assign_session", "update_session", "create_manual_session", "update_manual_session", "delete_manual_session"}
  EditsDuringSync = FALSE
  Forces = {FALSE}
  MaxRetries = 2
  DbReadyAttempts = 2
  MaxTime = 4
  MaxOps = 2
  MaxSyncs = 2
  MaxFaults = 0
SPECIFICATION Spec
INVARIANTS LatestEditWins DeletionsReachBoth NoResurrection PeersConverge
CHECK_DEADLOCK FALSE
