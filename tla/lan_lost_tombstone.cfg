CONSTANTS
  devA = devA
  devB = devB
  p1 = p1
  p2 = p2
  v0 = v0
  Device = {devA, devB}
  Projects = {p1, p2}
  Apps = {a1}
  Sessions = {s1}
  Manuals = {m1}
  Vals = {v0, v1}
  None = None
  AppOf <- MCAppOf
  Pid <- MCPid
  StartDbs <- MCStartDbs
  UserOps = {"delete_manual_session"}
  EditsDuringSync = FALSE
  Forces = {FALSE}
  MaxRetries = 2
  DbReadyAttempts = 2
  MaxTime = 4
  MaxOps = 1
  MaxSyncs = 2
  MaxFaults = 3
SPECIFICATION Spec
INVARIANT NoResurrection
CHECK_DEADLOCK FALSE
