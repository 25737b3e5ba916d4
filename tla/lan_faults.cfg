CONSTANTS
  devA = devA
  devB = devB
  p1 = p1
  p2 = p2
  v0 = v0
  Device = {devA, devB}
  Projects = {p1}
  Apps = {a1}
  Sessions = {}
  Manuals = {}
  Vals = {v0}
  None = None
  AppOf <- MCAppOf
  Pid <- MCPid
  StartDbs <- MCStartDbs
  UserOps = {}
  EditsDuringSync = FALSE
  Forces = {TRUE, FALSE}
  MaxRetries = 2
  DbReadyAttempts = 2
  MaxTime = 2
  MaxOps = 0
  MaxSyncs = 2
  MaxFaults = 3
SPECIFICATION FairSpec

PROPERTIES  SyncEnds NobodyStaysFrozen
CHECK_DEADLOCK FALSE
