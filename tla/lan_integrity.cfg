CONSTANTS
  devA = devA
  devB = devB
  p1 = p1
  p2 = p2
  v0 = v0
  Device = {devA, devB}
  Projects = {p1, p2}
  Apps = {a1}
  Sessions = {s1}
  Manuals = {m1, m2}
  Vals = {v0}
  None = None
  AppOf <- MCAppOf
  Pid <- MCPid
  StartDbs <- MCMergedDbs
  UserOps <- StructuralOps
  EditsDuringSync = TRUE
  Forces = {FALSE}
  MaxRetries = 1
  DbReadyAttempts = 1
  MaxTime = 3
  MaxOps = 2
  MaxSyncs = 1
  MaxFaults = 1
SPECIFICATION Spec
INVARIANTS TypeOK 

SYMMETRY MCManualSymmetry
CHECK_DEADLOCK FALSE
