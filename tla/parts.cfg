CONSTANTS
  Device = {d1, d2}
  Projects = {p1}
  Apps = {a1}
  Sessions = {s1}
  Manuals = {m1}
  Vals = {v}
  None = None
  AppOf <- MCAppOf
  Pid <- MCPid
  LocalDbs <- MCLocalDbs
  TombSets <- MCTombSets
  Now = 4
  Host = h
  Guests = {g1, g2}
  Threads = {t1, t2}
  PAIRING_TRIES = 1
  THROTTLE_TRIES = 1
  NoEntry = NoEntry
  MaxCodes = 2
  MaxPosts = 2
  MaxSecrets = 2
  MaxUpsets = 1
  Exes = {x1}
  NoExe = NoExe
  NoDay = NoDay
  DAY = 6
  SESSION_GAP = 3
  SAVE_SECS = 3
  MAX_ELAPSED = 2
  TrkStart = 4
  TrkEnd = 8
  TrkUpsets = 1
  MaxWait = 3
  DsApps = {x1, x2}
  DsFiles = {k1, k2}
  Snapshots <- MCSnapshots
  NoSnapshot = NoSnapshot
  NoRow = NoRow
  Daemon = daemon
  Legacy = legacy
  MaxSaves = 2
  MaxFaults = 1
  MaxProjId = 1
  GAP_FILL = 3
  SES_DAY = 4
  SesEnd = 5
  MaxRows = 3
  MaxSesOps = 2
  Peers = {u1, u2}
  NoMark = NoMark
  MaxUtc = 4
  MaxEdits = 2
  MaxSessions = 1
  MaxPkgs = 1
  MaxTriggers = 2
  OnFaults = 1
  Dev = {1, 2}
  Unknown = Unknown
  ELECTION = 1
  MAX_DELAY = 1
  MaxTime = 3
  MaxPackets = 2
  MaxOdds = 1
  Side = {sa, sb}
  Absent = Absent
  SLOTS = 2
  MaxChanges = 3
  MaxFiles = 1
  MaxImports = 2
  AsgSess = {s1, s2}
  AsgProj = {pa, pb}
  Unset = Unset
  PathOf <- MCPathOf
  RULE_MIN = 1
  MaxDay = 1
  MaxAsg = 3
  PtSess = {s1, s2}
  PtProj = {pa, pb}
  Nobody = Nobody
  Lengths <- MCLengths
  NOMINAL = 4
  HOUR = 2
  SCALE = 6
  Spans <- MCSpans
  Imported <- MCImported
  ManualSpan <- MCManualSpan
  FileRows <- MCFileRows
  MaxTableEdits = 2
  ProjName = {na, nb, nc}
  NoName = NoName
  MaxTreeEdits = 3
  MaxPeerRows = 1
  CliProj = {p, pb}
  Client = {"MET", "met", "MET_X"}
  Lower <- MCLower
  RawNames = {"MET", "MET_X"}
  BaseOf <- MCBaseOf
  Nothing = Nothing
  MaxCliEdits = 5
  Pids = {i1, i2, i3}
  NoPid = NoPid
  MaxStarts = 3
  MaxMishaps = 2
  Process = {u1, u2}
  Conn = {t1, t2}
  NoConn = NoConn
  PAIR_FAIL_MAX = 2
  MaxWebCodes = 2
  MaxWebUpsets = 2
  Task = {t1, t2}
  NoTask = NoTask
  NoRestore = NoRestore
  Today = 3
  MaxDbOps = 3
  MaxBackups = 1
SPECIFICATION PartsSpec
INVARIANTS
  TypesOK
  LoopIsApplyTombstones
  CodeGuarded PairingsStay
   LossHasAReason
  ReadsAreCommitted
  ClosedTimeIsKept 
  SessionMeansSame 
  
  DeletionsAreReal
  AutoRunsCanBeUndone 
  TimeCountedOnce ViewsAgree
  TimeHasAHome NamesCanComeBack
  
  HostCanBeStopped
  LoginsAreKept
   ModesStayApart
PROPERTIES
  StoreImplementsDay
  ImportKeepsWork
  
CHECK_DEADLOCK FALSE
