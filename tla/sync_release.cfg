CONSTANTS
  Thread = {t1, t2}
  Remote = {r1}
  MAX_RETRIES = 2
  SYNC_CIRCUIT_BREAKER_THRESHOLD = 1
  SYNC_BACKOFF_BASE_SECS = 60
  SYNC_BACKOFF_MAX_SECS = 100
  Forces = {FALSE}
  Triggers = {"dashboard", "tray", "discovery"}
  MaxFailures = 1
SPECIFICATION FairSpec
PROPERTIES LockReleased FreezeEnds
CHECK_DEADLOCK FALSE
