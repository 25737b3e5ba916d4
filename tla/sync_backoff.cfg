CONSTANTS
  Thread = {t1, t2}
  Remote = {r1}
  MAX_RETRIES = 2
  SYNC_CIRCUIT_BREAKER_THRESHOLD = 1
  SYNC_BACKOFF_BASE_SECS = 60
  SYNC_BACKOFF_MAX_SECS = 100
  Forces = {TRUE, FALSE}
  Triggers = {"dashboard", "tray", "discovery"}
  MaxFailures = 2
SPECIFICATION Spec
INVARIANT NoSyncDuringBackoff
CHECK_DEADLOCK FALSE
