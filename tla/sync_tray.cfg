CONSTANTS
  Thread = {t1, t2}
  Remote = {}
  MAX_RETRIES = 2
  SYNC_CIRCUIT_BREAKER_THRESHOLD = 2
  SYNC_BACKOFF_BASE_SECS = 60
  SYNC_BACKOFF_MAX_SECS = 100
  Forces = {FALSE}
  Triggers = {"tray"}
  MaxFailures = 1
SPECIFICATION FairSpec
PROPERTY TraySyncIsTheOnlyOne
CHECK_DEADLOCK FALSE
