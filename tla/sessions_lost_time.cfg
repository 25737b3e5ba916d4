CONSTANTS
  MaxProjId = 1
  GAP_FILL = 3
  SES_DAY = 5
  SesEnd = 6
  MaxRows = 3
  MaxSesOps = 2
SPECIFICATION SesSpec
INVARIANT TimeStaysVisible
CHECK_DEADLOCK FALSE
