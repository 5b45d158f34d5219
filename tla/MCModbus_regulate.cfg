SPECIFICATION Spec
CONSTANTS
  SCORE_MAX = 3
  EXTREMITY = 500
  WARN_MAX = 750
  WARN_MIN = 230
  SHOWN_MAX = 425
  SHOWN_MIN = 255
  Y_MAX = 500
  Y_MIN = 250
  FAIL_MAX = 1
  MaxLate = 1
  BusLossy = TRUE
  Readings = {300, 600, 760}
  Scores = {5}
  WarnRequests <- OneRequest
  Callers = {"opc"}
  LatencyScreen = FALSE
  Restarts = TRUE
INVARIANT TypeOK
 
INVARIANT AlarmIcon
INVARIANT CoolingAccounted
