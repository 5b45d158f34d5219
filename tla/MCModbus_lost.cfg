SPECIFICATION FairSpec
CONSTANTS
  SCORE_MAX = 3
  EXTREMITY = 500
  WARN_MAX = 750
  WARN_MIN = 230
  SHOWN_MAX = 425
  SHOWN_MIN = 255
  Y_MAX = 500
  Y_MIN = 250
  FAIL_MAX = 1
  MaxLate = 0
  BusLossy = TRUE
  Readings = {300}
  Scores = {0, 2}
  WarnRequests <- NoRequests
  Callers = {"user"}
  LatencyScreen = FALSE
  Restarts = FALSE
PROPERTY HeatingOff
