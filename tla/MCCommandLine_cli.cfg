SPECIFICATION CliSpec
CONSTANTS
  SCORE_MAX = 3
  EXTREMITY = 500
  WARN_MAX = 750
  WARN_MIN = 230
  SHOWN_MAX = 425
  SHOWN_MIN = 255
  Y_MAX = 500
  Y_MIN = 250
  FAIL_MAX = 1
  MaxLate = 0
  BusLossy = FALSE
  Readings = {760}
  Scores = {2}
  WarnRequests <- MCRequests
  HALF = 1024
  Args <- MCArgs
  Garbage <- MCGarbage
  Callers = {"user"}
  LatencyScreen = TRUE
  Restarts = TRUE
INVARIANT HeatingSurvivesSafeMode
INVARIANT WarnShown
INVARIANT WarnAsTyped
