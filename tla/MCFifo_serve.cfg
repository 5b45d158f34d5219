SPECIFICATION FairSpec
CONSTANTS
  Setters = {s1}
  Getters = {g1, g2}
  Deaths = TRUE
CHECK_DEADLOCK FALSE
INVARIANT LostWasMissed
INVARIANT ServerSurvives
INVARIANT RestsAtOpen
PROPERTY NobodyHangs
