SPECIFICATION Spec
CONSTANTS
  WORD = 3
  STEPS = 1
  Data = {500, 3000, 60000}
  MaxRedraws = 1
  MaxPoints = 3
CHECK_DEADLOCK FALSE
INVARIANT TypeOK
INVARIANT DrawnIntact
INVARIANT MarkerFollows
PROPERTY WildNeedsRedraw
