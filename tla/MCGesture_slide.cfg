SPECIFICATION FairSpec
CONSTANTS
  COORD_SAVE_MAX = 3
  TRIES = 1
  Points <- MCPoints
  MaxMail = 2
  MaxRequests = 1
  MaxSamples = 6
INVARIANT TypeOK
 
INVARIANT SteadyRecognised
INVARIANT HintAccounted
PROPERTY GestureEnds
PROPERTY CountsDown
