SPECIFICATION FairSpec
CONSTANTS
  HaveOpc = TRUE
  Slides = TRUE
  Redraws = TRUE
  WarmStart = FALSE
  MaxTx = 2
CHECK_DEADLOCK FALSE
INVARIANT TypeOK
INVARIANT HeldWhileBlocking
INVARIANT SlipOnce
INVARIANT ScreenAgrees
INVARIANT SelfLockNeedsSlip
PROPERTY BlockedClientsWake
PROPERTY KillStopsAfterwards
