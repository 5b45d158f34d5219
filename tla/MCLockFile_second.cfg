SPECIFICATION Spec
CONSTANTS
  Processes = {p1, p2}
  Serial = FALSE
INVARIANT OneServer
