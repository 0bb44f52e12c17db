SPECIFICATION Spec
CONSTANTS
  N = 4
  MaxEdges = 5
  Hosts <- MCHosts
INVARIANTS
  LoadsSeeLast
  JumpsFollowHost
  StoppedForCause
CHECK_DEADLOCK FALSE
