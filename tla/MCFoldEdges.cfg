SPECIFICATION Spec
CONSTANTS
  N = 4
  MaxEdges = 5
  Hosts <- MCHosts
INVARIANT
  EdgesDieOnce
CHECK_DEADLOCK FALSE
