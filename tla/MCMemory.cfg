SPECIFICATION Spec
CONSTANTS
  N = 4
  MaxEdges = 4
  Programs <- MCPrograms
INVARIANTS
  LoadsSeeStores
  StopsForCause
CHECK_DEADLOCK FALSE
