SPECIFICATION Spec
CONSTANTS
  N = 3
  MaxEdges = 4
  Regs = {"g", "r", "s", "c"}
  RSave = {"r", "s"}
  Tmps = {"t", "u", "v", "p", "q"}
  Tests = {"t", "v", "p"}
  Order <- MCOrder
  Bodies <- MCBodies
  Entry <- MCEntry
  Joins <- MCJoins
INVARIANTS
  LiveExact
  PressureExact
  UsesFindValues
  NoFault
CHECK_DEADLOCK FALSE
