SPECIFICATION Spec
CONSTANTS
  Regs = {r1, r2, r3}
  Slots = {s1, s2}
  Consts = {con}
  Junk = junk
  Tmp0 = 4
SYMMETRY Symmetry
INVARIANTS
  MovesRealised
  CyclesClosed
  DiesOnlyOfSlots
CHECK_DEADLOCK FALSE
