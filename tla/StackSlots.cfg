\* Five locals, of any alignment, against an INT_MAX that they exhaust with
\* 16 bytes each; five temporaries, so that a hole is opened, jumped over by
\* a wide slot, filled and opened again.
SPECIFICATION SlotSpec
CONSTANTS
  Locals = {a, b, c, d, e}
  Temps = {w1, w2, w3, l1, l2}
  Wide = {l1, l2}
  Sizes = {0, 1, 3, 5}
  IntMax = 19
  Vararg = TRUE
SYMMETRY Symmetry
INVARIANTS
  NoOverlap
  Framed
  OneHole
CHECK_DEADLOCK FALSE
