\* Every graph of five blocks and seven edges at most in which each block
\* but the first has a predecessor before it: loops in loops, loops that
\* share a header, and irreducible ones, in which a second pass corrects
\* the dominators the first one found.
SPECIFICATION Spec
CONSTANTS
  N = 5
  MaxEdges = 7
INVARIANTS
  IdomExact
  FrontierExact
  LoopsExact
PROPERTY Terminates
CHECK_DEADLOCK FALSE
