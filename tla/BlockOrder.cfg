\* Every graph of four parsed blocks in which nothing jumps to the start
\* block, with one block at a greater loop depth than the others; and
\* every function of four allocated ones, empty or not.
SPECIFICATION OrderSpec
CONSTANT N = 4
INVARIANTS
  RetreatingEdgesAreLoops
  PhisMatchEdges
  Forest
  SameRuns
CHECK_DEADLOCK FALSE
