SPECIFICATION LowerSpec
CONSTANTS
  MaxSize = 137
  Sizes = {1, 4, 8}
  Counts = {3, 5}
  IntMax = 4
  NField = 5
  MaxStructs = 3
  MaxParts = 5
  Inits <- MCInits
  Slacks <- MCSlacks
  MaxOf <- MCMaxOf
  MaxNodes = 7
  MaxArgs = 1
INVARIANTS
  LayoutSound
  DeclaredOnce
  LayoutAgrees
  Accepted
  ImageExact
  WholeStored
  StoresAligned
  NamesDefined
  OnceInOrder
  LabelsAgree
CHECK_DEADLOCK FALSE
