CONSTANTS
  NGp = 2
  NFp = 3
  Types <- MCTypes
  Signatures <- MCSignatures
INIT Init
NEXT Next
INVARIANTS ArgumentsArrive VariadicsArrive ResultArrives
CHECK_DEADLOCK FALSE
