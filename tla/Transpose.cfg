CONSTANTS
  Shapes <- MCShapes
  Word = 65536
SPECIFICATION Spec
INVARIANTS InBounds Transposed
CHECK_DEADLOCK FALSE
