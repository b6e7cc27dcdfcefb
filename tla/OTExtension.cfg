CONSTANTS
  K = 2
  Octet = 2
  Extra = 2
  Batches = 2
  M = 3
  Order = 3
  Scalars = {0, 1, 2}
  G <- MCG
  Chi <- MCChi
  Pads <- MCPads
SPECIFICATION Spec
INVARIANTS ColumnsCorrelated NeverPanics
PROPERTY ImplementsIdeal
