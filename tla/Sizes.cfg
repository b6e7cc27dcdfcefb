CONSTANTS
  Max = 3
SPECIFICATION Spec
INVARIANTS OutputMeansFit ShufflesFit
PROPERTY BothEnd
