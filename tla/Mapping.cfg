CONSTANTS
  Half <- MCHalf
  XorHalf <- MCXorHalf
  Aes <- MCAes
  Counter <- MCCounter
  P = 509
  A = 60
  SQRT_M1 = 208
  EDWARDS_D = 114
  EIGHT_TORSION <- MCTorsion
  HalfSize = 32
  Keys = {0, 2, 3, 15, 22}
SPECIFICATION MapSpec
INVARIANTS UnwrapsSucceed FoundIsPreimage ZeroOnlyIfExceptional
CHECK_DEADLOCK FALSE
