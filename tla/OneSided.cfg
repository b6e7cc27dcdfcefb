SPECIFICATION FairSpec
CONSTANTS
  Item <- MCItem
  Point <- MCPoint
  Group <- MCGroup
  Scalar <- MCScalar
  Base <- MCBase
  Eighth <- MCEighth
  Mul <- MCMul
  MulClamped <- MCMulClamped
  Inv <- MCInv
  hash_to_point <- MCHash
  recover_from_point <- MCRecover
  hash_to_curve <- MCHash
  Block <- MCBlock
  Perp = 0
  challenge <- MCChallenge
  respond <- MCRespond
  multiscalar_mul <- MCMultiscalar
  mul_by_cofactor <- MCCofactor
  Low <- MCLow
  High <- MCHigh
  combine_array <- MCCombine
  NS = 2
  NR = 3
  SenderInputs <- SenderPairs
  ReceiverInputs <- ReceiverTriples
  WithProofs = TRUE
  Key = {3, 5}
  Nonce = {2, 7}
  Deviating = {"S", "R"}
  ResetAllowed = TRUE
  PanicAborts = FALSE
INVARIANTS UnionExact ProofsVerify OneWayAtATime ReturnMeansBoth
PROPERTY CallReturns
