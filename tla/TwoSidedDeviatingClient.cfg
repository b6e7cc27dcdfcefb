SPECIFICATION FairSpec
CONSTANTS
  Item <- MCItem
  Point <- MCPoint
  Group <- MCGroup
  Scalar <- MCScalar
  Base <- MCBase
  Eighth <- MCEighth
  Mul <- MCMul
  MulClamped <- MCMulClamped
  Inv <- MCInv
  hash_to_point <- MCHash
  recover_from_point <- MCRecover
  Undecodable <- NotAPoint
  Key = {3, 5}
  N = 2
  Inputs <- TwoPairs
  Deviating = {"L"}
  Forged <- SomeForged
  ResetAllowed = FALSE
  PanicAborts = FALSE
INVARIANTS AnswersAreBound CheckedBeforeSent
PROPERTIES EveryThreadEnds ImplementsPSU
