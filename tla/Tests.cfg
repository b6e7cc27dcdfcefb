CONSTANTS
  Psu = Psu
  Adapted = Adapted
  Test = {Psu, Adapted}
  Unset = Unset
  Bits = 2
  Default <- MCDefault
  Text <- MCText
  Blocks = {b1, b2, b3}
  Percentages = {0, 2, 4}
  MaxAnswer = 2
SPECIFICATION Spec
INVARIANTS OwnParams SizeIsMeant RefusesWrongBlocks
PROPERTY OneSurvivor
