SPECIFICATION Spec
CONSTANTS
  a = a
  b = b
  c = c
  d = d
  Inputs = {a, b, c, d}
  MaxRounds = 2
  BuiltRounds = 2
  RoundCounts <- NoCounts
  OpenInputs <- NoInputs
  Sources <- HalfAndHalf
  DropOuts <- NoInputs
  Deletable <- NoRounds
  Editors = {e}
SYMMETRY InputSymmetry
INVARIANT NobodyPlaysTwiceInARound
