SPECIFICATION Spec
CONSTANTS
  a = a
  b = b
  c = c
  d = d
  Inputs = {a, b, c}
  MaxRounds = 4
  BuiltRounds = 3
  RoundCounts <- AnyRound
  OpenInputs <- OneInput
  Sources <- NoSources
  DropOuts <- NoInputs
  Deletable <- AnyRound
  Editors <- NoEditors
SYMMETRY InputSymmetry
INVARIANT TypeOK
INVARIANT WaitingRoundFollowsComplete
PROPERTY OpenRoundStaysDrawn
