SPECIFICATION Spec
CONSTANTS
  a = a
  b = b
  c = c
  d = d
  Inputs = {a, b, c, d}
  MaxRounds = 2
  BuiltRounds = 2
  RoundCounts <- NoCounts
  OpenInputs <- NoInputs
  Sources <- NoSources
  DropOuts <- TwoInputs
  Deletable <- NoRounds
  Editors <- NoEditors
SYMMETRY InputSymmetry
INVARIANT FirstOpenRoundIsPlayable
PROPERTY StartedRoundKeepsPairs
PROPERTY PinnedRoundKeepsPairs
