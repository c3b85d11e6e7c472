SPECIFICATION Spec
CONSTANTS
  Clients = {c1, c2}
  Kinds = {"ROUND_ROBIN", "MEXICANO", "SINGLE_ELIMINATION"}
  Matches = {1, 2, 3, 4}
  Opening = {1, 2}
  Later <- LaterOfTwo
  Feeder <- TwoSemifinals
  Teams = {1, 2, 3, 4}
  NoTeam = 0
  Drawings <- Pairings
  Outcomes <- OpenMatch
  Verbs <- VerbsOfOne
SYMMETRY ClientSymmetry
INVARIANT AdvanceNotLost
INVARIANT NextRoundDrawn
PROPERTY StartedKeepsPairs
