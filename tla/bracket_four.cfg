SPECIFICATION Spec
CONSTANTS
  NumRounds = 2
  MaxSets = 3
  Rankings <- OneOrThreeSets
  ScoreInputs <- AnyScore
  ScoredSets <- OneSet
  Forced <- AlwaysForced
INVARIANT StartedHasOpponents
INVARIANT SlotComesFromFeeder
INVARIANT NobodyPlaysTwiceInARound
PROPERTY StartedMatchKeepsOpponents
PROPERTY VerbRealignsFollower
PROPERTY EditBringsWinners
