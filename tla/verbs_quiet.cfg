SPECIFICATION Spec
CONSTANTS
  m1 = m1
  m2 = m2
  c1 = c1
  c2 = c2
  e1 = e1
  e2 = e2
  Matches <- OneMatch
  Clients <- TwoClients
  Editors <- OneEditor
  MaxSets = 3
  ScoreInputs <- LevelOrOne
  NumSets <- OneOrThree
  Forced <- AnyForce
  EditsOverlap = FALSE
SYMMETRY Symmetry
INVARIANT SetRowsMatchRanking
INVARIANT PointerWithinSets
INVARIANT CompletedAtInLine
INVARIANT PointerViewAgrees
PROPERTY ImplementsLifecycle
