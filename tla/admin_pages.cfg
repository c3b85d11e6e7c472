SPECIFICATION Spec
CONSTANTS
  Pages <- AllPages
  SlowCaches = {"stages", "inputs", "issues", "teamsPage", "freePlayers"}
  MaxEvents = 4
  MaxLost = 1
  MaxSlow = 1
INVARIANT OwnChangesShown
INVARIANT BadgesCount
CHECK_DEADLOCK FALSE
