SPECIFICATION Spec
CONSTANTS
    MaxSets = 3
    MaxPoints = 2
    LastSetMaxPoints = 1
    TwoPointAdvantage = FALSE
    DrawsAllowed = FALSE
    PlayAllSets = FALSE
    SideSwitchEvery = 2
    Trackers = {1, 2}
    Organiser = 0
    Crews <- OneAndOrganiser
    InitialMatches <- LateMatches
    Steps <- UpAndDown
    Corrections = {1}
    MaxSaves = 1
    MaxEvents = 3
INVARIANTS
    UntouchedScoresKept
CHECK_DEADLOCK FALSE
