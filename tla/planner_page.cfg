SPECIFICATION Spec
CONSTANTS
    Matches = {1, 2}
    Courts = {1}
    NoCourt = 0
    Break = 5
    InitialPlans <- OnePlayed
    BreakSizes = {0}
    Views <- MoveMode
    MaxRequests = 2
    MaxEvents = 3
INVARIANTS
    TypeOK
    SettledIsReal
    PredictionStands
PROPERTIES
    PlayedStayOnCourt
    Converges
