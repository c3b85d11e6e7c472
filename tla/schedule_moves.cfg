SPECIFICATION DaySpec
CONSTANTS
    Matches <- MCMatches
    Courts = {1, 2}
    NoCourt = 0
    Break = 5
    Slots <- MCSlots
    Teams <- MCTeams
    Items <- MCItems
    NoSlot = "noSlot"
    NoTeam = "noTeam"
    NoItem = "noItem"
    NoMatch = 0
    TeamOf <- MCTeamOf
    SourceOf <- MCSourceOf
    ItemOf <- MCItemOf
    TypeOf <- MCTypeOf
    RoundOf <- MCRoundOf
    Side <- MCSide
    Feeder <- MCFeeder
    Referee <- MCReferee
    RefereesEnabled = TRUE
    StageOf <- MCStageOf
    LevelOf <- MCLevelOf
    InitialPlans <- MCInitialPlans
    Lengths = {10, 15}
    BreakSizes = {0, 10}
    Heights = {24, 40, 60, 80}
    MaxSteps = 2
INVARIANTS
    CourtsNeverOverlap
    ActionsPredicted
    FreshRequestsAccepted
    PlayedKeepSlots
    PreviewMatchesOutcome
    DoubleBookingsSeen
    ChainsOfDependenceSeen
    EveryConflictShown
CHECK_DEADLOCK FALSE
