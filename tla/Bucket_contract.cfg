CONSTANTS
    Fields = {"subject", "body"}
    Contested = {"body"}
    MaxEdits = 2
    MaxOthers = 1
    MaxDeletes = 1
    MaxRemovals = 1
    MaxOpens = 1
    MaxFaults = 1
    MaxRestarts = 1
    MaxMishaps = 2
SPECIFICATION FairSpec
INVARIANTS ContributionSurvives RemovalIsMeant OnlyRacedEditsAreLost
PROPERTIES EditsArrive
CHECK_DEADLOCK FALSE
