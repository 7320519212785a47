CONSTANTS
    Starts = {1, 2}
    Fresh = TRUE
    Grace = 2
    MaxClock = 3
    MaxFlips = 2
    MaxFaults = 1
    MaxRefused = 1
    MaxStray = 1
    MaxRestarts = 1
SPECIFICATION FairSpec
INVARIANTS StampIsVerified ClosedIsClosed RevocationHolds
PROPERTIES GateFollowsKey
