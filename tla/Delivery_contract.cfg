CONSTANTS
    MaxRow = 3
    EventRows <- MCEventRows
    VisibleRows <- MCVisibleRows
    BounceRows <- MCBounceRows
    PageLimit = 2
    MaxApplyAttempts = 2
    MaxMishaps = 1
SPECIFICATION FairSpec
INVARIANTS SettledBeforeAcknowledged NoVisibleRowLost ToastedAtMostOnce
PROPERTIES ImplementsOutbox EveryRowAcknowledged
CHECK_DEADLOCK FALSE
