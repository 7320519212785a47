SPECIFICATION FairSpec
CONSTANTS
    MaxIds = 3
    MaxTurns = 3
    MaxDecisions = 2
    MaxMishaps = 1
INVARIANTS RetryIsTheSameRun ConversationInOrder SharedUnderOneId
PROPERTIES CancelledStaysCancelled TurnEnds
CHECK_DEADLOCK FALSE
