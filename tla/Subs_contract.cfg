CONSTANTS
    MaxSaves = 3
    MaxRevisions = 1
    MayApprove = TRUE
    MaxLosses = 1
SPECIFICATION SubmissionsFairSpec
INVARIANTS ResolvedHoldsNewest
PROPERTY CallsSettle
CHECK_DEADLOCK FALSE
