SPECIFICATION FairSpec
CONSTANTS
    c1 = c1
    c2 = c2
    Contacts <- TheContacts
    Audience <- TheAudience
    MaxRuns = 2
    Cap = 2
    MaxWrites = 2
    Traces = {0, 2}
    MaxMishaps = 1
INVARIANTS CapKept StopIsPrompt PauseIsPrompt SummariesAreTrue
PROPERTY RunEnds
CHECK_DEADLOCK FALSE
