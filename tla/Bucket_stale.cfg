CONSTANTS
    Fields = {"subject"}
    Contested = {"subject"}
    MaxEdits = 1
    MaxOthers = 1
    MaxDeletes = 0
    MaxRemovals = 0
    MaxOpens = 1
    MaxFaults = 0
    MaxRestarts = 0
    MaxMishaps = 2
SPECIFICATION Spec
PROPERTY SyncKeepsEdits
CHECK_DEADLOCK FALSE
