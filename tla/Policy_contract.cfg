CONSTANTS
    a = a
    b = b
    f1 = f1
    f2 = f2
    Keys = {a, b}
    Forced = {f1, f2}
    Configs <- MCConfigs
    MaxRev = 2
    MaxToggles = 1
    MaxMishaps = 1
SPECIFICATION FairSpec
INVARIANTS ForcedSyncIsFresh ForcedCanBeLifted PolicyInForce
PROPERTY PolicyConverges
CHECK_DEADLOCK FALSE
