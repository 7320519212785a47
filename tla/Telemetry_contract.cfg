CONSTANTS
    Keys = {k1, k2}
    Capacity = 1
    FeatureCapacity = 1
    MaxEvents = 3
    MaxBatches = 2
    MaxFaults = 2
SPECIFICATION FairSpec
INVARIANTS CountedOnce BatchIdNamesItsEvents DropsNotInvented
PROPERTIES ImplementsLedger EveryEventCounted
CHECK_DEADLOCK FALSE
