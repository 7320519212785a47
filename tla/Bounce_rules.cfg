CONSTANTS
    contact = contact
    stranger = stranger
    Jobs = {1, 2, 3}
    Addresses <- MCAddresses
    Address <- MCAddress
    Contacts <- MCContacts
    Tabs = 2
    PerDrain = 1
    MaxAttempts = 2
    MaxFlows = 2
    MaxUpsets = 1
    MaxRefusals = 2
SPECIFICATION BounceFairSpec
INVARIANTS OnlyRefusalsBurnAttempts SingleTask
PROPERTY JobsLeaveQueue
CHECK_DEADLOCK FALSE
