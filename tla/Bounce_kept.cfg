CONSTANTS
    contact = contact
    stranger = stranger
    Jobs = {1, 2}
    Addresses <- MCAddresses
    Address <- MCAddress
    Contacts <- MCContacts
    Tabs = 1
    PerDrain = 2
    MaxAttempts = 2
    MaxFlows = 1
    MaxUpsets = 0
    MaxRefusals = 0
SPECIFICATION BounceSpec
INVARIANT JobKept
CHECK_DEADLOCK FALSE
