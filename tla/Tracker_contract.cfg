SPECIFICATION FairSpec
CONSTANTS
    Contacts = {c1, c2, c3}
    Unreadable = {c3}
    Earlier = {c1, c3}
    Opps = {o1}
    Tabs = {t1}
    PageRows = 1
    MaxPages = 2
    Lookback = 1
    MaxRecords = 2
    MaxFailures = 1
    MaxDay = 3
    MaxEvents = 2
    MaxMishaps = 2
INVARIANTS CursorBanked
PROPERTIES OrdersArrive ClosedRowsSettle
CHECK_DEADLOCK FALSE
