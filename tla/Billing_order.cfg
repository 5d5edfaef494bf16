SPECIFICATION BoundedSpec
CONSTANTS
    MaxCalls = 2
    Admins = {a, b}
    Second = b
    MaxSubs = 2
    MaxCustomers = 2
    MaxNews = 3
    Sold = {"incomplete", "active"}
INVARIANT UpsertsCurrent
CHECK_DEADLOCK FALSE
