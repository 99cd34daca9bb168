SPECIFICATION FairFeed
CONSTANTS
    Capacity = 2
    MaxEntries = 2
    MaxSent = 3
    MaxMounts = 2
    MaxFaults = 2
INVARIANTS TicketOnce OneSocket NewestFirst NothingElseLost
PROPERTY ConnectsOrSays
CHECK_DEADLOCK FALSE
