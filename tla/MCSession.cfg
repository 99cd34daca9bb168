SPECIFICATION SessionFairSpec
CONSTANTS
    t1 = t1
    t2 = t2
    Requests <- TwoTabs
    MAX_LOGIN_FAILURES = 2
    FAILURE_WINDOW = 2
    MaxActs = 6
    MaxTokens = 2
INVARIANTS LimitHolds ForcedChange
PROPERTY LockEnds
CHECK_DEADLOCK FALSE
