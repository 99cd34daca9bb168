SPECIFICATION Spec
CONSTANTS
    t1 = t1
    t2 = t2
    c1 = c1
    c2 = c2
    x1 = x1
    u0 = u0
    u1 = u1
    Queries <- TwoQueries
    Clients <- OneClient
    Questions <- OneQuestion
    Upstreams <- NoUpstream
    Global = u0
    Ttls <- LongTtl
    CLIENT_CACHE_TTL = 2
    TTL_MIN = 1
    TTL_DEFAULT = 1
    TTL_MAX = 2
    MaxTime = 3
    MaxChanges = 1
INVARIANTS BlockedDespiteCache CurrentConfigRight StaleConfigExpires ServedWithinMax
SYMMETRY Tasks
