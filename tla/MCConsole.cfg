SPECIFICATION Spec
CONSTANTS
    Pages = {"filters", "rewrites", "clients", "users", "upstreams"}
    Ids <- MCIds
    Bodies <- MCBodies
    Roles <- MCRoles
    Remote <- MCRemote
    Switch = {TRUE}
    Seeds <- MCSeeds
    MaxCalls = 2
    MaxFaults = 0
    MaxVisits = 1
    MaxEvents = 2
    MaxPolls = 1
    None = None
    New = New
INVARIANT OwnWritesShown
PROPERTY KeptOnFailure
CHECK_DEADLOCK FALSE
