SPECIFICATION FairSpec
CONSTANTS
    Pages = {"filters", "users"}
    Ids <- MCIds
    Bodies <- MCBodies
    Roles <- MCRoles
    Remote <- MCRemote
    Switch = {TRUE}
    Seeds <- MCSeeds
    MaxCalls = 1
    MaxFaults = 1
    MaxVisits = 1
    MaxEvents = 3
    MaxPolls = 1
    None = None
    New = New
PROPERTY SyncShown
CHECK_DEADLOCK FALSE
