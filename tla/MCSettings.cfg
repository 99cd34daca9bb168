SPECIFICATION Spec
CONSTANTS
    Order <- MCOrder
    Values = {"a", "b", "refused"}
    OutOfRange = {"refused"}
    Defaults <- MCDefaults
    MaxEvents = 4
    Elsewhere <- MCElsewhere
    Seeds <- MCSeeds
    Ids <- MCIds
    Priorities <- MCPriorities
    None = None
INVARIANTS StoredAsSaved SavesTheRowOpened
PROPERTIES EditsKept NoReturn
CHECK_DEADLOCK FALSE
