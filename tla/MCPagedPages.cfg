SPECIFICATION FairSpec
CONSTANTS
    Routes = {"rules", "logs"}
    Ids <- MCIds
    Words = {"a"}
    PAGE_SIZE = 1
    Seeds <- MCSeeds
    MaxEvents = 2
INVARIANTS OwnBulkShown
PROPERTIES DeletesAsAsked LogShown
CHECK_DEADLOCK FALSE
