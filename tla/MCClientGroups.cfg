SPECIFICATION Spec
CONSTANTS
    t1 = t1
    t2 = t2
    c1 = c1
    c2 = c2
    r1 = r1
    Tasks <- TwoTasks
    Clients <- TwoClients
    Rules <- OneRule
    MaxGroups = 2
INVARIANT NoOrphans
PROPERTY NewGroupEmpty
SYMMETRY Interchangeable
