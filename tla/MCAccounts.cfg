SPECIFICATION Spec
CONSTANTS
    t1 = t1
    t2 = t2
    u1 = u1
    u2 = u2
    Tasks <- TwoTasks
    Users <- TwoUsers
    Admin = u1
    Absent = Absent
    MaxRestarts = 1
INVARIANT LostOnlyInRace
