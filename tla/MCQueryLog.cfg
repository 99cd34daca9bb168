SPECIFICATION FairSpec
CONSTANTS
    a1 = a1
    a2 = a2
    a3 = a3
    Answers <- ThreeAnswers
    BATCH_SIZE = 2
    MaxFailures = 1
    MaxRestarts = 1
INVARIANT CountersAgree
PROPERTIES ImplementsLog Settles
CHECK_DEADLOCK FALSE
