CONSTANTS
    w1 = w1
    a = a
    b = b
    Nobody = Nobody
    Workers = {w1}
    Requests = {a, b}
    NFiles = 2
    Targets = {1}
    Asks <- AnythingAndDelete
    MaxEdits = 1
SPECIFICATION FairSpec
PROPERTIES NeverEmptied EveryWorkerNotices
CHECK_DEADLOCK FALSE
