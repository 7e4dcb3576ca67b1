\* Every fault at once: Redis raises, commands overtake each other, workers crash, the
\* registry moves the endpoints.
CONSTANTS
    r1 = r1
    r2 = r2
    r3 = r3
    w1 = w1
    w2 = w2
    e1 = e1
    e2 = e2
    s1 = s1
    s2 = s2
    Redis = redis
    Workers = {w1, w2}
    Requests <- TwoRequests
    WorkerOf <- TwoHomes
    Endpoints = {e1}
    Slots = {s1,s2}
    Limit <- JustOne
    Ceiling = 1
    TTL = 1
    Faults = {"acquire", "return", "reorder", "crash", "reload"}
SPECIFICATION FairSpec
INVARIANT BooksAgree
PROPERTIES LeaseOnlyAges ImplementsPermits SlotsComeBack
CHECK_DEADLOCK FALSE
