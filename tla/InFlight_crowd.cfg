\* Redis answers; callers are cancelled anywhere and the registry moves the endpoints.
CONSTANTS
    r1 = r1
    r2 = r2
    r3 = r3
    w1 = w1
    w2 = w2
    e1 = e1
    e2 = e2
    s1 = s1
    s2 = s2
    Redis = redis
    Workers = {w1, w2}
    Requests <- ThreeRequests
    WorkerOf <- ThreeHomes
    Endpoints = {e1, e2}
    Slots = {s1, s2}
    Limit <- OneAndTwo
    Ceiling = 2
    TTL = 1
    Faults = {"reload"}
SPECIFICATION Spec
INVARIANT NothingLeftBehind
CHECK_DEADLOCK FALSE
