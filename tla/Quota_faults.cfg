\* Two gates; Redis raises, two workers disagree about it, the minute changes, a reset.
\* And four charges by two clients: Redis fails and comes back, with its data or without.
CONSTANTS
    Parts = {"minute", "ledgers"}
    a = a
    b = b
    c = c
    d = d
    w1 = w1
    w2 = w2
    person = person
    key = key
    Requests = {a, b, c}
    Workers = {w1, w2}
    WorkerOf <- TwoWorkers
    Subjects = {person, key}
    Cleared = {person}
    Gates <- ThroughTheKey
    PerMinute <- TwoAndOne
    UseRedis = TRUE
    LastMinute = 1
    MaxFailures = 1
    MaxResets = 1
    Charges = {a, b, c, d}
    ChargedAt <- ByWorker
    Cost <- OneOrTwo
    Limit = 2
    Clients = 2
    MaxOutages = 2
    MaxLosses = 1
    AnswersLost = TRUE
SPECIFICATION SpecBoth
INVARIANTS PlacesExact ChargesKept
PROPERTIES LoserRefusedOnlyWhenFull NotHandedBack
CHECK_DEADLOCK FALSE
