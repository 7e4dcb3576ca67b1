\* Two endpoints probed and used by two requests, two events; and two requests in a row
\* over every registry, with a cache of one entry.
CONSTANTS
    Parts = {"health", "dispatch"}
    Endpoints = {e1, e2}
    Requests = {r1, r2}
    NoEndpoint = NoEndpoint
    Thresholds <- MCThresholds
    Keep = 3
    MaxEvents = 2
    Registries <- MCRegistries
    Calls <- MCCalls
    Sick <- MCSick
    Busy <- MCBusy
    MaxCalls = 2
    MaxLocal = 1
SPECIFICATION SpecBoth
INVARIANTS VerdictsSound ServedAsAllowed CacheIsFaithful
PROPERTIES FlipsOnEvidence ComesBack
CHECK_DEADLOCK FALSE
