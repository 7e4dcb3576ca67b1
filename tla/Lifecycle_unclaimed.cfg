\* A response cancelled before its body starts.
CONSTANTS
    r1 = r1
    r2 = r2
    coding = coding
    long = long
    spare = spare
    a1 = a1
    a2 = a2
    b1 = b1
    NoEndpoint = none
    Requests = {r1}
    Streams = {r1}
    Models = {coding, long, spare}
    Endpoints = {a1, a2, b1}
    EndpointsOf <- ThreeModels
    Fallback <- BothWays
    MaxPending = 1
    Faults = {"unclaimed"}
SPECIFICATION Spec
INVARIANTS SlotGivenBack
