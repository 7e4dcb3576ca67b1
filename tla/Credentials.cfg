\* The vault under two processes and two re-sealings; three requests on two accounts of
\* either database.
CONSTANTS
    Parts = {"vault", "accounts"}
    Last = 2
    Workers = {w1, w2}
    Jobs = {j1, j2}
    Old = Old
    New = New
    NoSecret = NoSecret
    MaxEvents = 3
    amy = amy
    bob = bob
    Names = {amy, bob}
    Requests = {r1, r2, r3}
    Initial <- Tables
    Engines = {"postgresql", "sqlite"}
    AdminName = amy
    NoPassword = NoPassword
SPECIFICATION SpecBoth
INVARIANTS CopiesKept AdministrationLasts UnlessRewound
PROPERTY OnlySoundCopiesMove
CHECK_DEADLOCK FALSE
SYMMETRY Symmetric
