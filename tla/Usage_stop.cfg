\* A graceful shutdown with a healthy database.
CONSTANTS
    u1 = u1
    u2 = u2
    u3 = u3
    u4 = u4
    Rows = {u1, u2}
    Bad = {}
    Loop = loop
    Closer = closer
    Reports = {report}
    MaxBuffer = 3
    MaxOutages = 0
    Outages = {}
SPECIFICATION SpecLog
INVARIANTS DrainedOnStop
CHECK_DEADLOCK FALSE
