\* A database that fails before or after a commit, a bad row, a stop anywhere.
CONSTANTS
    u1 = u1
    u2 = u2
    u3 = u3
    u4 = u4
    Rows = {u1, u2, u3, u4}
    Bad = {u4}
    Loop = loop
    Closer = closer
    Reports = {report}
    MaxBuffer = 2
    MaxOutages = 2
    Outages = {"down", "answer lost"}
SPECIFICATION FairSpecLog
INVARIANT RowsInPlace
PROPERTIES ImplementsLedger EveryRowSettles
CHECK_DEADLOCK FALSE
