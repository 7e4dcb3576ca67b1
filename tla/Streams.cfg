\* Streams of four payloads (six events of a native backend) on every surface, and
\* conversations of six pieces.
CONSTANTS
    Parts = {"relay", "translation"}
    Surfaces <- MCSurfaces
    Chunks <- MCChunks
    Totals <- MCReports
    Estimate = 1
    MaxChunks = 4
    MaxNative = 6
    MaxPieces = 6
SPECIFICATION SpecBoth
INVARIANTS StreamIsReadable AnswersAgree BillIsTrue ConversationKept
CHECK_DEADLOCK FALSE
