--------------------------- MODULE MCUsageBuffer ---------------------------
(* UsageBuffer for TLC, and its properties under their names. *)
EXTENDS TLC

CONSTANTS
    Rows, Bad, Loop, Closer, Reports, MaxBuffer, MaxOutages,
    Outages,       \* the Faults of UsageBuffer
    u1, u2, u3, u4

VARIABLES
    phase, fresh, buffer, mode, batch, at, stored, rejected, outages, answerLost,
    discarded      \* the dropped of UsageBuffer

Log == INSTANCE UsageBuffer WITH Faults <- Outages, dropped <- discarded

ASSUME UsageAssumption == Log!UsageKnown

SpecLog == Log!Spec
FairSpecLog == Log!FairSpec

RowsInPlace == Log!RowsInPlace
ImplementsLedger == Log!ImplementsLedger
EveryRowSettles == Log!EveryRowSettles
DrainedOnStop == Log!DrainedOnStop
=============================================================================
