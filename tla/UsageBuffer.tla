---------------------------- MODULE UsageBuffer ----------------------------
(***************************************************************************)
(* UsageRecorder of app/core/usage.py: the buffer of usage rows, the       *)
(* flushes that empty it into the database, and the shutdown.              *)
(*                                                                         *)
(* flush() is called by the background loop every two seconds, by every    *)
(* report endpoint (include what is still buffered) and once by stop().    *)
(* Each call takes the whole buffer under the lock and writes it without   *)
(* the lock, so several batches are in the air at once.  Nothing is ever   *)
(* awaited while the lock is held: a section under the lock is one step.   *)
(*                                                                         *)
(* A row is an opaque value; its request_id, which the gateway makes       *)
(* itself and the database keeps UNIQUE, is the row.                       *)
(***************************************************************************)
EXTENDS Naturals, Sequences, FiniteSets, Functions

CONSTANTS
    Rows,          \* the usage rows handed in during the run
    Bad,           \* those that some column refuses, whenever they are written
    Loop,          \* the background flush loop
    Closer,        \* the flush that stop() awaits
    Reports,       \* report endpoints, each flushing before it reads
    MaxBuffer,     \* MAX_BUFFER
    MaxOutages,    \* bound: how often the database fails in a run
    Faults         \* how it fails, a subset of FaultKinds

\* The database is not there; it is gone after it committed, before it said so.
FaultKinds == {"down", "answer lost"}

Flushers == {Loop, Closer} \cup Reports

UsageKnown ==
    /\ IsFiniteSet(Rows)
    /\ Bad \subseteq Rows
    /\ Loop # Closer /\ Loop \notin Reports /\ Closer \notin Reports
    /\ MaxBuffer \in Nat \ {0}
    /\ MaxOutages \in Nat
    /\ Faults \subseteq FaultKinds

VARIABLES
    phase,       \* the process: "running", "stopping", "closing" (stop's flush) or "stopped"
    fresh,       \* the rows not handed in yet
    buffer,      \* _buffer
    mode,        \* what each flusher does: nothing, the whole batch, or row by row
    batch,       \* its local `pending`
    at,          \* its position in it, when it writes row by row
    stored,      \* the rows in the table
    rejected,    \* the rows counted in `rejected` and named in the log
    dropped,     \* the rows counted in `_dropped`
    outages,     \* how often the database has failed
    answerLost   \* history: whether a commit has lost its answer

vars == <<phase, fresh, buffer, mode, batch, at, stored, rejected, dropped, outages, answerLost>>

\* What a flusher still has to write: pending[position:].
Remaining(f) == SubSeq(batch[f], at[f], Len(batch[f]))

Waiting == Range(buffer) \cup UNION {Range(Remaining(f)) : f \in Flushers}

TypeOK ==
    /\ phase \in {"running", "stopping", "closing", "stopped"}
    /\ fresh \subseteq Rows
    /\ buffer \in Seq(Rows)
    /\ mode \in [Flushers -> {"idle", "batch", "rows"}]
    /\ batch \in [Flushers -> Seq(Rows)]
    /\ at \in [Flushers -> Nat]
    /\ \A f \in Flushers :
          /\ mode[f] = "idle" <=> batch[f] = << >>
          /\ at[f] \in IF mode[f] = "rows" THEN 1..Len(batch[f]) ELSE {1}
    /\ stored \subseteq Rows /\ rejected \subseteq Rows /\ dropped \subseteq Rows
    /\ outages \in 0..MaxOutages
    /\ answerLost \in BOOLEAN

Init ==
    /\ phase = "running"
    /\ fresh = Rows
    /\ buffer = << >>
    /\ mode = [f \in Flushers |-> "idle"]
    /\ batch = [f \in Flushers |-> << >>]
    /\ at = [f \in Flushers |-> 1]
    /\ stored = {} /\ rejected = {} /\ dropped = {}
    /\ outages = 0
    /\ answerLost = FALSE

-----------------------------------------------------------------------------

(***************************************************************************)
(* submit.  A finalizer that outlived drain_pending_finalizers may still   *)
(* call it while the process stops.                                        *)
(***************************************************************************)
Submit(r) ==
    /\ r \in fresh /\ phase # "stopped"
    /\ fresh' = fresh \ {r}
    /\ IF Len(buffer) >= MaxBuffer
       THEN dropped' = dropped \cup {r} /\ buffer' = buffer
       ELSE buffer' = Append(buffer, r) /\ dropped' = dropped
    /\ UNCHANGED <<phase, mode, batch, at, stored, rejected, outages, answerLost>>

\* When a flusher may start a flush: the loop until it is cancelled, a report
\* while requests are served, stop() once.
MayFlush(f) ==
    CASE f = Loop     -> phase = "running"
      [] f = Closer   -> phase = "stopping"
      [] f \in Reports -> phase = "running"

\* flush, up to its first await: take everything.
Take(f) ==
    /\ MayFlush(f) /\ mode[f] = "idle" /\ buffer # << >>
    /\ batch' = [batch EXCEPT ![f] = buffer]
    /\ mode' = [mode EXCEPT ![f] = "batch"]
    /\ buffer' = << >>
    /\ phase' = IF f = Closer THEN "closing" ELSE phase
    /\ UNCHANGED <<fresh, at, stored, rejected, dropped, outages, answerLost>>

Idle(f) ==
    /\ mode' = [mode EXCEPT ![f] = "idle"]
    /\ batch' = [batch EXCEPT ![f] = << >>]
    /\ at' = [at EXCEPT ![f] = 1]

\* The database refuses a transaction with a value that fits no column, or a
\* request_id it already has.
Refuses(R) == R \cap (Bad \cup stored) # {}

\* A plausible bug: a failed batch is given up.
GiveUp(f, records) == Idle(f) /\ UNCHANGED <<buffer, dropped>>

(***************************************************************************)
(* _put_back: at the head of the buffer, as far as there is room.          *)
(***************************************************************************)
PutBack(f, records) ==
    LET room == IF Len(buffer) < MaxBuffer THEN MaxBuffer - Len(buffer) ELSE 0
        keep == IF room < Len(records) THEN room ELSE Len(records)
    IN
    /\ buffer' = SubSeq(records, 1, keep) \o buffer
    /\ dropped' = dropped \cup Range(SubSeq(records, keep + 1, Len(records)))
    /\ Idle(f)

\* The database fails while R is written, before the commit or after it.
Fails(R) ==
    /\ Faults # {} /\ outages < MaxOutages
    /\ outages' = outages + 1
    /\ \/ UNCHANGED <<stored, answerLost>>
       \/ /\ "answer lost" \in Faults /\ ~Refuses(R)
          /\ stored' = stored \cup R
          /\ answerLost' = TRUE

(***************************************************************************)
(* One transaction for the whole batch: accepted, refused (then row by     *)
(* row), or not possible (then put back).                                  *)
(***************************************************************************)
BatchAccepted(f) ==
    /\ mode[f] = "batch" /\ ~Refuses(Range(batch[f]))
    /\ stored' = stored \cup Range(batch[f])
    /\ Idle(f)
    /\ UNCHANGED <<phase, fresh, buffer, rejected, dropped, outages, answerLost>>

BatchRefused(f) ==
    /\ mode[f] = "batch" /\ Refuses(Range(batch[f]))
    /\ mode' = [mode EXCEPT ![f] = "rows"]
    /\ UNCHANGED <<phase, fresh, buffer, batch, at, stored, rejected, dropped, outages, answerLost>>

BatchFails(f) ==
    /\ mode[f] = "batch"
    /\ Fails(Range(batch[f]))
    /\ PutBack(f, batch[f])
    /\ UNCHANGED <<phase, fresh, rejected>>

-----------------------------------------------------------------------------

Row(f) == batch[f][at[f]]

NextRow(f) ==
    IF at[f] = Len(batch[f])
    THEN Idle(f)
    ELSE at' = [at EXCEPT ![f] = @ + 1] /\ UNCHANGED <<mode, batch>>

(***************************************************************************)
(* _flush_one_at_a_time: a transaction for each row; a refused row is      *)
(* dropped alone, a failing database ends the round.                       *)
(***************************************************************************)
RowAccepted(f) ==
    /\ mode[f] = "rows" /\ ~Refuses({Row(f)})
    /\ stored' = stored \cup {Row(f)}
    /\ NextRow(f)
    /\ UNCHANGED <<phase, fresh, buffer, rejected, dropped, outages, answerLost>>

\* A plausible bug: a refused row is taken for an outage and tried again.
RetryForever(f) ==
    /\ mode[f] = "rows" /\ Refuses({Row(f)})
    /\ PutBack(f, Remaining(f))
    /\ UNCHANGED <<phase, fresh, stored, rejected, outages, answerLost>>

RowRefused(f) ==
    /\ mode[f] = "rows" /\ Refuses({Row(f)})
    /\ rejected' = rejected \cup {Row(f)}
    /\ NextRow(f)
    /\ UNCHANGED <<phase, fresh, buffer, stored, dropped, outages, answerLost>>

\* A plausible bug: the whole batch is put back, the rows already written included.
RowFailsWhole(f) ==
    /\ mode[f] = "rows"
    /\ Fails({Row(f)})
    /\ PutBack(f, batch[f])
    /\ UNCHANGED <<phase, fresh, rejected>>

RowFails(f) ==
    /\ mode[f] = "rows"
    /\ Fails({Row(f)})
    /\ PutBack(f, Remaining(f))
    /\ UNCHANGED <<phase, fresh, rejected>>

-----------------------------------------------------------------------------

(***************************************************************************)
(* stop: the loop is cancelled wherever it is.  CancelledError is no       *)
(* Exception, so none of flush's handlers runs: its batch goes with the    *)
(* coroutine, and the transaction it waited for may still be committed.    *)
(* The requests have been served by then: no report flush runs.            *)
(***************************************************************************)
Stop ==
    LET open == IF mode[Loop] = "rows" THEN {Row(Loop)} ELSE Range(batch[Loop]) IN
    /\ phase = "running"
    /\ \A p \in Reports : mode[p] = "idle"
    /\ phase' = "stopping"
    /\ \/ stored' = stored
       \/ ~Refuses(open) /\ stored' = stored \cup open
    /\ Idle(Loop)
    /\ UNCHANGED <<fresh, buffer, rejected, dropped, outages, answerLost>>

\* The drain of stop() is over, or had nothing to do.
Stopped ==
    /\ \/ phase = "stopping" /\ buffer = << >>
       \/ phase = "closing" /\ mode[Closer] = "idle"
    /\ phase' = "stopped"
    /\ UNCHANGED <<fresh, buffer, mode, batch, at, stored, rejected, dropped, outages, answerLost>>

Flush(f) ==
    \/ Take(f)
    \/ BatchAccepted(f) \/ BatchRefused(f) \/ BatchFails(f)
    \/ RowAccepted(f) \/ RowRefused(f) \/ RowFails(f)

Next ==
    \/ \E r \in Rows : Submit(r)
    \/ \E f \in Flushers : Flush(f)
    \/ Stop
    \/ Stopped

Spec == Init /\ [][Next]_vars

(***************************************************************************)
(* A flush that has begun goes on, and the loop sleeps two seconds and     *)
(* flushes again until it is stopped.  That the database comes back is the *)
(* bound MaxOutages.                                                       *)
(***************************************************************************)
FairSpec == Spec /\ \A f \in Flushers : WF_vars(Flush(f))

-----------------------------------------------------------------------------

(***************************************************************************)
(* A long outage cannot grow the buffer without bound: put back or handed  *)
(* in, whatever the order.                                                 *)
(***************************************************************************)
BufferBounded == Len(buffer) <= MaxBuffer

(***************************************************************************)
(* UsageBuffer implements UsageLedger.  A row that was handed in and is    *)
(* neither settled nor in the buffer nor in the hands of a flusher is      *)
(* lost, and only stop() may lose one: no outage, no refused batch, no     *)
(* two flushes side by side.  A stored row stays stored, whatever is put   *)
(* back and refused as a duplicate later.                                  *)
(***************************************************************************)
Fate(r) ==
    IF r \in fresh THEN "new"
    ELSE IF r \in stored THEN "stored"
    ELSE IF r \in rejected THEN "refused"
    ELSE IF r \in dropped THEN "dropped"
    ELSE IF r \in Waiting THEN "waiting"
    ELSE "lost"

Ledger == INSTANCE UsageLedger WITH
    fate <- [r \in Rows |-> Fate(r)],
    up <- phase = "running"

ImplementsLedger == Ledger!Spec

(***************************************************************************)
(* "One row the database refuses is dropped alone": every rejected row is  *)
(* bad itself or a duplicate of what is stored, never its neighbour in a   *)
(* batch (module docstring of app/core/usage.py).                          *)
(***************************************************************************)
OnlyTheGuiltyRejected == rejected \subseteq Bad \cup stored

(***************************************************************************)
(* A row is never twice in memory, whoever flushes beside whom, so that no *)
(* flusher writes what another one has, and it leaves memory when it is    *)
(* refused or dropped.  Only a commit that lost its answer leaves a stored *)
(* row behind: it is put back, refused as a duplicate and named in the log *)
(* as lost although it is in the table.                                    *)
(***************************************************************************)
OnePlaceEach ==
    /\ IsInjective(buffer)
    /\ \A f \in Flushers :
          /\ IsInjective(Remaining(f))
          /\ Range(buffer) \cap Range(Remaining(f)) = {}
          /\ \A g \in Flushers \ {f} : Range(Remaining(f)) \cap Range(Remaining(g)) = {}
    /\ fresh \cap (Waiting \cup stored \cup rejected \cup dropped) = {}
    /\ Waiting \cap (rejected \cup dropped) = {}
    /\ answerLost \/ stored \cap (Waiting \cup rejected \cup dropped) = {}

(***************************************************************************)
(* Every row handed in is settled in the end, unless the process stops     *)
(* first: a row the database refuses for ever does not hold up those       *)
(* behind it, and an outage that ends leaves nothing behind.               *)
(***************************************************************************)
EveryRowSettles ==
    \A r \in Rows :
        r \in Waiting ~> r \in stored \cup rejected \cup dropped \/ phase # "running"

(***************************************************************************)
(* docs/ARCHITECTURE.md: "the buffer is drained on graceful shutdown".     *)
(* When the process has stopped and the database never failed, every good  *)
(* row accepted before stop() was called is in the table.                  *)
(***************************************************************************)
DrainedOnStop ==
    phase = "stopped" /\ outages = 0 /\ fresh = {} /\ buffer = << >> =>
        Rows \ (Bad \cup dropped) \subseteq stored

(***************************************************************************)
(* Where a row can be: in a buffer that keeps its bound whatever comes     *)
(* back from a failed flush, in the hands of one flusher at most, and,     *)
(* once stored, nowhere else; and a row is refused for its own fault.      *)
(***************************************************************************)
RowsInPlace == TypeOK /\ BufferBounded /\ OnePlaceEach /\ OnlyTheGuiltyRejected

=============================================================================
