---------------------------- MODULE QuotaLedgers ----------------------------
(***************************************************************************)
(* The long quota windows (hour, day, month, term): check before the       *)
(* answer, record after it, over ResilientCounterStore of                  *)
(* app/core/quota.py.  One subject, one window.                            *)
(*                                                                         *)
(* Redis and the database each hold a count; which of the two a call       *)
(* reaches is decided by the caller's worker.  After an outage a read that *)
(* finds nothing in Redis consults the database and seeds Redis with what  *)
(* it found there.                                                         *)
(***************************************************************************)
EXTENDS Naturals, FiniteSets, FiniteSetsExt

CONSTANTS
    Requests,
    Workers,
    WorkerOf,      \* [Requests -> Workers]
    Cost,          \* [Requests -> Nat \ {0}]: what a request adds to the counter
    Limit,         \* the limit of the window
    Clients,       \* how many requests the subject has in flight at most
    UseRedis,      \* whether Redis is configured
    MaxFailures,   \* bound: how often a Redis command raises
    MaxLosses,     \* bound: how often Redis restarts empty
    AnswersLost    \* whether a command that raises may have been executed

VARIABLES
    redis,         \* the count in Redis
    database,      \* the count in the database
    down,          \* [Workers -> BOOLEAN]: _down_until lies in the future
    hasCounts,     \* [Workers -> BOOLEAN]: _database_has_counts
    pc,            \* where a request is
    read,          \* the count its check has found
    failures, losses

vars == <<redis, database, down, hasCounts, pc, read, failures, losses>>

Spent(S) == MapThenSumSet(LAMBDA r : Cost[r], S)

Charged == {r \in Requests : pc[r] = "charged"}

\* Requests that passed the check and are not charged yet.
Running == {r \in Requests : pc[r] \in {"running", "record"}}

InCheck == {"asking", "miss", "seed", "fallback"}

TypeOK ==
    /\ redis \in Nat /\ database \in Nat
    /\ down \in [Workers -> BOOLEAN]
    /\ hasCounts \in [Workers -> BOOLEAN]
    /\ pc \in [Requests -> InCheck \cup {"new", "running", "record", "charged", "refused"}]
    /\ read \in [Requests -> Nat]
    /\ failures \in 0..MaxFailures /\ losses \in 0..MaxLosses
    \* A worker keeps away from Redis, or seeds it, only after it saw an outage.
    /\ \A w \in Workers : down[w] => hasCounts[w]
    /\ \A r \in Requests : pc[r] \in {"miss", "seed"} => hasCounts[WorkerOf[r]]

Init ==
    /\ redis = 0 /\ database = 0
    /\ down = [w \in Workers |-> FALSE]
    /\ hasCounts = [w \in Workers |-> FALSE]
    /\ pc = [r \in Requests |-> "new"]
    /\ read = [r \in Requests |-> 0]
    /\ failures = 0 /\ losses = 0

-----------------------------------------------------------------------------

UsingRedis(r) == UseRedis /\ ~down[WorkerOf[r]]

Goto(r, place) == pc' = [pc EXCEPT ![r] = place]

MarkDown(r) ==
    /\ failures < MaxFailures
    /\ failures' = failures + 1
    /\ down' = [down EXCEPT ![WorkerOf[r]] = TRUE]
    /\ hasCounts' = [hasCounts EXCEPT ![WorkerOf[r]] = TRUE]

NoFailure == UNCHANGED <<down, hasCounts, failures>>

\* A command that raises has not been executed, or its answer was lost.
MaybeAdded(n) == redis' = redis \/ (AnswersLost /\ redis' = redis + n)

Arrive(r) ==
    /\ pc[r] = "new"
    /\ Cardinality({q \in Requests : pc[q] \in InCheck} \cup Running) < Clients
    /\ Goto(r, "asking")
    /\ UNCHANGED <<redis, database, read, losses>> /\ NoFailure

-----------------------------------------------------------------------------

\* _check_subject: used_value < limit, or 429.
Decide(r, count) ==
    /\ read' = [read EXCEPT ![r] = count]
    /\ Goto(r, IF count < Limit THEN "running" ELSE "refused")

\* A plausible bug: a miss in Redis is taken for an empty count.
ConsultsNever(r) == FALSE

\* Redis has nothing for the window, but an outage may have left counts elsewhere.
Consults(r) == redis = 0 /\ hasCounts[WorkerOf[r]]

(***************************************************************************)
(* ResilientCounterStore.get: Redis; on a miss the database, whose counts  *)
(* are added to Redis; the database alone when Redis fails or is down.     *)
(***************************************************************************)
GetFromRedis(r) ==
    /\ pc[r] = "asking" /\ UsingRedis(r)
    /\ IF Consults(r) THEN Goto(r, "miss") /\ read' = read
       ELSE Decide(r, redis)
    /\ UNCHANGED <<redis, database, losses>> /\ NoFailure

GetFails(r) ==
    /\ pc[r] = "asking" /\ UsingRedis(r)
    /\ MarkDown(r)
    /\ Goto(r, "fallback")
    /\ UNCHANGED <<redis, database, read, losses>>

GetFromDatabase(r) ==
    /\ pc[r] = "fallback" \/ (pc[r] = "asking" /\ ~UsingRedis(r))
    /\ Decide(r, database)
    /\ UNCHANGED <<redis, database, losses>> /\ NoFailure

ConsultDatabase(r) ==
    /\ pc[r] = "miss"
    /\ IF database = 0 THEN Decide(r, 0)
       ELSE Goto(r, "seed") /\ read' = [read EXCEPT ![r] = database]
    /\ UNCHANGED <<redis, database, losses>> /\ NoFailure

Seed(r) ==
    /\ pc[r] = "seed"
    /\ redis' = redis + read[r]
    /\ Decide(r, read[r])
    /\ UNCHANGED <<database, losses>> /\ NoFailure

SeedFails(r) ==
    /\ pc[r] = "seed"
    /\ MaybeAdded(read[r])
    /\ MarkDown(r)
    /\ Decide(r, read[r])
    /\ UNCHANGED <<database, losses>>

-----------------------------------------------------------------------------

(***************************************************************************)
(* record, when the answer is complete: increment in Redis, or in the      *)
(* database when Redis fails or is down.                                   *)
(***************************************************************************)
RecordInRedis(r) ==
    /\ pc[r] = "running" /\ UsingRedis(r)
    /\ redis' = redis + Cost[r]
    /\ Goto(r, "charged")
    /\ UNCHANGED <<database, read, losses>> /\ NoFailure

RecordFails(r) ==
    /\ pc[r] = "running" /\ UsingRedis(r)
    /\ MaybeAdded(Cost[r])
    /\ MarkDown(r)
    /\ Goto(r, "record")
    /\ UNCHANGED <<database, read, losses>>

\* A plausible bug: an increment that failed in Redis is given up.
RecordNowhere(r) ==
    /\ pc[r] = "record" \/ (pc[r] = "running" /\ ~UsingRedis(r))
    /\ Goto(r, "charged")
    /\ UNCHANGED <<redis, database, read, losses>> /\ NoFailure

RecordInDatabase(r) ==
    /\ pc[r] = "record" \/ (pc[r] = "running" /\ ~UsingRedis(r))
    /\ database' = database + Cost[r]
    /\ Goto(r, "charged")
    /\ UNCHANGED <<redis, read, losses>> /\ NoFailure

-----------------------------------------------------------------------------

\* retry_seconds are over.
RetryRedis(w) ==
    /\ down[w]
    /\ down' = [down EXCEPT ![w] = FALSE]
    /\ UNCHANGED <<redis, database, hasCounts, pc, read, failures, losses>>

\* Redis restarts without its data.
RedisLosesAll ==
    /\ losses < MaxLosses /\ redis > 0
    /\ losses' = losses + 1
    /\ redis' = 0
    /\ UNCHANGED <<database, down, hasCounts, pc, read, failures>>

Step(r) ==
    \/ Arrive(r)
    \/ GetFromRedis(r) \/ GetFails(r) \/ GetFromDatabase(r)
    \/ ConsultDatabase(r) \/ Seed(r) \/ SeedFails(r)
    \/ RecordInRedis(r) \/ RecordFails(r) \/ RecordInDatabase(r)

Next ==
    \/ \E r \in Requests : Step(r)
    \/ \E w \in Workers : RetryRedis(w)
    \/ RedisLosesAll

Spec == Init /\ [][Next]_vars

-----------------------------------------------------------------------------

(***************************************************************************)
(* docs/ARCHITECTURE.md, NFR-Q1: the overrun is bounded by the requests in *)
(* flight times what one of them costs.  The last request let in saw less  *)
(* than the limit recorded; beside that there are only its contemporaries, *)
(* as long as there is one ledger, that is as long as Redis answers.       *)
(***************************************************************************)
MaxCost == Max({Cost[r] : r \in Requests})

OverrunBounded ==
    failures = 0 /\ losses = 0 => Spent(Charged \cup Running) <= Limit - 1 + Clients * MaxCost

(***************************************************************************)
(* What was recorded is in one of the two ledgers: while Redis keeps its   *)
(* data, no outage loses a charge.                                         *)
(***************************************************************************)
EveryChargeKept == losses = 0 => redis + database >= Spent(Charged)

(***************************************************************************)
(* "Double-counting, which blocks a member who has done nothing wrong" is  *)
(* what ResilientCounterStore means to avoid by seeding on a miss only.    *)
(* Redis counts too much only by what checks at the same moment seed: once *)
(* per client of the subject at most, the first of which is right.  With   *)
(* one client nothing is ever counted twice.                               *)
(***************************************************************************)
OvercountBounded == redis <= Spent(Charged \cup Running) + (Clients - 1) * database

(***************************************************************************)
(* "On recovery, counts written during the outage are not lost": a check   *)
(* of a worker that saw the outage is answered with an empty count only    *)
(* when the database holds none either; otherwise a restart of Redis would *)
(* hand the whole quota back.                                              *)
(***************************************************************************)
NotHandedBack ==
    [][\A r \in Requests :
          /\ pc[r] \in InCheck /\ pc'[r] = "running" /\ read'[r] = 0
          /\ hasCounts[WorkerOf[r]]
          => database = 0]_vars

(***************************************************************************)
(* The two ledgers, together: no charge is lost while Redis keeps its      *)
(* data, and neither the overrun nor what is counted twice exceeds what    *)
(* the requests in flight can make of it.                                  *)
(***************************************************************************)
ChargesKept == TypeOK /\ EveryChargeKept /\ OverrunBounded /\ OvercountBounded

=============================================================================
