---------------------------- MODULE MinuteQuota ----------------------------
(***************************************************************************)
(* The requests-per-minute gates: QuotaService.admit and release of        *)
(* app/core/quota.py over the counter stores of the same file.             *)
(*                                                                         *)
(* A request passes one gate or two: the allowance of its person, then the *)
(* ceiling of its API key.  Each gate reserves a place in the counter of   *)
(* its subject for the current minute.  A later gate that is full, or a    *)
(* backend that could not take the request, gives the places back.         *)
(*                                                                         *)
(* With Redis configured the counters are a ResilientCounterStore: Redis   *)
(* while it answers, the database for retry_seconds after a call to Redis  *)
(* raised.  Whether Redis is marked down is known to each worker alone.    *)
(***************************************************************************)
EXTENDS Integers, Sequences, FiniteSets

CONSTANTS
    Requests,
    Workers,
    WorkerOf,      \* [Requests -> Workers]
    Subjects,      \* the counters' subjects: persons and keys
    Cleared,       \* the subjects that a reset may clear: persons, keys on request
    Gates,         \* [Requests -> Seq(Subjects)]: which gates a request passes, in order
    PerMinute,     \* [Subjects -> Nat]: max_requests_per_minute, 0 for no limit
    UseRedis,      \* whether Redis is configured
    LastMinute,    \* bound: the run covers minutes 0..LastMinute
    MaxFailures,   \* bound: how often a Redis command raises
    MaxResets      \* bound: how often an administrator resets a subject

Minutes == 0..LastMinute
Ledgers == {"redis", "database"}
Nowhere == <<"nowhere", 0>>
Spots == Ledgers \X Minutes

ASSUME QuotaAssumption ==
    /\ IsFiniteSet(Requests)
    /\ WorkerOf \in [Requests -> Workers]
    /\ PerMinute \in [Subjects -> Nat]
    /\ Gates \in [Requests -> Seq(Subjects)]
    /\ \A r \in Requests :
          /\ Gates[r] # << >>
          /\ \A i, j \in 1..Len(Gates[r]) : Gates[r][i] = Gates[r][j] => i = j
    /\ UseRedis \in BOOLEAN
    /\ Cleared \subseteq Subjects
    /\ LastMinute \in Nat /\ MaxFailures \in Nat /\ MaxResets \in Nat

VARIABLES
    minute,      \* the current minute
    down,        \* [Workers -> BOOLEAN]: _down_until lies in the future
    used,        \* `requests` of each counter
    rows,        \* the rows of quota_counters that exist
    pc,          \* where a request is
    gate,        \* the gate it is at
    at,          \* the minute that the store call it is in works on
    todo,        \* the subjects whose place it still gives back
    clearing,    \* subjects reset in the database and not yet in Redis
    failures, resets,
    took,        \* history: the spot where a place was booked
    gave         \* history: the spot where it was given back

vars == <<minute, down, used, rows, pc, gate, at, todo, clearing, failures, resets, took, gave>>

Subject(r) == Gates[r][gate[r]]

TypeOK ==
    /\ minute \in Minutes
    /\ down \in [Workers -> BOOLEAN]
    /\ used \in [Ledgers -> [Subjects -> [Minutes -> Int]]]
    /\ \A s \in Subjects, m \in Minutes : used["database"][s][m] >= 0
    /\ rows \subseteq Subjects \X Minutes
    /\ pc \in [Requests -> {"asking", "backing", "database", "insert", "again",
                            "admitted", "served", "leaving", "refused"}]
    /\ gate \in [Requests -> Nat]
    /\ \A r \in Requests : gate[r] \in 1..Len(Gates[r])
    /\ at \in [Requests -> Minutes]
    /\ todo \in [Requests -> Seq(Subjects)]
    /\ \A r \in Requests : pc[r] = "leaving" <=> todo[r] # << >>
    /\ clearing \subseteq Cleared
    /\ failures \in 0..MaxFailures
    /\ resets \in 0..MaxResets
    /\ took \in [Requests -> [Subjects -> Spots \cup {Nowhere}]]
    /\ gave \in [Requests -> [Subjects -> Spots \cup {Nowhere}]]

Init ==
    /\ minute = 0
    /\ down = [w \in Workers |-> FALSE]
    /\ used = [l \in Ledgers |-> [s \in Subjects |-> [m \in Minutes |-> 0]]]
    /\ rows = {}
    /\ pc = [r \in Requests |-> "asking"]
    /\ gate = [r \in Requests |-> 1]
    /\ at = [r \in Requests |-> 0]
    /\ todo = [r \in Requests |-> << >>]
    /\ clearing = {}
    /\ failures = 0 /\ resets = 0
    /\ took = [r \in Requests |-> [s \in Subjects |-> Nowhere]]
    /\ gave = took

-----------------------------------------------------------------------------

UsingRedis(r) == UseRedis /\ ~down[WorkerOf[r]]

Add(l, s, m, n) == [used EXCEPT ![l][s][m] = @ + n]

\* ResilientCounterStore._mark_down.
MarkDown(w) ==
    /\ failures < MaxFailures
    /\ failures' = failures + 1
    /\ down' = [down EXCEPT ![w] = TRUE]

NoFailure == UNCHANGED <<failures, down>>

\* The gate let r in: on to the next one, or admitted.
Pass(r, l, m) ==
    /\ took' = [took EXCEPT ![r][Subject(r)] = <<l, m>>]
    /\ IF gate[r] = Len(Gates[r])
       THEN pc' = [pc EXCEPT ![r] = "admitted"] /\ gate' = gate
       ELSE pc' = [pc EXCEPT ![r] = "asking"] /\ gate' = [gate EXCEPT ![r] = @ + 1]
    /\ todo' = todo

\* Give back the places of these subjects, then answer 429.
Leave(r, subjects) ==
    /\ todo' = [todo EXCEPT ![r] = subjects]
    /\ pc' = [pc EXCEPT ![r] = IF subjects = << >> THEN "refused" ELSE "leaving"]

\* The gate is full: what the earlier gates booked is given back.
Full(r) == Leave(r, SubSeq(Gates[r], 1, gate[r] - 1)) /\ UNCHANGED <<gate, took>>

-----------------------------------------------------------------------------

(***************************************************************************)
(* RedisCounterStore.reserve: count first, see one's position, and step    *)
(* back when it is beyond the limit.  Both commands name the same minute.  *)
(***************************************************************************)
Beyond(s, n) == PerMinute[s] # 0 /\ n > PerMinute[s]

RedisTake(r) ==
    LET s == Subject(r) IN
    /\ pc[r] = "asking" /\ UsingRedis(r)
    /\ used' = Add("redis", s, minute, 1)
    /\ at' = [at EXCEPT ![r] = minute]
    /\ IF Beyond(s, used'["redis"][s][minute])
       THEN pc' = [pc EXCEPT ![r] = "backing"] /\ UNCHANGED <<gate, todo, took>>
       ELSE Pass(r, "redis", minute)
    /\ NoFailure
    /\ UNCHANGED <<minute, rows, clearing, resets, gave>>

\* A plausible bug: it steps back in the minute of the moment.
StepBackNow(r) ==
    /\ pc[r] = "backing"
    /\ used' = Add("redis", Subject(r), minute, -1)
    /\ Full(r)
    /\ NoFailure
    /\ UNCHANGED <<minute, rows, at, clearing, resets, gave>>

RedisStepBack(r) ==
    /\ pc[r] = "backing"
    /\ used' = Add("redis", Subject(r), at[r], -1)
    /\ Full(r)
    /\ NoFailure
    /\ UNCHANGED <<minute, rows, at, clearing, resets, gave>>

\* Either command raises, executed or not, and the database decides instead.
RedisFails(r) ==
    /\ \/ pc[r] = "asking" /\ UsingRedis(r)
          /\ used' \in {used, Add("redis", Subject(r), minute, 1)}
       \/ pc[r] = "backing"
          /\ used' \in {used, Add("redis", Subject(r), at[r], -1)}
    /\ MarkDown(WorkerOf[r])
    /\ pc' = [pc EXCEPT ![r] = "database"]
    /\ UNCHANGED <<minute, rows, gate, at, todo, clearing, resets, took, gave>>

(***************************************************************************)
(* DatabaseCounterStore.reserve: a conditional UPDATE; where it found no   *)
(* row to change, an INSERT; where that lost to another one, the UPDATE    *)
(* again.                                                                  *)
(***************************************************************************)
Takes(s, m) ==
    /\ <<s, m>> \in rows
    /\ PerMinute[s] = 0 \/ used["database"][s][m] < PerMinute[s]

DatabaseTake(r) ==
    /\ pc[r] = "database" \/ (pc[r] = "asking" /\ ~UsingRedis(r))
    /\ at' = [at EXCEPT ![r] = minute]
    /\ IF Takes(Subject(r), minute)
       THEN /\ used' = Add("database", Subject(r), minute, 1)
            /\ Pass(r, "database", minute)
       ELSE /\ pc' = [pc EXCEPT ![r] = "insert"]
            /\ UNCHANGED <<used, gate, todo, took>>
    /\ NoFailure
    /\ UNCHANGED <<minute, rows, clearing, resets, gave>>

DatabaseInsert(r) ==
    LET row == <<Subject(r), at[r]>> IN
    /\ pc[r] = "insert"
    /\ IF row \in rows
       THEN /\ pc' = [pc EXCEPT ![r] = "again"]
            /\ UNCHANGED <<used, rows, gate, todo, took>>
       ELSE /\ rows' = rows \cup {row}
            /\ used' = [used EXCEPT !["database"][row[1]][row[2]] = 1]
            /\ Pass(r, "database", at[r])
    /\ NoFailure
    /\ UNCHANGED <<minute, at, clearing, resets, gave>>

\* A plausible bug: whoever loses the race to create the row is refused.
LoserIsRefused(r) ==
    /\ pc[r] = "again"
    /\ Full(r)
    /\ NoFailure
    /\ UNCHANGED <<minute, used, rows, at, clearing, resets, gave>>

DatabaseTakeAgain(r) ==
    /\ pc[r] = "again"
    /\ IF Takes(Subject(r), at[r])
       THEN /\ used' = Add("database", Subject(r), at[r], 1)
            /\ Pass(r, "database", at[r])
       ELSE Full(r) /\ used' = used
    /\ NoFailure
    /\ UNCHANGED <<minute, rows, at, clearing, resets, gave>>

-----------------------------------------------------------------------------

\* The minute counters the tokens of an answer are added to exist from then on.
Serve(r) ==
    /\ pc[r] = "admitted"
    /\ pc' = [pc EXCEPT ![r] = "served"]
    /\ rows' = IF UsingRedis(r) THEN rows
               ELSE rows \cup {<<Gates[r][i], minute>> : i \in 1..Len(Gates[r])}
    /\ NoFailure
    /\ UNCHANGED <<minute, used, gate, at, todo, clearing, resets, took, gave>>

\* QuotaService.release: no backend saw the request.
TurnAway(r) ==
    /\ pc[r] = "admitted"
    /\ Leave(r, Gates[r])
    /\ NoFailure
    /\ UNCHANGED <<minute, used, rows, gate, at, clearing, resets, took, gave>>

\* What the guarded UPDATE of DatabaseCounterStore.release finds.
HasPlace(s, m) == <<s, m>> \in rows /\ used["database"][s][m] > 0

(***************************************************************************)
(* release of the stores, for the next subject of todo: Redis, or if that  *)
(* raises nobody; the database when Redis is marked down already.  It      *)
(* names the minute in which it runs.                                      *)
(***************************************************************************)
GiveBack(r) ==
    LET s == Head(todo[r])
        Gives(l) == /\ used' = Add(l, s, minute, -1)
                    /\ gave' = [gave EXCEPT ![r][s] = <<l, minute>>]
    IN
    /\ pc[r] = "leaving"
    /\ Leave(r, Tail(todo[r]))
    /\ \/ UsingRedis(r) /\ Gives("redis") /\ NoFailure
       \/ UsingRedis(r) /\ MarkDown(WorkerOf[r]) /\ (Gives("redis") \/ UNCHANGED <<used, gave>>)
       \/ /\ ~UsingRedis(r) /\ NoFailure
          /\ IF HasPlace(s, minute) THEN Gives("database") ELSE UNCHANGED <<used, gave>>
    /\ UNCHANGED <<minute, rows, gate, at, clearing, resets, took>>

-----------------------------------------------------------------------------

Tick ==
    /\ minute < LastMinute
    /\ minute' = minute + 1
    /\ UNCHANGED <<down, used, rows, pc, gate, at, todo, clearing, failures, resets, took, gave>>

\* retry_seconds are over.
RetryRedis(w) ==
    /\ down[w]
    /\ down' = [down EXCEPT ![w] = FALSE]
    /\ UNCHANGED <<minute, used, rows, pc, gate, at, todo, clearing, failures, resets, took, gave>>

\* An administrator resets a subject: the database first, then Redis.
ResetDatabase(s) ==
    /\ resets < MaxResets
    /\ resets' = resets + 1
    /\ rows' = rows \ {<<s, minute>>}
    /\ used' = [used EXCEPT !["database"][s][minute] = 0]
    /\ clearing' = IF UseRedis THEN clearing \cup {s} ELSE clearing
    /\ UNCHANGED <<minute, down, pc, gate, at, todo, failures, took, gave>>

ResetRedis(s) ==
    /\ s \in clearing
    /\ clearing' = clearing \ {s}
    /\ used' = [used EXCEPT !["redis"][s][minute] = 0]
    /\ UNCHANGED <<minute, down, rows, pc, gate, at, todo, failures, resets, took, gave>>

\* Redis raises, and the administrator is told to try again.
ResetFails(s, w) ==
    /\ s \in clearing
    /\ clearing' = clearing \ {s}
    /\ used' \in {used, [used EXCEPT !["redis"][s][minute] = 0]}
    /\ MarkDown(w)
    /\ UNCHANGED <<minute, rows, pc, gate, at, todo, resets, took, gave>>

Step(r) ==
    \/ RedisTake(r) \/ RedisStepBack(r) \/ RedisFails(r)
    \/ DatabaseTake(r) \/ DatabaseInsert(r) \/ DatabaseTakeAgain(r)
    \/ Serve(r) \/ TurnAway(r) \/ GiveBack(r)

Next ==
    \/ \E r \in Requests : Step(r)
    \/ Tick
    \/ \E w \in Workers : RetryRedis(w)
    \/ \E s \in Cleared : ResetDatabase(s) \/ ResetRedis(s)
    \/ \E s \in Cleared, w \in Workers : ResetFails(s, w)

Spec == Init /\ [][Next]_vars

-----------------------------------------------------------------------------

\* The requests that hold a place at a spot, and those whose count there is only
\* on its way out again.
Holders(s, spot) == {r \in Requests : took[r][s] = spot /\ gave[r][s] = Nowhere}

Passing(s, m) == {r \in Requests : pc[r] = "backing" /\ Subject(r) = s /\ at[r] = m}

(***************************************************************************)
(* Every counter says exactly what was booked and given back at its spot,  *)
(* plus those who are stepping back, as long as Redis answers and nobody   *)
(* resets.  A refused request that stays counted would spend the allowance *)
(* of a client that merely retries; one given back twice would let a burst *)
(* in.                                                                     *)
(***************************************************************************)
Booked(s, l, m) == {r \in Requests : took[r][s] = <<l, m>>}
Returned(s, l, m) == {r \in Requests : gave[r][s] = <<l, m>>}

CountersExact ==
    failures = 0 /\ resets = 0 =>
        \A s \in Subjects, m \in Minutes, l \in Ledgers :
            used[l][s][m] =
                Cardinality(Booked(s, l, m)) - Cardinality(Returned(s, l, m))
                + (IF l = "redis" THEN Cardinality(Passing(s, m)) ELSE 0)

(***************************************************************************)
(* A request answered with 429 holds no place at any gate, unless Redis    *)
(* failed on the way, and one that is admitted holds one at every gate.    *)
(* Without Redis a place is kept when there was nothing left to give back: *)
(* a reset took the counter, its minute was over, or a request that booked *)
(* elsewhere had given it back already.                                    *)
(***************************************************************************)
Strays(s, spot) == {r \in Requests : gave[r][s] = spot /\ took[r][s] # spot}

NothingLeft(r, s) ==
    ~UseRedis /\ (resets > 0 \/ took[r][s][2] < minute \/ Strays(s, took[r][s]) # {})

AllOrNothing ==
    \A r \in Requests, s \in Subjects :
        LET holds == took[r][s] # Nowhere /\ gave[r][s] = Nowhere IN
        /\ pc[r] = "refused" /\ failures = 0 /\ holds => NothingLeft(r, s)
        /\ pc[r] \in {"admitted", "served"} =>
              (holds <=> \E i \in 1..Len(Gates[r]) : Gates[r][i] = s)

(***************************************************************************)
(* "Two requests per minute means two", however many ask at once, through  *)
(* whichever gate, and whoever is turned away and gives back meanwhile.    *)
(* Across minutes and outages the limit of a counter gives way by what was *)
(* given back at the wrong spot, and by no more: each place booked in      *)
(* another minute or ledger than the one it is given back in lets one      *)
(* extra request in.  (An administrator's reset hands everything back, on  *)
(* purpose.)                                                               *)
(***************************************************************************)
OverrunBounded ==
    resets = 0 =>
        \A s \in Subjects, spot \in Spots :
            PerMinute[s] # 0 =>
                Cardinality(Holders(s, spot)) <= PerMinute[s] + Cardinality(Strays(s, spot))

(***************************************************************************)
(* The race to create the first row of a minute refuses nobody wrongly:    *)
(* when the loser's second UPDATE finds no room, as many requests as the   *)
(* limit hold a place of this very row, except for places that went back   *)
(* to Redis or to another minute, and for a reset.                         *)
(***************************************************************************)
Misplaced(s, spot) == {r \in Requests : took[r][s] = spot /\ gave[r][s] \notin {Nowhere, spot}}

LoserRefusedOnlyWhenFull ==
    [][\A r \in Requests :
          LET s == Subject(r)
              spot == <<"database", at[r]>>
          IN
          /\ pc[r] = "again" /\ pc'[r] \in {"leaving", "refused"}
          /\ resets = 0 /\ Misplaced(s, spot) = {}
          => Cardinality(Holders(s, spot)) >= PerMinute[s]]_vars

(***************************************************************************)
(* The comment in ResilientCounterStore.release: to give back in the       *)
(* database what was booked in Redis "would delete another request's       *)
(* place".  What is given back is in the ledger that was booked.           *)
(***************************************************************************)
GivesBackItsOwn ==
    \A r \in Requests, s \in Subjects :
        gave[r][s] # Nowhere => gave[r][s][1] = took[r][s][1]

(***************************************************************************)
(* The gates of a minute, together: the counters are what the requests     *)
(* hold, a request holds a place at every gate or at none, and no ledger   *)
(* lets in more than its limit and the strays that were given back         *)
(* elsewhere.                                                              *)
(***************************************************************************)
PlacesExact == TypeOK /\ CountersExact /\ AllOrNothing /\ OverrunBounded

=============================================================================
