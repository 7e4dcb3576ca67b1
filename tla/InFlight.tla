------------------------------ MODULE InFlight ------------------------------
(***************************************************************************)
(* The in-flight slots of the model servers: Router.acquire / release of   *)
(* app/core/routing.py over the lease stores of app/core/inflight.py.      *)
(*                                                                         *)
(* Several workers (processes) share one lease store in Redis; each one    *)
(* also has a store of its own, used when a call to Redis raises.  A       *)
(* request holds at most one lease at a time, on the backend ("slot") its  *)
(* endpoint points at.  Which slot an endpoint points at is registry data  *)
(* and may change while requests run.                                      *)
(*                                                                         *)
(* A lease is its remaining life: left[st][s][r] ticks from TTL to 0, and  *)
(* 0 stands both for "no such lease" and for "expired", which no reader of *)
(* the code can tell apart, because each one sweeps before it counts.      *)
(***************************************************************************)
EXTENDS Naturals, FiniteSets

CONSTANTS
    Requests,    \* the requests; each one's lease id is its own (_RequestContext.lease)
    Workers,     \* the gateway processes
    Redis,       \* the name of the shared lease store
    Endpoints,   \* the configured endpoints
    Slots,       \* the physical backends (slot_key: base_url and upstream model)
    WorkerOf,    \* [Requests -> Workers]
    Limit,       \* [Endpoints -> Nat \ {0}]: max_concurrency
    Ceiling,     \* the largest max_concurrency there is
    TTL,         \* LEASE_TTL_SECONDS, in ticks of the clock
    Faults       \* the faults of this instance, a subset of FaultKinds

\* Redis: a call that books raises, a call that gives back fails, commands of two
\* connections overtake each other.  A worker dies.  The registry is reloaded.
FaultKinds == {"acquire", "return", "reorder", "crash", "reload"}

ASSUME InFlightAssumption ==
    /\ IsFiniteSet(Requests)
    /\ Redis \notin Workers
    /\ WorkerOf \in [Requests -> Workers]
    /\ Limit \in [Endpoints -> Nat \ {0}]
    /\ Ceiling \in Nat
    /\ \A e \in Endpoints : Limit[e] <= Ceiling
    /\ TTL \in Nat \ {0}
    /\ Faults \subseteq FaultKinds
    /\ Endpoints # {} /\ Slots # {}

VARIABLES
    slotOf,      \* the registry: the slot an endpoint points at now
    pc,          \* where a request is
    choice,      \* the endpoint select() gave it
    slot,        \* the slot computed by acquire(); once running, Router._held
    reply,       \* the acquire command: in Redis' queue, or its answer
    via,         \* the store that granted the lease
    left,        \* the lease stores
    hint,        \* Router._in_flight of each worker
    tasks,       \* Router._releases: release tasks still to finish
    late         \* acquire commands whose caller has gone

vars == <<slotOf, pc, choice, slot, reply, via, left, hint, tasks, late>>

Stores == Workers \cup {Redis}

(***************************************************************************)
(* The live leases of a store on a slot, and taking and giving back one.   *)
(***************************************************************************)
Live(st, s) == {r \in Requests : left[st][s][r] > 0}

Lease(st, s, r) == [left EXCEPT ![st][s][r] = TTL]

Drop(st, s, r) == [left EXCEPT ![st][s][r] = 0]

Task(r, s, at) == [req |-> r, slot |-> s, at |-> at]

TasksOf(r) == {t \in tasks : t.req = r}

TypeOK ==
    /\ slotOf \in [Endpoints -> Slots]
    /\ pc \in [Requests -> {"ready", "chosen", "asking", "running", "returning", "over"}]
    /\ choice \in [Requests -> Endpoints]
    /\ slot \in [Requests -> Slots]
    /\ reply \in [Requests -> {"none", "sent", "granted", "full"}]
    /\ via \in [Requests -> Stores]
    /\ left \in [Stores -> [Slots -> [Requests -> 0..TTL]]]
    /\ hint \in [Workers -> [Slots -> Nat]]
    /\ tasks \subseteq [req : Requests, slot : Slots, at : {"primary", "fallback"}]
    /\ late \subseteq [req : Requests, slot : Slots, limit : Nat]

Init ==
    /\ slotOf \in [Endpoints -> Slots]
    /\ pc = [r \in Requests |-> "ready"]
    /\ choice \in [Requests -> Endpoints]
    /\ slot = [r \in Requests |-> slotOf[choice[r]]]
    /\ reply = [r \in Requests |-> "none"]
    /\ via = [r \in Requests |-> Redis]
    /\ left = [st \in Stores |-> [s \in Slots |-> [r \in Requests |-> 0]]]
    /\ hint = [w \in Workers |-> [s \in Slots |-> 0]]
    /\ tasks = {}
    /\ late = {}

-----------------------------------------------------------------------------

(***************************************************************************)
(* Router.select: only the local hint is looked at; the lease is taken     *)
(* several awaits later.                                                   *)
(***************************************************************************)
Select(r, e) ==
    /\ pc[r] = "ready"
    /\ hint[WorkerOf[r]][slotOf[e]] < Limit[e]
    /\ pc' = [pc EXCEPT ![r] = "chosen"]
    /\ choice' = [choice EXCEPT ![r] = e]
    /\ UNCHANGED <<slotOf, slot, reply, via, left, hint, tasks, late>>

(***************************************************************************)
(* Router.acquire up to its await: the slot is computed from the registry  *)
(* of this moment, and the acquire script is sent to Redis.                *)
(***************************************************************************)
Ask(r) ==
    /\ pc[r] = "chosen"
    /\ pc' = [pc EXCEPT ![r] = "asking"]
    /\ slot' = [slot EXCEPT ![r] = slotOf[choice[r]]]
    /\ reply' = [reply EXCEPT ![r] = "sent"]
    /\ UNCHANGED <<slotOf, choice, via, left, hint, tasks, late>>

(***************************************************************************)
(* The script of RedisInFlightLimiter, and LocalInFlightLimiter.acquire:   *)
(* sweep, count and book in one step.                                      *)
(***************************************************************************)
\* A plausible bug: the ceiling is compared with <=.
HasRoomForOneMore(st, s, limit) == Cardinality(Live(st, s)) <= limit

HasRoom(st, s, limit) == Cardinality(Live(st, s)) < limit

RunScript(s, r, limit) ==
    left' = IF HasRoom(Redis, s, limit) THEN Lease(Redis, s, r) ELSE left

RedisExecutes(r) ==
    /\ pc[r] = "asking" /\ reply[r] = "sent"
    /\ RunScript(slot[r], r, Limit[choice[r]])
    /\ reply' = [reply EXCEPT ![r] =
                    IF HasRoom(Redis, slot[r], Limit[choice[r]]) THEN "granted" ELSE "full"]
    /\ UNCHANGED <<slotOf, pc, choice, slot, via, hint, tasks, late>>

\* The bookkeeping that follows the await of a granted acquire, without one of its own.
Enter(r, st) ==
    /\ pc' = [pc EXCEPT ![r] = "running"]
    /\ via' = [via EXCEPT ![r] = st]
    /\ hint' = [hint EXCEPT ![WorkerOf[r]][slot[r]] = @ + 1]
    /\ reply' = [reply EXCEPT ![r] = "none"]

\* CONCURRENCY_LIMIT_EXCEEDED: take_slot tries the next endpoint or gives up.
Refuse(r) ==
    /\ pc' = [pc EXCEPT ![r] = "ready"]
    /\ reply' = [reply EXCEPT ![r] = "none"]
    /\ UNCHANGED <<via, hint>>

Answered(r) ==
    /\ pc[r] = "asking"
    /\ \/ reply[r] = "granted" /\ Enter(r, Redis)
       \/ reply[r] = "full" /\ Refuse(r)
    /\ UNCHANGED <<slotOf, choice, slot, left, tasks, late>>

(***************************************************************************)
(* ResilientInFlightLimiter._try: the call to Redis raises, before or      *)
(* after Redis ran it, and the worker's own store decides instead.         *)
(***************************************************************************)
FallBack(r) ==
    LET w == WorkerOf[r] IN
    /\ "acquire" \in Faults
    /\ pc[r] = "asking"
    /\ IF HasRoom(w, slot[r], Limit[choice[r]])
       THEN left' = Lease(w, slot[r], r) /\ Enter(r, w)
       ELSE left' = left /\ Refuse(r)
    /\ UNCHANGED <<slotOf, choice, slot, tasks, late>>

\* A plausible bug: a cancelled acquire returns nothing.
CancelAndForget(r) ==
    /\ pc[r] = "asking"
    /\ pc' = [pc EXCEPT ![r] = "over"]
    /\ reply' = [reply EXCEPT ![r] = "none"]
    /\ UNCHANGED <<slotOf, choice, slot, via, left, hint, tasks, late>>

(***************************************************************************)
(* The caller is cancelled while it waits for the store: acquire returns   *)
(* the lease it may or may not have.  A command not yet executed is lost   *)
(* with its connection or still reaches Redis.                             *)
(***************************************************************************)
CancelAsking(r) ==
    /\ pc[r] = "asking"
    /\ pc' = [pc EXCEPT ![r] = "over"]
    /\ reply' = [reply EXCEPT ![r] = "none"]
    /\ tasks' = tasks \cup {Task(r, slot[r], "primary")}
    /\ \/ late' = late
       \/ /\ reply[r] = "sent"
          /\ late' = late \cup {[req |-> r, slot |-> slot[r], limit |-> Limit[choice[r]]]}
    /\ UNCHANGED <<slotOf, choice, slot, via, left, hint>>

RedisExecutesLate(m) ==
    /\ m \in late
    /\ RunScript(m.slot, m.req, m.limit)
    /\ late' = late \ {m}
    /\ UNCHANGED <<slotOf, pc, choice, slot, reply, via, hint, tasks>>

\* A plausible bug: the slot is computed again from the registry of this moment.
ReleaseWhereItPointsNow(r) ==
    LET s == slotOf[choice[r]] IN
    /\ pc[r] = "running"
    /\ pc' = [pc EXCEPT ![r] = "returning"]
    /\ hint' = [hint EXCEPT ![WorkerOf[r]][s] = IF @ > 0 THEN @ - 1 ELSE 0]
    /\ tasks' = tasks \cup {Task(r, s, "primary")}
    /\ UNCHANGED <<slotOf, choice, slot, reply, via, left, late>>

(***************************************************************************)
(* Router.release: the local count first, then a task that outlives its    *)
(* caller; the caller waits for it, shielded.                              *)
(***************************************************************************)
Release(r) ==
    /\ pc[r] = "running"
    /\ pc' = [pc EXCEPT ![r] = "returning"]
    /\ hint' = [hint EXCEPT ![WorkerOf[r]][slot[r]] = @ - 1]
    /\ tasks' = tasks \cup {Task(r, slot[r], "primary")}
    /\ UNCHANGED <<slotOf, choice, slot, reply, via, left, late>>

\* The task: Redis first, its failure ignored ...
ReturnPrimary(t) ==
    /\ t \in tasks /\ t.at = "primary"
    /\ "reorder" \notin Faults => \A m \in late : m.req # t.req
    /\ \/ left' = Drop(Redis, t.slot, t.req)
       \/ "return" \in Faults /\ left' = left
    /\ tasks' = (tasks \ {t}) \cup {Task(t.req, t.slot, "fallback")}
    /\ UNCHANGED <<slotOf, pc, choice, slot, reply, via, hint, late>>

\* ... then the worker's own store, whichever of the two granted.
ReturnFallback(t) ==
    /\ t \in tasks /\ t.at = "fallback"
    /\ left' = Drop(WorkerOf[t.req], t.slot, t.req)
    /\ tasks' = tasks \ {t}
    /\ UNCHANGED <<slotOf, pc, choice, slot, reply, via, hint, late>>

\* A plausible bug: the caller does not wait for the release task.
SettledAtOnce(r) ==
    /\ pc[r] = "returning"
    /\ pc' = [pc EXCEPT ![r] = "ready"]
    /\ UNCHANGED <<slotOf, choice, slot, reply, via, left, hint, tasks, late>>

\* The lease is back: the request may go on to another endpoint.
Settled(r) ==
    /\ pc[r] = "returning"
    /\ TasksOf(r) = {}
    /\ pc' = [pc EXCEPT ![r] = "ready"]
    /\ UNCHANGED <<slotOf, choice, slot, reply, via, left, hint, tasks, late>>

\* The request ends, or its caller is cancelled while the task still runs.
Finish(r) ==
    /\ pc[r] \in {"ready", "chosen", "returning"}
    /\ pc' = [pc EXCEPT ![r] = "over"]
    /\ UNCHANGED <<slotOf, choice, slot, reply, via, left, hint, tasks, late>>

-----------------------------------------------------------------------------

\* A plausible bug: leases without an expiry, as a plain counter has none.
NeverAges(n) == n

Age(n) == IF n > 0 THEN n - 1 ELSE 0

Tick ==
    /\ \E st \in Stores, s \in Slots, r \in Requests : left[st][s][r] > 0
    /\ left' = [st \in Stores |-> [s \in Slots |-> [r \in Requests |-> Age(left[st][s][r])]]]
    /\ UNCHANGED <<slotOf, pc, choice, slot, reply, via, hint, tasks, late>>

\* RegistryStore.reload publishes a snapshot that points endpoints elsewhere.
Reload ==
    /\ "reload" \in Faults
    /\ slotOf' \in [Endpoints -> Slots]
    /\ UNCHANGED <<pc, choice, slot, reply, via, left, hint, tasks, late>>

\* A worker dies: its memory goes, its leases in Redis stay.
Crash(w) ==
    LET Mine == {r \in Requests : WorkerOf[r] = w} IN
    /\ "crash" \in Faults
    /\ pc' = [r \in Requests |-> IF r \in Mine THEN "over" ELSE pc[r]]
    /\ reply' = [r \in Requests |-> IF r \in Mine THEN "none" ELSE reply[r]]
    /\ left' = [left EXCEPT ![w] = [s \in Slots |-> [r \in Requests |-> 0]]]
    /\ hint' = [hint EXCEPT ![w] = [s \in Slots |-> 0]]
    /\ tasks' = {t \in tasks : t.req \notin Mine}
    /\ \E lost \in SUBSET {r \in Mine : reply[r] = "sent"} :
          late' = late \cup {[req |-> r, slot |-> slot[r], limit |-> Limit[choice[r]]] :
                                r \in {q \in Mine : reply[q] = "sent"} \ lost}
    /\ UNCHANGED <<slotOf, choice, slot, via>>

Redelivery == \E m \in late : RedisExecutesLate(m)

Returns == \E t \in tasks : ReturnPrimary(t) \/ ReturnFallback(t)

Step(r) ==
    \/ \E e \in Endpoints : Select(r, e)
    \/ Ask(r)
    \/ RedisExecutes(r)
    \/ Answered(r)
    \/ FallBack(r)
    \/ CancelAsking(r)
    \/ Release(r)
    \/ Settled(r)
    \/ Finish(r)

Next ==
    \/ \E r \in Requests : Step(r)
    \/ Redelivery
    \/ Returns
    \/ Tick
    \/ Reload
    \/ \E w \in Workers : Crash(w)

Spec == Init /\ [][Next]_vars

(***************************************************************************)
(* Time passes, Redis works through its queue, the event loop runs a       *)
(* scheduled task and resumes a coroutine whose answer is there, and a     *)
(* backend call ends (every one has a timeout).  Nothing obliges a caller  *)
(* to try again, so Select and Finish are not fair.                        *)
(***************************************************************************)
Fairness ==
    /\ WF_vars(Tick)
    /\ WF_vars(Redelivery)
    /\ WF_vars(Returns)
    /\ \A r \in Requests :
          /\ WF_vars(Ask(r))
          /\ WF_vars(RedisExecutes(r) \/ Answered(r))
          /\ WF_vars(Release(r))

FairSpec == Spec /\ Fairness

-----------------------------------------------------------------------------

(***************************************************************************)
(* No store ever holds more live leases on a backend than the largest      *)
(* max_concurrency configured for it, whoever asked, through however many  *)
(* aliases, and whatever was cancelled, lost or reloaded on the way.       *)
(***************************************************************************)
LedgerBounded ==
    \A st \in Stores, s \in Slots : Cardinality(Live(st, s)) <= Ceiling

(***************************************************************************)
(* InFlight implements SlotPermits at every place where it counts: the     *)
(* requests that run on a lease which is still alive, by the store that    *)
(* granted it and the backend it is for.  So no backend serves more than   *)
(* Ceiling requests per store, and with Redis answering there is one       *)
(* store: a request never enters on a count that missed another one.       *)
(***************************************************************************)
Inside(st, s) ==
    {r \in Requests :
        pc[r] = "running" /\ via[r] = st /\ slot[r] = s /\ left[st][s][r] > 0}

Permits == INSTANCE SlotPermits WITH
    Places <- Stores \X Slots,
    inside <- [p \in Stores \X Slots |-> Inside(p[1], p[2])]

ImplementsPermits == Permits!Spec

(***************************************************************************)
(* A request that is running keeps the lease it was granted: only the      *)
(* clock takes anything from it.  A second release, a release computed     *)
(* from a reloaded registry, the late clean-up of an earlier attempt, or   *)
(* another worker's death would break this, and with it the ceiling.       *)
(***************************************************************************)
Held(r) == left[via[r]][slot[r]][r]

LeaseOnlyAges ==
    [][\A r \in Requests :
          pc[r] = "running" /\ pc'[r] = "running" =>
             \/ Held(r)' = Held(r)
             \/ Held(r)' = Age(Held(r)) /\ Tick]_vars

(***************************************************************************)
(* The hint select() reads is exactly the number of requests this worker   *)
(* runs on the slot: a hint that stays too high answers 429 on an idle     *)
(* backend until the worker restarts (docstring of Router.release).        *)
(***************************************************************************)
RunningOn(w, s) == {r \in Requests : pc[r] = "running" /\ WorkerOf[r] = w /\ slot[r] = s}

HintExact ==
    \A w \in Workers, s \in Slots : hint[w][s] = Cardinality(RunningOn(w, s))

(***************************************************************************)
(* An attempt starts from a clean state: no task that gives a lease back,  *)
(* and no command still on its way to Redis, belongs to a request that     *)
(* asks or runs again, and a running lease is in Redis or with its worker. *)
(* LeaseOnlyAges and the ceiling rest on this.                             *)
(***************************************************************************)
CleanAttempts ==
    /\ \A t \in tasks : pc[t.req] \in {"returning", "over"}
    /\ \A m \in late : pc[m.req] = "over"
    /\ \A r \in Requests : pc[r] = "running" => via[r] \in {Redis, WorkerOf[r]}

IInv == TypeOK /\ HintExact /\ CleanAttempts

(***************************************************************************)
(* Without a fault of Redis or of a worker, a request that has ended, or   *)
(* is between two attempts, and whose release tasks are done has left      *)
(* nothing in any store: neither a cancellation nor a reload of the        *)
(* registry ever costs a slot.                                             *)
(***************************************************************************)
NothingLeftBehind ==
    \A r \in Requests :
        /\ pc[r] \in {"ready", "chosen", "over"}
        /\ TasksOf(r) = {}
        /\ \A m \in late : m.req # r
        => \A st \in Stores, s \in Slots : left[st][s][r] = 0

(***************************************************************************)
(* Whatever went wrong, a request that is over does not keep a slot for    *)
(* ever: "the system recovers by itself without anyone touching it"        *)
(* (module docstring of app/core/inflight.py).                             *)
(***************************************************************************)
SlotsComeBack ==
    \A r \in Requests :
        pc[r] = "over" ~> \A st \in Stores, s \in Slots : left[st][s][r] = 0

(***************************************************************************)
(* The books of the limiter agree with each other and with what runs: the  *)
(* hint of a worker counts its running requests, no clean-up of an earlier *)
(* attempt outlives the beginning of the next, and no store holds more     *)
(* live leases than there are slots.                                       *)
(***************************************************************************)
BooksAgree == TypeOK /\ HintExact /\ CleanAttempts /\ LedgerBounded

=============================================================================
