--------------------------- MODULE InFlightProofs ---------------------------
(***************************************************************************)
(* Proofs about InFlight, for every number of requests, workers, endpoints *)
(* and slots, every ceiling and lease life, and every combination of       *)
(* faults.                                                                 *)
(*                                                                         *)
(* TypeOK is not inductive: Release decrements the hint, which stays a     *)
(* natural number only because it counts the running requests (HintExact). *)
(* The two, with CleanAttempts, make the inductive invariant IInv.         *)
(***************************************************************************)
EXTENDS InFlight, FiniteSetTheorems, TLAPS

(***************************************************************************)
(* Sets of requests are finite, so counting them is defined.               *)
(***************************************************************************)
LEMMA RequestSets ==
    ASSUME NEW S \in SUBSET Requests
    PROVE  IsFiniteSet(S) /\ Cardinality(S) \in Nat
<1>1. IsFiniteSet(Requests)
  BY InFlightAssumption
<1>2. IsFiniteSet(S)
  BY <1>1, FS_Subset
<1>. QED
  BY <1>2, FS_CardinalityType

(***************************************************************************)
(* Every field of the state keeps its type, once hint is known to count.   *)
(***************************************************************************)
LEMMA TypeInit == Init => TypeOK
BY InFlightAssumption DEF Init, TypeOK, Stores

\* Taking and dropping a lease keep the stores typed.
LEMMA LeaseType ==
    ASSUME TypeOK, NEW st \in Stores, NEW s \in Slots, NEW r \in Requests
    PROVE  /\ Lease(st, s, r) \in [Stores -> [Slots -> [Requests -> 0..TTL]]]
           /\ Drop(st, s, r) \in [Stores -> [Slots -> [Requests -> 0..TTL]]]
BY InFlightAssumption DEF TypeOK, Lease, Drop

\* Another natural number keeps the hints typed.
LEMMA HintType ==
    ASSUME TypeOK, NEW w \in Workers, NEW s \in Slots, NEW n \in Nat
    PROVE  [hint EXCEPT ![w][s] = n] \in [Workers -> [Slots -> Nat]]
BY DEF TypeOK

\* A request that gets in keeps the hints typed.
LEMMA EnterHint ==
    ASSUME TypeOK, NEW r \in Requests, NEW st, Enter(r, st)
    PROVE  hint' \in [Workers -> [Slots -> Nat]]
<1>1. WorkerOf[r] \in Workers /\ slot[r] \in Slots
  BY InFlightAssumption DEF TypeOK
<1>2. hint[WorkerOf[r]][slot[r]] + 1 \in Nat
  BY <1>1 DEF TypeOK
<1>. QED
  BY <1>1, <1>2, HintType DEF Enter

\* Every step keeps the types; release needs the exact count for that.
LEMMA TypeStep ==
    ASSUME TypeOK, HintExact, [Next]_vars
    PROVE  TypeOK'
<1>. USE InFlightAssumption
<1>1. CASE UNCHANGED vars
  BY <1>1 DEF vars, TypeOK
<1>2. ASSUME NEW r \in Requests, Step(r)
      PROVE  TypeOK'
  <2>1. ASSUME NEW e \in Endpoints, Select(r, e) PROVE TypeOK'
    BY <2>1 DEF Select, TypeOK
  <2>2. CASE Ask(r)
    BY <2>2 DEF Ask, TypeOK
  <2>3. CASE RedisExecutes(r)
    <3>1. left' \in [Stores -> [Slots -> [Requests -> 0..TTL]]]
      BY <2>3, LeaseType DEF RedisExecutes, RunScript, TypeOK, Stores
    <3>2. reply' \in [Requests -> {"none", "sent", "granted", "full"}]
      BY <2>3 DEF RedisExecutes, TypeOK
    <3>. QED
      BY <2>3, <3>1, <3>2 DEF RedisExecutes, TypeOK
  <2>4. CASE Answered(r)
    <3>1. CASE Enter(r, Redis) /\ UNCHANGED <<slotOf, choice, slot, left, tasks, late>>
      <4>1. hint' \in [Workers -> [Slots -> Nat]]
        BY <3>1, EnterHint
      <4>. QED
        BY <3>1, <4>1 DEF Enter, TypeOK, Stores
    <3>2. CASE Refuse(r) /\ UNCHANGED <<slotOf, choice, slot, left, tasks, late>>
      BY <3>2 DEF Refuse, TypeOK
    <3>. QED
      BY <2>4, <3>1, <3>2 DEF Answered
  <2>5. CASE FallBack(r)
    <3>. DEFINE w == WorkerOf[r]
    <3>1. w \in Stores /\ slot[r] \in Slots
      BY DEF TypeOK, Stores
    <3>2. CASE HasRoom(w, slot[r], Limit[choice[r]])
      <4>1. left' = Lease(w, slot[r], r) /\ Enter(r, w)
        BY <2>5, <3>2 DEF FallBack
      <4>2. left' \in [Stores -> [Slots -> [Requests -> 0..TTL]]]
        BY <3>1, <4>1, LeaseType
      <4>3. hint' \in [Workers -> [Slots -> Nat]]
        BY <4>1, EnterHint
      <4>. QED
        BY <2>5, <3>1, <4>1, <4>2, <4>3 DEF FallBack, Enter, TypeOK
    <3>3. CASE ~HasRoom(w, slot[r], Limit[choice[r]])
      BY <2>5, <3>3 DEF FallBack, Refuse, TypeOK
    <3>. QED
      BY <3>2, <3>3
  <2>6. CASE CancelAsking(r)
    BY <2>6 DEF CancelAsking, Task, TypeOK
  <2>7. CASE Release(r)
    <3>1. r \in RunningOn(WorkerOf[r], slot[r])
      BY <2>7 DEF Release, RunningOn, TypeOK
    <3>2. Cardinality(RunningOn(WorkerOf[r], slot[r])) # 0
      BY <3>1, RequestSets, FS_EmptySet DEF RunningOn
    <3>3. hint[WorkerOf[r]][slot[r]] \in Nat \ {0}
      BY <3>2 DEF HintExact, TypeOK
    <3>4. hint' \in [Workers -> [Slots -> Nat]]
      <4>1. WorkerOf[r] \in Workers /\ slot[r] \in Slots
        BY DEF TypeOK
      <4>2. hint[WorkerOf[r]][slot[r]] - 1 \in Nat
        BY <3>3
      <4>. QED
        BY <2>7, <4>1, <4>2, HintType DEF Release
    <3>. QED
      BY <2>7, <3>4 DEF Release, Task, TypeOK
  <2>8. CASE Settled(r)
    BY <2>8 DEF Settled, TypeOK
  <2>9. CASE Finish(r)
    BY <2>9 DEF Finish, TypeOK
  <2>. QED
    BY <1>2, <2>1, <2>2, <2>3, <2>4, <2>5, <2>6, <2>7, <2>8, <2>9 DEF Step
<1>3. CASE Redelivery
  <2>1. PICK m \in late : RedisExecutesLate(m)
    BY <1>3 DEF Redelivery
  <2>2. left' \in [Stores -> [Slots -> [Requests -> 0..TTL]]]
    BY <2>1, LeaseType DEF RedisExecutesLate, RunScript, TypeOK, Stores
  <2>. QED
    BY <2>1, <2>2 DEF RedisExecutesLate, TypeOK
<1>4. CASE Returns
  <2>1. ASSUME NEW t \in tasks, ReturnPrimary(t) PROVE TypeOK'
    <3>1. t.req \in Requests /\ t.slot \in Slots
      BY DEF TypeOK
    <3>2. left' \in [Stores -> [Slots -> [Requests -> 0..TTL]]]
      <4>1. Drop(Redis, t.slot, t.req) \in [Stores -> [Slots -> [Requests -> 0..TTL]]]
        BY <3>1, LeaseType DEF Stores
      <4>. QED
        BY <2>1, <4>1 DEF ReturnPrimary, TypeOK
    <3>3. tasks' \subseteq [req : Requests, slot : Slots, at : {"primary", "fallback"}]
      BY <2>1, <3>1 DEF ReturnPrimary, Task, TypeOK
    <3>. QED
      BY <2>1, <3>2, <3>3 DEF ReturnPrimary, TypeOK
  <2>2. ASSUME NEW t \in tasks, ReturnFallback(t) PROVE TypeOK'
    <3>1. t.req \in Requests /\ t.slot \in Slots /\ WorkerOf[t.req] \in Stores
      BY DEF TypeOK, Stores
    <3>2. left' \in [Stores -> [Slots -> [Requests -> 0..TTL]]]
      BY <2>2, <3>1, LeaseType DEF ReturnFallback
    <3>. QED
      BY <2>2, <3>2 DEF ReturnFallback, TypeOK
  <2>. QED
    BY <1>4, <2>1, <2>2 DEF Returns
<1>5. CASE Tick
  <2>1. \A n \in 0..TTL : Age(n) \in 0..TTL
    BY DEF Age
  <2>. QED
    BY <1>5, <2>1 DEF Tick, TypeOK
<1>6. CASE Reload
  BY <1>6 DEF Reload, TypeOK
<1>7. ASSUME NEW w \in Workers, Crash(w)
      PROVE  TypeOK'
  BY <1>7 DEF Crash, TypeOK, Stores
<1>. QED
  BY <1>1, <1>2, <1>3, <1>4, <1>5, <1>6, <1>7 DEF Next

(***************************************************************************)
(* Tasks and late commands belong to attempts that have ended: a request   *)
(* leaves "returning" for "ready" only when it has no task left, and       *)
(* "over" is final.                                                        *)
(***************************************************************************)
LEMMA CleanStep ==
    ASSUME TypeOK, CleanAttempts, [Next]_vars
    PROVE  CleanAttempts'
<1>. USE InFlightAssumption
<1>1. CASE UNCHANGED vars
  BY <1>1 DEF vars, CleanAttempts
<1>2. ASSUME NEW r \in Requests, Step(r)
      PROVE  CleanAttempts'
  <2>1. ASSUME NEW e \in Endpoints, Select(r, e) PROVE CleanAttempts'
    BY <2>1 DEF Select, CleanAttempts, TypeOK
  <2>2. CASE Ask(r)
    BY <2>2 DEF Ask, CleanAttempts, TypeOK
  <2>3. CASE RedisExecutes(r)
    BY <2>3 DEF RedisExecutes, CleanAttempts, TypeOK
  <2>4. CASE Answered(r)
    BY <2>4 DEF Answered, Enter, Refuse, CleanAttempts, TypeOK
  <2>5. CASE FallBack(r)
    <3>1. CASE Enter(r, WorkerOf[r])
      <4>1. \A t \in tasks' : pc'[t.req] \in {"returning", "over"}
        BY <2>5, <3>1 DEF FallBack, Enter, CleanAttempts, TypeOK
      <4>2. \A m \in late' : pc'[m.req] = "over"
        BY <2>5, <3>1 DEF FallBack, Enter, CleanAttempts, TypeOK
      <4>3. \A q \in Requests : pc'[q] = "running" => via'[q] \in {Redis, WorkerOf[q]}
        BY <3>1 DEF Enter, CleanAttempts, TypeOK
      <4>. QED
        BY <4>1, <4>2, <4>3 DEF CleanAttempts
    <3>2. CASE Refuse(r)
      BY <2>5, <3>2 DEF FallBack, Refuse, CleanAttempts, TypeOK
    <3>. QED
      BY <2>5, <3>1, <3>2 DEF FallBack
  <2>6. CASE CancelAsking(r)
    <3>1. \A t \in tasks' : pc'[t.req] \in {"returning", "over"}
      BY <2>6 DEF CancelAsking, Task, CleanAttempts, TypeOK
    <3>2. \A m \in late' : pc'[m.req] = "over"
      BY <2>6 DEF CancelAsking, CleanAttempts, TypeOK
    <3>3. \A q \in Requests : pc'[q] = "running" => via'[q] \in {Redis, WorkerOf[q]}
      BY <2>6 DEF CancelAsking, CleanAttempts, TypeOK
    <3>. QED
      BY <3>1, <3>2, <3>3 DEF CleanAttempts
  <2>7. CASE Release(r)
    BY <2>7 DEF Release, Task, CleanAttempts, TypeOK
  <2>8. CASE Settled(r)
    BY <2>8 DEF Settled, TasksOf, CleanAttempts, TypeOK
  <2>9. CASE Finish(r)
    BY <2>9 DEF Finish, CleanAttempts, TypeOK
  <2>. QED
    BY <1>2, <2>1, <2>2, <2>3, <2>4, <2>5, <2>6, <2>7, <2>8, <2>9 DEF Step
<1>3. CASE Redelivery
  BY <1>3 DEF Redelivery, RedisExecutesLate, CleanAttempts, TypeOK
<1>4. CASE Returns
  BY <1>4 DEF Returns, ReturnPrimary, ReturnFallback, Task, CleanAttempts, TypeOK
<1>5. CASE Tick
  BY <1>5 DEF Tick, CleanAttempts, TypeOK
<1>6. CASE Reload
  BY <1>6 DEF Reload, CleanAttempts, TypeOK
<1>7. ASSUME NEW w \in Workers, Crash(w)
      PROVE  CleanAttempts'
  BY <1>7 DEF Crash, CleanAttempts, TypeOK
<1>. QED
  BY <1>1, <1>2, <1>3, <1>4, <1>5, <1>6, <1>7 DEF Next

(***************************************************************************)
(* The hint counts.  A request enters RunningOn where Enter adds one, and  *)
(* leaves it where Release takes one off; everything else leaves both the  *)
(* hint and the running requests alone, except a crash, which empties both *)
(* for one worker.                                                         *)
(***************************************************************************)
LEMMA HintEnter ==
    ASSUME TypeOK, HintExact, NEW r \in Requests, NEW st,
           pc[r] = "asking", Enter(r, st), slot' = slot
    PROVE  HintExact'
<1>. DEFINE w == WorkerOf[r]
            s == slot[r]
<1>1. w \in Workers /\ s \in Slots
  BY InFlightAssumption DEF TypeOK
<1>2. ASSUME NEW v \in Workers, NEW q \in Slots
      PROVE  hint'[v][q] = Cardinality(RunningOn(v, q)')
  <2>1. CASE v = w /\ q = s
    <3>1. RunningOn(v, q)' = RunningOn(v, q) \cup {r}
      BY <2>1 DEF RunningOn, Enter, TypeOK
    <3>2. r \notin RunningOn(v, q)
      BY DEF RunningOn
    <3>3. Cardinality(RunningOn(v, q)') = Cardinality(RunningOn(v, q)) + 1
      <4>1. RunningOn(v, q) \in SUBSET Requests
        BY DEF RunningOn
      <4>2. IsFiniteSet(RunningOn(v, q))
        BY <4>1, RequestSets
      <4>. QED
        BY <3>1, <3>2, <4>2, FS_AddElement
    <3>4. hint'[v][q] = hint[v][q] + 1
      BY <1>1, <2>1 DEF Enter, TypeOK
    <3>. QED
      BY <3>3, <3>4 DEF HintExact
  <2>2. CASE ~(v = w /\ q = s)
    <3>1. RunningOn(v, q)' = RunningOn(v, q)
      BY <2>2 DEF RunningOn, Enter, TypeOK
    <3>2. hint'[v][q] = hint[v][q]
      BY <1>1, <2>2 DEF Enter, TypeOK
    <3>. QED
      BY <3>1, <3>2 DEF HintExact
  <2>. QED
    BY <2>1, <2>2
<1>. QED
  BY <1>2 DEF HintExact

\* release takes one off the hint of a worker that ran one more.
LEMMA HintRelease ==
    ASSUME TypeOK, HintExact, NEW r \in Requests, Release(r)
    PROVE  HintExact'
<1>. DEFINE w == WorkerOf[r]
            s == slot[r]
<1>1. w \in Workers /\ s \in Slots
  BY InFlightAssumption DEF TypeOK
<1>2. ASSUME NEW v \in Workers, NEW q \in Slots
      PROVE  hint'[v][q] = Cardinality(RunningOn(v, q)')
  <2>1. CASE v = w /\ q = s
    <3>1. RunningOn(v, q)' = RunningOn(v, q) \ {r}
      BY <2>1 DEF RunningOn, Release, TypeOK
    <3>2. r \in RunningOn(v, q)
      BY <2>1 DEF RunningOn, Release
    <3>3. Cardinality(RunningOn(v, q)') = Cardinality(RunningOn(v, q)) - 1
      <4>1. RunningOn(v, q) \in SUBSET Requests
        BY DEF RunningOn
      <4>2. IsFiniteSet(RunningOn(v, q))
        BY <4>1, RequestSets
      <4>. QED
        BY <3>1, <3>2, <4>2, FS_RemoveElement
    <3>4. hint'[v][q] = hint[v][q] - 1
      BY <1>1, <2>1 DEF Release, TypeOK
    <3>. QED
      BY <3>3, <3>4 DEF HintExact
  <2>2. CASE ~(v = w /\ q = s)
    <3>1. RunningOn(v, q)' = RunningOn(v, q)
      BY <2>2 DEF RunningOn, Release, TypeOK
    <3>2. hint'[v][q] = hint[v][q]
      BY <1>1, <2>2 DEF Release, TypeOK
    <3>. QED
      BY <3>1, <3>2 DEF HintExact
  <2>. QED
    BY <2>1, <2>2
<1>. QED
  BY <1>2 DEF HintExact

\* A worker that dies takes its hint with it.
LEMMA HintCrash ==
    ASSUME TypeOK, HintExact, NEW w \in Workers, Crash(w)
    PROVE  HintExact'
<1>1. ASSUME NEW v \in Workers, NEW q \in Slots
      PROVE  hint'[v][q] = Cardinality(RunningOn(v, q)')
  <2>1. CASE v = w
    <3>1. RunningOn(v, q)' = {}
      BY <2>1 DEF RunningOn, Crash
    <3>2. hint'[v][q] = 0
      BY <2>1 DEF Crash, TypeOK
    <3>. QED
      BY <3>1, <3>2, FS_EmptySet
  <2>2. CASE v # w
    <3>1. RunningOn(v, q)' = RunningOn(v, q)
      BY <2>2 DEF RunningOn, Crash
    <3>2. hint'[v][q] = hint[v][q]
      BY <2>2 DEF Crash, TypeOK
    <3>. QED
      BY <3>1, <3>2 DEF HintExact
  <2>. QED
    BY <2>1, <2>2
<1>. QED
  BY <1>1 DEF HintExact

\* A step that leaves the hint and the set of running requests alone.
LEMMA HintSame ==
    ASSUME HintExact, hint' = hint,
           \A v \in Workers, q \in Slots : RunningOn(v, q)' = RunningOn(v, q)
    PROVE  HintExact'
BY DEF HintExact

\* Every step keeps the hint of each worker equal to the requests it runs.
LEMMA HintStep ==
    ASSUME TypeOK, HintExact, [Next]_vars
    PROVE  HintExact'
<1>. USE InFlightAssumption
<1>1. CASE UNCHANGED vars
  BY <1>1, HintSame DEF vars, RunningOn
<1>2. ASSUME NEW r \in Requests, Step(r)
      PROVE  HintExact'
  <2>1. ASSUME NEW e \in Endpoints, Select(r, e) PROVE HintExact'
    BY <2>1, HintSame DEF Select, RunningOn, TypeOK
  <2>2. CASE Ask(r)
    BY <2>2, HintSame DEF Ask, RunningOn, TypeOK
  <2>3. CASE RedisExecutes(r)
    BY <2>3, HintSame DEF RedisExecutes, RunningOn, TypeOK
  <2>4. CASE Answered(r)
    <3>1. CASE Enter(r, Redis)
      BY <2>4, <3>1, HintEnter DEF Answered
    <3>2. CASE Refuse(r)
      BY <2>4, <3>2, HintSame DEF Answered, Refuse, RunningOn, TypeOK
    <3>. QED
      BY <2>4, <3>1, <3>2 DEF Answered
  <2>5. CASE FallBack(r)
    <3>1. CASE Enter(r, WorkerOf[r])
      BY <2>5, <3>1, HintEnter DEF FallBack
    <3>2. CASE Refuse(r)
      BY <2>5, <3>2, HintSame DEF FallBack, Refuse, RunningOn, TypeOK
    <3>. QED
      BY <2>5, <3>1, <3>2 DEF FallBack
  <2>6. CASE CancelAsking(r)
    BY <2>6, HintSame DEF CancelAsking, RunningOn, TypeOK
  <2>7. CASE Release(r)
    BY <2>7, HintRelease
  <2>8. CASE Settled(r)
    BY <2>8, HintSame DEF Settled, RunningOn, TypeOK
  <2>9. CASE Finish(r)
    BY <2>9, HintSame DEF Finish, RunningOn, TypeOK
  <2>. QED
    BY <1>2, <2>1, <2>2, <2>3, <2>4, <2>5, <2>6, <2>7, <2>8, <2>9 DEF Step
<1>3. CASE Redelivery
  BY <1>3, HintSame DEF Redelivery, RedisExecutesLate, RunningOn
<1>4. CASE Returns
  BY <1>4, HintSame DEF Returns, ReturnPrimary, ReturnFallback, RunningOn
<1>5. CASE Tick
  BY <1>5, HintSame DEF Tick, RunningOn
<1>6. CASE Reload
  BY <1>6, HintSame DEF Reload, RunningOn
<1>7. ASSUME NEW w \in Workers, Crash(w)
      PROVE  HintExact'
  BY <1>7, HintCrash
<1>. QED
  BY <1>1, <1>2, <1>3, <1>4, <1>5, <1>6, <1>7 DEF Next

\* The first state.
LEMMA InvInit == Init => IInv
<1>. SUFFICES ASSUME Init PROVE IInv
  OBVIOUS
<1>1. TypeOK
  BY TypeInit
<1>2. HintExact
  <2>1. ASSUME NEW w \in Workers, NEW s \in Slots
        PROVE  hint[w][s] = Cardinality(RunningOn(w, s))
    <3>1. RunningOn(w, s) = {}
      BY DEF Init, RunningOn
    <3>2. hint[w][s] = 0
      BY DEF Init
    <3>. QED
      BY <3>1, <3>2, FS_EmptySet
  <2>. QED
    BY <2>1 DEF HintExact
<1>3. CleanAttempts
  BY DEF Init, CleanAttempts
<1>. QED
  BY <1>1, <1>2, <1>3 DEF IInv

\* Every step.
LEMMA InvStep == IInv /\ [Next]_vars => IInv'
BY TypeStep, HintStep, CleanStep DEF IInv

(***************************************************************************)
(* The inductive invariant holds in every reachable state, and with it:    *)
(***************************************************************************)
THEOREM Invariance == Spec => []IInv
BY InvInit, InvStep, PTL DEF Spec

(***************************************************************************)
(* every variable has its type; in particular no hint is ever negative.    *)
(***************************************************************************)
THEOREM TypeCorrect == Spec => []TypeOK
<1>1. IInv => TypeOK
  BY DEF IInv
<1>. QED
  BY <1>1, Invariance, PTL

(***************************************************************************)
(* The hint of a worker is exactly what it runs (Router.acquire, release). *)
(***************************************************************************)
THEOREM HintCorrect == Spec => []HintExact
<1>1. IInv => HintExact
  BY DEF IInv
<1>. QED
  BY <1>1, Invariance, PTL

(***************************************************************************)
(* Booking where there is room keeps a ledger within its ceiling; dropping *)
(* and ageing leases only make it smaller.                                 *)
(***************************************************************************)
LEMMA ShrinkingIsBounded ==
    ASSUME LedgerBounded,
           \A st \in Stores, s \in Slots, r \in Requests :
              left'[st][s][r] > 0 => left[st][s][r] > 0
    PROVE  LedgerBounded'
<1>. USE InFlightAssumption
<1>1. ASSUME NEW st \in Stores, NEW s \in Slots
      PROVE  Cardinality(Live(st, s)') <= Ceiling
  <2>1. Live(st, s)' \subseteq Live(st, s)
    BY DEF Live
  <2>2. IsFiniteSet(Live(st, s)) /\ Cardinality(Live(st, s)) \in Nat
    <3>1. Live(st, s) \in SUBSET Requests
      BY DEF Live
    <3>. QED
      BY <3>1, RequestSets
  <2>3. Cardinality(Live(st, s)') <= Cardinality(Live(st, s))
    BY <2>1, <2>2, FS_Subset
  <2>4. Cardinality(Live(st, s)') \in Nat
    <3>1. Live(st, s)' \in SUBSET Requests
      BY DEF Live
    <3>. QED
      BY <3>1, RequestSets
  <2>. QED
    BY <2>2, <2>3, <2>4 DEF LedgerBounded
<1>. QED
  BY <1>1 DEF LedgerBounded

\* A booking below the limit stays within the ceiling.
LEMMA BookingIsBounded ==
    ASSUME TypeOK, LedgerBounded,
           NEW st \in Stores, NEW s \in Slots, NEW r \in Requests,
           NEW n \in Nat, n <= Ceiling,
           HasRoom(st, s, n), left' = Lease(st, s, r)
    PROVE  LedgerBounded'
<1>. USE InFlightAssumption
<1>1. ASSUME NEW p \in Stores, NEW q \in Slots
      PROVE  Cardinality(Live(p, q)') <= Ceiling
  <2>1. CASE p = st /\ q = s
    <3>1. Live(p, q)' = Live(p, q) \cup {r}
      BY <2>1 DEF Live, Lease, TypeOK
    <3>2. IsFiniteSet(Live(p, q)) /\ Cardinality(Live(p, q)) \in Nat
      <4>1. Live(p, q) \in SUBSET Requests
        BY DEF Live
      <4>. QED
        BY <4>1, RequestSets
    <3>3. Cardinality(Live(p, q)') \in {Cardinality(Live(p, q)), Cardinality(Live(p, q)) + 1}
      <4>1. CASE r \in Live(p, q)
        BY <3>1, <4>1
      <4>2. CASE r \notin Live(p, q)
        BY <3>1, <3>2, <4>2, FS_AddElement
      <4>. QED
        BY <4>1, <4>2
    <3>4. Cardinality(Live(p, q)) < n
      BY <2>1 DEF HasRoom
    <3>. QED
      BY <3>2, <3>3, <3>4
  <2>2. CASE ~(p = st /\ q = s)
    <3>1. Live(p, q)' = Live(p, q)
      BY <2>2 DEF Live, Lease, TypeOK
    <3>. QED
      BY <3>1 DEF LedgerBounded
  <2>. QED
    BY <2>1, <2>2
<1>. QED
  BY <1>1 DEF LedgerBounded

\* The script of Redis, run for a live or for a departed caller.
LEMMA ScriptIsBounded ==
    ASSUME TypeOK, LedgerBounded, NEW s \in Slots, NEW r \in Requests,
           NEW n \in Nat, n <= Ceiling, RunScript(s, r, n)
    PROVE  LedgerBounded'
<1>1. Redis \in Stores
  BY DEF Stores
<1>2. CASE HasRoom(Redis, s, n)
  BY <1>1, <1>2, BookingIsBounded DEF RunScript
<1>3. CASE ~HasRoom(Redis, s, n)
  <2>1. left' = left
    BY <1>3 DEF RunScript
  <2>. QED
    BY <2>1, ShrinkingIsBounded
<1>. QED
  BY <1>2, <1>3

(***************************************************************************)
(* A command that reaches Redis late carries the ceiling of an endpoint.   *)
(***************************************************************************)
LateWithinCeiling == \A m \in late : m.limit <= Ceiling

\* A late command carries a limit within the ceiling.
LEMMA LateStep ==
    ASSUME TypeOK, LateWithinCeiling, [Next]_vars
    PROVE  LateWithinCeiling'
<1>. USE InFlightAssumption
<1>1. ASSUME NEW r \in Requests, CancelAsking(r)
      PROVE  LateWithinCeiling'
  BY <1>1 DEF CancelAsking, LateWithinCeiling, TypeOK
<1>2. ASSUME NEW w \in Workers, Crash(w)
      PROVE  LateWithinCeiling'
  BY <1>2 DEF Crash, LateWithinCeiling, TypeOK
<1>3. ASSUME late' \subseteq late
      PROVE  LateWithinCeiling'
  BY <1>3 DEF LateWithinCeiling
<1>. QED
  BY <1>1, <1>2, <1>3 DEF Next, vars, Step, Redelivery, Returns, Select, Ask, RedisExecutes,
     Answered, FallBack, Release, Settled, Finish, RedisExecutesLate,
     ReturnPrimary, ReturnFallback, Tick, Reload

\* No step brings a store above the ceiling.
LEMMA LedgerStep ==
    ASSUME TypeOK, LedgerBounded, LateWithinCeiling, [Next]_vars
    PROVE  LedgerBounded'
<1>. USE InFlightAssumption
<1>1. ASSUME left' = left PROVE LedgerBounded'
  BY <1>1, ShrinkingIsBounded
<1>2. ASSUME NEW r \in Requests, RedisExecutes(r)
      PROVE  LedgerBounded'
  <2>1. slot[r] \in Slots /\ Limit[choice[r]] \in Nat /\ Limit[choice[r]] <= Ceiling
    BY DEF TypeOK
  <2>. QED
    BY <1>2, <2>1, ScriptIsBounded DEF RedisExecutes
<1>3. ASSUME NEW r \in Requests, FallBack(r)
      PROVE  LedgerBounded'
  <2>1. /\ slot[r] \in Slots /\ Limit[choice[r]] \in Nat /\ Limit[choice[r]] <= Ceiling
        /\ WorkerOf[r] \in Stores
    BY DEF TypeOK, Stores
  <2>2. CASE HasRoom(WorkerOf[r], slot[r], Limit[choice[r]])
    BY <1>3, <2>1, <2>2, BookingIsBounded DEF FallBack
  <2>3. CASE ~HasRoom(WorkerOf[r], slot[r], Limit[choice[r]])
    BY <1>1, <1>3, <2>3 DEF FallBack
  <2>. QED
    BY <2>2, <2>3
<1>4. CASE Redelivery
  <2>1. PICK m \in late : RedisExecutesLate(m)
    BY <1>4 DEF Redelivery
  <2>2. m.slot \in Slots /\ m.req \in Requests /\ m.limit \in Nat /\ m.limit <= Ceiling
    BY DEF TypeOK, LateWithinCeiling
  <2>. QED
    BY <2>1, <2>2, ScriptIsBounded DEF RedisExecutesLate
<1>5. CASE Returns
  <2>1. PICK t \in tasks : ReturnPrimary(t) \/ ReturnFallback(t)
    BY <1>5 DEF Returns
  <2>2. ASSUME NEW u \in Stores, left' = Drop(u, t.slot, t.req)
        PROVE  LedgerBounded'
    <3>1. t.slot \in Slots /\ t.req \in Requests
      BY DEF TypeOK
    <3>2. \A st \in Stores, s \in Slots, r \in Requests :
             left'[st][s][r] > 0 => left[st][s][r] > 0
      BY <2>2, <3>1 DEF Drop, TypeOK
    <3>. QED
      BY <3>2, ShrinkingIsBounded
  <2>3. Redis \in Stores /\ WorkerOf[t.req] \in Stores
    BY DEF TypeOK, Stores
  <2>4. CASE ReturnPrimary(t)
    <3>1. left' = Drop(Redis, t.slot, t.req) \/ left' = left
      BY <2>4 DEF ReturnPrimary
    <3>. QED
      BY <1>1, <2>2, <2>3, <3>1
  <2>5. CASE ReturnFallback(t)
    <3>1. left' = Drop(WorkerOf[t.req], t.slot, t.req)
      BY <2>5 DEF ReturnFallback
    <3>. QED
      BY <2>2, <2>3, <3>1
  <2>. QED
    BY <2>1, <2>4, <2>5
<1>6. CASE Tick
  <2>1. \A st \in Stores, s \in Slots, r \in Requests :
           left'[st][s][r] > 0 => left[st][s][r] > 0
    BY <1>6 DEF Tick, Age, TypeOK
  <2>. QED
    BY <2>1, ShrinkingIsBounded
<1>7. ASSUME NEW w \in Workers, Crash(w)
      PROVE  LedgerBounded'
  <2>1. \A st \in Stores, s \in Slots, r \in Requests :
           left'[st][s][r] > 0 => left[st][s][r] > 0
    BY <1>7 DEF Crash, TypeOK
  <2>. QED
    BY <2>1, ShrinkingIsBounded
<1>. QED
  BY <1>1, <1>2, <1>3, <1>4, <1>5, <1>6, <1>7 DEF Next, vars, Step, Select, Ask,
     Answered, CancelAsking, Release, Settled, Finish, Reload

(***************************************************************************)
(* The ceiling holds in every store and for every backend, in every        *)
(* reachable state and under every combination of faults.                  *)
(***************************************************************************)
THEOREM CeilingHolds == Spec => []LedgerBounded
<1>1. Init => LedgerBounded /\ LateWithinCeiling
  <2>. SUFFICES ASSUME Init PROVE LedgerBounded /\ LateWithinCeiling
    OBVIOUS
  <2>1. ASSUME NEW st \in Stores, NEW s \in Slots
        PROVE  Cardinality(Live(st, s)) <= Ceiling
    <3>1. Live(st, s) = {}
      BY DEF Init, Live
    <3>2. Cardinality(Live(st, s)) = 0
      BY <3>1, FS_EmptySet
    <3>. QED
      BY <3>2, InFlightAssumption
  <2>2. LedgerBounded
    BY <2>1 DEF LedgerBounded
  <2>. QED
    BY <2>2 DEF Init, LateWithinCeiling
<1>2. TypeOK /\ LedgerBounded /\ LateWithinCeiling /\ [Next]_vars
         => (LedgerBounded /\ LateWithinCeiling)'
  BY LateStep, LedgerStep
<1>. QED
  BY <1>1, <1>2, TypeCorrect, PTL DEF Spec

(***************************************************************************)
(* The books of the limiter agree with each other and with what runs: what *)
(* inflight_faults checks on a small instance, for every one.              *)
(***************************************************************************)
THEOREM BooksCorrect == Spec => []BooksAgree
<1>1. IInv /\ LedgerBounded => BooksAgree
  BY DEF IInv, BooksAgree
<1>. QED
  BY <1>1, Invariance, CeilingHolds, PTL

(***************************************************************************)
(* The lease of a running request is out of everybody else's reach: a      *)
(* store is only ever changed in the entry of the request that asks or     *)
(* returns, tasks and late commands belong to requests that do not run     *)
(* (CleanAttempts), and a crash empties the store of another worker.       *)
(***************************************************************************)
LEMMA OtherEntries ==
    ASSUME TypeOK, NEW r \in Requests, NEW q \in Requests, q # r,
           NEW st \in Stores, NEW s \in Slots,
           \/ left' = Lease(st, s, q)
           \/ left' = Drop(st, s, q)
           \/ left' = left,
           via'[r] = via[r], slot'[r] = slot[r]
    PROVE  Held(r)' = Held(r)
<1>1. via[r] \in Stores /\ slot[r] \in Slots
  BY DEF TypeOK
<1>2. Held(r)' = left'[via[r]][slot[r]][r]
  BY DEF Held
<1>3. CASE left' = Lease(st, s, q)
  <2>1. Lease(st, s, q)[via[r]][slot[r]][r] = left[via[r]][slot[r]][r]
    BY <1>1 DEF TypeOK, Lease
  <2>. QED
    BY <1>2, <1>3, <2>1 DEF Held
<1>4. CASE left' = Drop(st, s, q)
  <2>1. Drop(st, s, q)[via[r]][slot[r]][r] = left[via[r]][slot[r]][r]
    BY <1>1 DEF TypeOK, Drop
  <2>. QED
    BY <1>2, <1>4, <2>1 DEF Held
<1>5. CASE left' = left
  BY <1>2, <1>5 DEF Held
<1>. QED
  BY <1>3, <1>4, <1>5

\* What a step does to the leases of a request that goes on running.
LEMMA HeldStep ==
    ASSUME IInv, Next, NEW r \in Requests, pc[r] = "running", pc'[r] = "running"
    PROVE  Held(r)' = Held(r) \/ (Held(r)' = Age(Held(r)) /\ Tick)
<1>. USE InFlightAssumption
<1>1. TypeOK /\ CleanAttempts
  BY DEF IInv
<1>2. ASSUME NEW q \in Requests, Step(q)
      PROVE  Held(r)' = Held(r)
  <2>1. q # r
    BY <1>1, <1>2 DEF Step, Select, Ask, RedisExecutes, Answered, FallBack, Enter, Refuse,
       CancelAsking, Release, Settled, Finish, TypeOK
  <2>2. via'[r] = via[r] /\ slot'[r] = slot[r]
    BY <1>1, <1>2, <2>1 DEF Step, Select, Ask, RedisExecutes, Answered, FallBack, Enter, Refuse,
       CancelAsking, Release, Settled, Finish, TypeOK
  <2>3. Redis \in Stores /\ WorkerOf[q] \in Stores /\ slot[q] \in Slots
    BY <1>1 DEF TypeOK, Stores
  <2>4. CASE RedisExecutes(q)
    <3>1. left' = Lease(Redis, slot[q], q) \/ left' = left
      BY <2>4 DEF RedisExecutes, RunScript
    <3>. QED
      BY <1>1, <2>1, <2>2, <2>3, <3>1, OtherEntries
  <2>5. CASE FallBack(q)
    <3>1. left' = Lease(WorkerOf[q], slot[q], q) \/ left' = left
      BY <2>5 DEF FallBack
    <3>. QED
      BY <1>1, <2>1, <2>2, <2>3, <3>1, OtherEntries
  <2>6. CASE left' = left
    BY <2>2, <2>6 DEF Held
  <2>. QED
    BY <1>2, <2>4, <2>5, <2>6 DEF Step, Select, Ask, Answered, CancelAsking, Release,
       Settled, Finish
<1>3. CASE Redelivery
  <2>1. PICK m \in late : RedisExecutesLate(m)
    BY <1>3 DEF Redelivery
  <2>2. m.req \in Requests /\ m.slot \in Slots /\ Redis \in Stores
    BY <1>1 DEF TypeOK, Stores
  <2>3. m.req # r
    BY <1>1 DEF CleanAttempts
  <2>4. left' = Lease(Redis, m.slot, m.req) \/ left' = left
    BY <2>1 DEF RedisExecutesLate, RunScript
  <2>. QED
    BY <1>1, <2>1, <2>2, <2>3, <2>4, OtherEntries DEF RedisExecutesLate
<1>4. CASE Returns
  <2>1. PICK t \in tasks : ReturnPrimary(t) \/ ReturnFallback(t)
    BY <1>4 DEF Returns
  <2>2. t.req \in Requests /\ t.slot \in Slots /\ Redis \in Stores /\ WorkerOf[t.req] \in Stores
    BY <1>1 DEF TypeOK, Stores
  <2>3. t.req # r
    BY <1>1 DEF CleanAttempts
  <2>4. \/ left' = Drop(Redis, t.slot, t.req)
        \/ left' = Drop(WorkerOf[t.req], t.slot, t.req)
        \/ left' = left
    BY <2>1 DEF ReturnPrimary, ReturnFallback
  <2>. QED
    BY <1>1, <2>1, <2>2, <2>3, <2>4, OtherEntries DEF ReturnPrimary, ReturnFallback
<1>5. CASE Tick
  <2>1. via[r] \in Stores /\ slot[r] \in Slots
    BY <1>1 DEF TypeOK
  <2>2. Held(r)' = Age(Held(r))
    BY <1>5, <2>1 DEF Tick, Held
  <2>. QED
    BY <1>5, <2>2
<1>6. CASE Reload
  BY <1>6 DEF Reload, Held
<1>7. ASSUME NEW w \in Workers, Crash(w)
      PROVE  Held(r)' = Held(r)
  <2>1. WorkerOf[r] # w
    BY <1>7 DEF Crash
  <2>2. via[r] # w
    BY <1>1, <2>1 DEF CleanAttempts
  <2>. QED
    BY <1>1, <1>7, <2>2 DEF Crash, Held, TypeOK
<1>. QED
  BY <1>2, <1>3, <1>4, <1>5, <1>6, <1>7 DEF Next

(***************************************************************************)
(* A running request keeps the lease it was granted; only the clock wears  *)
(* it down.                                                                *)
(***************************************************************************)
THEOREM LeasesAreKept == Spec => LeaseOnlyAges
<1>1. IInv /\ [Next]_vars =>
        [\A r \in Requests :
            pc[r] = "running" /\ pc'[r] = "running" =>
               \/ Held(r)' = Held(r)
               \/ Held(r)' = Age(Held(r)) /\ Tick]_vars
  BY HeldStep
<1>. QED
  BY <1>1, Invariance, PTL DEF Spec, LeaseOnlyAges

(***************************************************************************)
(* InFlight implements SlotPermits.  A step by which no request starts to  *)
(* run is a Leave: who runs after it ran before it, on a lease that was    *)
(* alive before it too (HeldStep).                                         *)
(***************************************************************************)
AllInside == [p \in Stores \X Slots |-> Inside(p[1], p[2])]

NobodyEnters ==
    \A q \in Requests : pc'[q] = "running" =>
        pc[q] = "running" /\ via'[q] = via[q] /\ slot'[q] = slot[q]

\* A step at which nobody enters is a Leave of SlotPermits.
LEMMA LeaveStep ==
    ASSUME IInv, Next, NobodyEnters
    PROVE  Permits!Leave
<1>1. ASSUME NEW p \in Stores \X Slots
      PROVE  Inside(p[1], p[2])' \subseteq Inside(p[1], p[2])
  <2>1. ASSUME NEW q \in Inside(p[1], p[2])'
        PROVE  q \in Inside(p[1], p[2])
    <3>1. q \in Requests /\ pc'[q] = "running" /\ Held(q)' > 0
      BY DEF Inside, Held
    <3>2. pc[q] = "running" /\ via[q] = p[1] /\ slot[q] = p[2]
      BY <3>1 DEF NobodyEnters, Inside
    <3>3. Held(q)' = Held(q) \/ Held(q)' = Age(Held(q))
      BY <3>1, <3>2, HeldStep
    <3>4. Held(q) \in Nat
      BY <3>1, InFlightAssumption DEF IInv, TypeOK, Held
    <3>5. Held(q) > 0
      BY <3>1, <3>3, <3>4 DEF Age
    <3>. QED
      BY <3>1, <3>2, <3>5 DEF Inside, Held
  <2>. QED
    BY <2>1
<1>. QED
  BY <1>1 DEF Permits!Leave

(***************************************************************************)
(* A request that starts to run on a live lease is an Enter.  The other    *)
(* requests inside are on the same ledger, and the ledger, the newcomer's  *)
(* lease included, is within the ceiling.                                  *)
(***************************************************************************)
LEMMA RoomBesideMe ==
    ASSUME TypeOK, NEW st \in Stores, NEW s \in Slots, NEW r \in Requests,
           pc[r] # "running",
           \/ r \in Live(st, s) /\ Cardinality(Live(st, s)) <= Ceiling
           \/ Cardinality(Live(st, s)) < Ceiling
    PROVE  Cardinality(Inside(st, s)) < Ceiling
<1>1. /\ IsFiniteSet(Live(st, s)) /\ Cardinality(Live(st, s)) \in Nat
      /\ IsFiniteSet(Inside(st, s)) /\ Cardinality(Inside(st, s)) \in Nat
  <2>1. Live(st, s) \in SUBSET Requests /\ Inside(st, s) \in SUBSET Requests
    BY DEF Live, Inside
  <2>. QED
    BY <2>1, RequestSets
<1>2. CASE r \in Live(st, s) /\ Cardinality(Live(st, s)) <= Ceiling
  <2>1. Inside(st, s) \subseteq Live(st, s) \ {r}
    BY DEF Inside, Live
  <2>2. /\ IsFiniteSet(Live(st, s) \ {r})
        /\ Cardinality(Live(st, s) \ {r}) = Cardinality(Live(st, s)) - 1
    BY <1>1, <1>2, FS_RemoveElement
  <2>3. Cardinality(Inside(st, s)) <= Cardinality(Live(st, s) \ {r})
    BY <2>1, <2>2, FS_Subset
  <2>. QED
    BY <1>1, <1>2, <2>2, <2>3, InFlightAssumption
<1>3. CASE Cardinality(Live(st, s)) < Ceiling
  <2>1. Inside(st, s) \subseteq Live(st, s)
    BY DEF Inside, Live
  <2>2. Cardinality(Inside(st, s)) <= Cardinality(Live(st, s))
    BY <1>1, <2>1, FS_Subset
  <2>. QED
    BY <1>1, <1>3, <2>2, InFlightAssumption
<1>. QED
  BY <1>2, <1>3

\* SlotPermits counts with its own instance of FiniteSets.
LEMMA SameCount == \A S : Permits!Cardinality(S) = Cardinality(S)
BY DEF Permits!Cardinality, Cardinality

\* A booking is an Enter of SlotPermits.
LEMMA EnterStep ==
    ASSUME TypeOK, NEW st \in Stores, NEW r \in Requests,
           pc[r] = "asking", Enter(r, st), slot' = slot,
           left' = left \/ left' = Lease(st, slot[r], r),
           left'[st][slot[r]][r] > 0,
           Cardinality(Inside(st, slot[r])) < Ceiling
    PROVE  \E p \in Stores \X Slots : Permits!Enter(p, r)
<1>. DEFINE s == slot[r]
            home == <<st, slot[r]>>
<1>1. s \in Slots /\ home \in Stores \X Slots
  BY DEF TypeOK
<1>2. r \notin Inside(st, s)
  BY DEF Inside
<1>3. Inside(st, s)' = Inside(st, s) \cup {r}
  BY <1>1 DEF Inside, Enter, Lease, TypeOK
<1>4. ASSUME NEW p \in Stores \X Slots, p # home
      PROVE  Inside(p[1], p[2])' = Inside(p[1], p[2])
  <2>1. p[1] # st \/ p[2] # s
    BY <1>4
  <2>2. ASSUME NEW q \in Requests
        PROVE  q \in Inside(p[1], p[2])' <=> q \in Inside(p[1], p[2])
    <3>1. CASE q = r
      BY <2>1, <3>1 DEF Inside, Enter, TypeOK
    <3>2. CASE q # r
      <4>1. p[1] \in Stores /\ p[2] \in Slots
        OBVIOUS
      <4>2. Lease(st, s, r)[p[1]][p[2]][q] = left[p[1]][p[2]][q]
        BY <1>1, <3>2, <4>1 DEF Lease, TypeOK
      <4>3. left'[p[1]][p[2]][q] = left[p[1]][p[2]][q]
        BY <4>2
      <4>. QED
        BY <3>2, <4>3 DEF Inside, Enter, TypeOK
    <3>. QED
      BY <3>1, <3>2
  <2>. QED
    BY <2>2 DEF Inside
<1>5. AllInside' = [AllInside EXCEPT ![home] = @ \cup {r}]
  <2>1. home[1] = st /\ home[2] = s
    OBVIOUS
  <2>2. \A p \in Stores \X Slots :
           Inside(p[1], p[2])' = IF p = home THEN Inside(p[1], p[2]) \cup {r}
                                 ELSE Inside(p[1], p[2])
    BY <1>3, <1>4, <2>1
  <2>. HIDE DEF home
  <2>. QED
    BY <1>1, <2>2 DEF AllInside
<1>6. Permits!Enter(home, r)
  <2>1. AllInside[home] = Inside(st, s)
    BY <1>1 DEF AllInside
  <2>2. r \notin AllInside[home] /\ Permits!Cardinality(AllInside[home]) < Ceiling
    BY <1>2, <2>1, SameCount
  <2>. HIDE DEF home
  <2>. QED
    BY <1>1, <1>5, <2>2 DEF Permits!Enter, AllInside
<1>. QED
  BY <1>1, <1>6

\* Every step is a step of SlotPermits or a stutter.
LEMMA PermitStep ==
    ASSUME IInv, LedgerBounded, [Next]_vars
    PROVE  Permits!Next \/ UNCHANGED AllInside
<1>. USE InFlightAssumption
<1>. USE DEF IInv
<1>1. CASE UNCHANGED vars
  BY <1>1 DEF vars, AllInside, Inside
<1>2. CASE Next /\ NobodyEnters
  BY <1>2, LeaveStep DEF Permits!Next
<1>3. ASSUME NEW r \in Requests, Answered(r), Enter(r, Redis)
      PROVE  Permits!Next
  <2>1. Redis \in Stores /\ slot[r] \in Slots
    BY DEF Stores, TypeOK
  <2>2. CASE r \in Live(Redis, slot[r])
    <3>1. pc[r] = "asking" /\ slot' = slot /\ left' = left
      BY <1>3 DEF Answered
    <3>2. Cardinality(Inside(Redis, slot[r])) < Ceiling
      BY <2>1, <2>2, <3>1, RoomBesideMe DEF LedgerBounded
    <3>3. left'[Redis][slot[r]][r] > 0
      BY <2>2, <3>1 DEF Live
    <3>. QED
      BY <1>3, <2>1, <3>1, <3>2, <3>3, EnterStep DEF Permits!Next
  <2>3. CASE r \notin Live(Redis, slot[r])
    <3>1. ASSUME NEW p \in Stores \X Slots
          PROVE  Inside(p[1], p[2])' \subseteq Inside(p[1], p[2])
      BY <1>3, <2>3 DEF Inside, Answered, Enter, Live, TypeOK
    <3>. QED
      BY <3>1 DEF Permits!Next, Permits!Leave
  <2>. QED
    BY <2>2, <2>3
<1>4. ASSUME NEW r \in Requests, FallBack(r), Enter(r, WorkerOf[r])
      PROVE  Permits!Next
  <2>. DEFINE w == WorkerOf[r]
              n == Limit[choice[r]]
  <2>1. w \in Stores /\ slot[r] \in Slots /\ n \in Nat /\ n <= Ceiling
    BY DEF Stores, TypeOK
  <2>2. pc[r] = "asking" /\ slot' = slot
    BY <1>4 DEF FallBack
  <2>3. HasRoom(w, slot[r], n) /\ left' = Lease(w, slot[r], r)
    <3>1. ~Refuse(r)
      BY <1>4 DEF Enter, Refuse, TypeOK
    <3>. QED
      BY <1>4, <3>1 DEF FallBack
  <2>4. Cardinality(Live(w, slot[r])) < Ceiling
    <3>1. Live(w, slot[r]) \in SUBSET Requests
      BY DEF Live
    <3>2. Cardinality(Live(w, slot[r])) \in Nat
      BY <3>1, RequestSets
    <3>3. Cardinality(Live(w, slot[r])) < n
      BY <2>3 DEF HasRoom
    <3>. QED
      BY <2>1, <3>2, <3>3
  <2>5. Cardinality(Inside(w, slot[r])) < Ceiling
    BY <2>1, <2>2, <2>4, RoomBesideMe
  <2>6. left'[w][slot[r]][r] > 0
    BY <2>1, <2>3 DEF Lease, TypeOK
  <2>. QED
    BY <1>4, <2>1, <2>2, <2>3, <2>5, <2>6, EnterStep DEF Permits!Next
<1>5. ASSUME NEW r \in Requests, Step(r),
             ~(Answered(r) /\ Enter(r, Redis)), ~(FallBack(r) /\ Enter(r, WorkerOf[r]))
      PROVE  NobodyEnters
  <2>1. \A q \in Requests \ {r} : pc'[q] = pc[q] /\ via'[q] = via[q] /\ slot'[q] = slot[q]
    BY <1>5 DEF Step, Select, Ask, RedisExecutes, Answered, FallBack, Enter, Refuse,
       CancelAsking, Release, Settled, Finish, TypeOK
  <2>2. pc'[r] # "running"
    BY <1>5 DEF Step, Select, Ask, RedisExecutes, Answered, FallBack, Refuse,
       CancelAsking, Release, Settled, Finish, TypeOK
  <2>. QED
    BY <2>1, <2>2 DEF NobodyEnters
<1>6. Next => NobodyEnters \/ \E r \in Requests : Step(r)
  BY DEF Next, NobodyEnters, Redelivery, RedisExecutesLate, Returns, ReturnPrimary,
     ReturnFallback, Tick, Reload, Crash
<1>. QED
  BY <1>1, <1>2, <1>3, <1>4, <1>5, <1>6

(***************************************************************************)
(* Every behaviour of the limiter is one of SlotPermits: at every store    *)
(* and backend, nobody gets in on a count that missed somebody.            *)
(***************************************************************************)
THEOREM PermitsImplemented == Spec => ImplementsPermits
<1>1. Init => Permits!Init
  BY DEF Init, Permits!Init, Inside
<1>2. IInv /\ LedgerBounded /\ [Next]_vars => [Permits!Next]_AllInside
  BY PermitStep
<1>. QED
  BY <1>1, <1>2, Invariance, CeilingHolds, PTL
     DEF Spec, ImplementsPermits, Permits!Spec, AllInside
-----------------------------------------------------------------------------
(* What is left behind, when nothing but the registry changes. *)

NoFaults == Faults \subseteq {"reload"}

\* Where a lease can be: in Redis, on the slot its request has computed, and
\* known to an answer on its way, to a request that runs, or to the task that
\* will give it back.
KnownTo(r, s) == reply[r] = "granted" \/ pc[r] = "running" \/ Task(r, s, "primary") \in tasks

LeasesKnown ==
    /\ \A r \in Requests : reply[r] # "none" => pc[r] = "asking"
    /\ \A m \in late : m.slot = slot[m.req] /\ Task(m.req, m.slot, "primary") \in tasks
    /\ \A st \in Stores, s \in Slots, r \in Requests :
          left[st][s][r] > 0 => st = Redis /\ s = slot[r] /\ KnownTo(r, s)

\* Without the faults every lease stays known: a command that was left behind
\* has a task of its own request, and that task waits for it.
LEMMA KnownStep ==
    ASSUME NoFaults, TypeOK, CleanAttempts, LeasesKnown, [Next]_vars
    PROVE  LeasesKnown'
<1>. USE InFlightAssumption
<1>1. CASE UNCHANGED vars
  BY <1>1 DEF vars, LeasesKnown, KnownTo
<1>2. ASSUME NEW r \in Requests, Step(r)
      PROVE  LeasesKnown'
  <2>1. ASSUME NEW e \in Endpoints, Select(r, e) PROVE LeasesKnown'
    BY <2>1 DEF Select, LeasesKnown, KnownTo, TypeOK
  <2>2. CASE Ask(r)
    <3>1. \A st \in Stores, s \in Slots : ~(left[st][s][r] > 0)
      <4>1. pc[r] = "chosen" /\ reply[r] = "none"
        BY <2>2 DEF Ask, LeasesKnown
      <4>2. \A s \in Slots : Task(r, s, "primary") \notin tasks
        BY <4>1 DEF CleanAttempts, Task
      <4>. QED
        BY <4>1, <4>2 DEF LeasesKnown, KnownTo
    <3>2. \A m \in late : m.req # r
      BY <2>2 DEF Ask, CleanAttempts
    <3>. QED
      BY <2>2, <3>1, <3>2 DEF Ask, LeasesKnown, KnownTo, TypeOK
  <2>3. CASE RedisExecutes(r)
    <3>1. ASSUME NEW st \in Stores, NEW s \in Slots, NEW q \in Requests, left'[st][s][q] > 0
          PROVE  st = Redis /\ s = slot'[q] /\ KnownTo(q, s)'
      <4>1. CASE left[st][s][q] > 0
        BY <2>3, <3>1, <4>1 DEF RedisExecutes, LeasesKnown, KnownTo, TypeOK
      <4>2. CASE ~(left[st][s][q] > 0)
        <5>1. left' = Lease(Redis, slot[r], r) /\ HasRoom(Redis, slot[r], Limit[choice[r]])
          BY <2>3, <3>1, <4>2 DEF RedisExecutes, RunScript
        <5>2. st = Redis /\ s = slot[r] /\ q = r
          BY <3>1, <4>2, <5>1 DEF Lease, TypeOK
        <5>3. reply'[r] = "granted"
          BY <2>3, <5>1 DEF RedisExecutes, TypeOK
        <5>. QED
          BY <2>3, <5>2, <5>3 DEF RedisExecutes, KnownTo
      <4>. QED
        BY <4>1, <4>2
    <3>2. \A q \in Requests : reply'[q] # "none" => pc'[q] = "asking"
      BY <2>3 DEF RedisExecutes, LeasesKnown, TypeOK
    <3>3. \A m \in late' : m.slot = slot'[m.req] /\ Task(m.req, m.slot, "primary") \in tasks'
      BY <2>3 DEF RedisExecutes, LeasesKnown
    <3>. QED
      BY <3>1, <3>2, <3>3 DEF LeasesKnown
  <2>4. CASE Answered(r)
    <3>1. /\ reply'[r] = "none" /\ pc'[r] \in {"running", "ready"}
          /\ reply[r] = "granted" => pc'[r] = "running"
          /\ pc[r] = "asking"
          /\ \A q \in Requests \ {r} : reply'[q] = reply[q] /\ pc'[q] = pc[q]
      BY <2>4 DEF Answered, Enter, Refuse, TypeOK
    <3>2. UNCHANGED <<slot, left, tasks, late>>
      BY <2>4 DEF Answered
    <3>3. \A q \in Requests, s \in Slots : KnownTo(q, s) => KnownTo(q, s)'
      BY <3>1, <3>2 DEF KnownTo
    <3>4. \A q \in Requests : reply'[q] # "none" => pc'[q] = "asking"
      BY <3>1 DEF LeasesKnown
    <3>. QED
      BY <3>2, <3>3, <3>4 DEF LeasesKnown
  <2>5. CASE FallBack(r)
    BY <2>5 DEF FallBack, NoFaults
  <2>6. CASE CancelAsking(r)
    <3>1. tasks \subseteq tasks' /\ Task(r, slot[r], "primary") \in tasks'
      BY <2>6 DEF CancelAsking
    <3>2. \A m \in late' : m \in late \/ (m.req = r /\ m.slot = slot[r])
      BY <2>6 DEF CancelAsking
    <3>3. \A m \in late' : m.slot = slot'[m.req] /\ Task(m.req, m.slot, "primary") \in tasks'
      BY <2>6, <3>1, <3>2 DEF CancelAsking, LeasesKnown
    <3>4. \A q \in Requests : reply'[q] # "none" => pc'[q] = "asking"
      BY <2>6 DEF CancelAsking, LeasesKnown, TypeOK
    <3>5. ASSUME NEW st \in Stores, NEW s \in Slots, NEW q \in Requests, left'[st][s][q] > 0
          PROVE  st = Redis /\ s = slot'[q] /\ KnownTo(q, s)'
      <4>1. st = Redis /\ s = slot[q] /\ KnownTo(q, s) /\ slot' = slot
        BY <2>6, <3>5 DEF CancelAsking, LeasesKnown
      <4>2. CASE q = r
        BY <3>1, <4>1, <4>2 DEF KnownTo
      <4>3. CASE q # r
        <5>1. reply'[q] = reply[q] /\ pc'[q] = pc[q]
          BY <2>6, <4>3 DEF CancelAsking, TypeOK
        <5>. QED
          BY <3>1, <4>1, <5>1 DEF KnownTo
      <4>. QED
        BY <4>2, <4>3
    <3>. QED
      BY <3>3, <3>4, <3>5 DEF LeasesKnown
  <2>7. CASE Release(r)
    BY <2>7 DEF Release, LeasesKnown, KnownTo, TypeOK
  <2>8. CASE Settled(r)
    BY <2>8 DEF Settled, LeasesKnown, KnownTo, TypeOK
  <2>9. CASE Finish(r)
    BY <2>9 DEF Finish, LeasesKnown, KnownTo, TypeOK
  <2>. QED
    BY <1>2, <2>1, <2>2, <2>3, <2>4, <2>5, <2>6, <2>7, <2>8, <2>9 DEF Step
<1>3. CASE Redelivery
  <2>1. PICK m \in late : RedisExecutesLate(m)
    BY <1>3 DEF Redelivery
  <2>2. ASSUME NEW st \in Stores, NEW s \in Slots, NEW q \in Requests, left'[st][s][q] > 0
        PROVE  st = Redis /\ s = slot'[q] /\ KnownTo(q, s)'
    <3>1. CASE left[st][s][q] > 0
      BY <2>1, <3>1 DEF RedisExecutesLate, LeasesKnown, KnownTo
    <3>2. CASE ~(left[st][s][q] > 0)
      <4>1. left' = Lease(Redis, m.slot, m.req) /\ m.slot \in Slots /\ m.req \in Requests
        BY <2>1, <2>2, <3>2 DEF RedisExecutesLate, RunScript, TypeOK
      <4>2. st = Redis /\ s = m.slot /\ q = m.req
        BY <2>2, <3>2, <4>1 DEF Lease, TypeOK
      <4>. QED
        BY <2>1, <4>2 DEF RedisExecutesLate, LeasesKnown, KnownTo
    <3>. QED
      BY <3>1, <3>2
  <2>. QED
    BY <2>1, <2>2 DEF RedisExecutesLate, LeasesKnown
<1>4. CASE Returns
  <2>1. ASSUME NEW t \in tasks, ReturnPrimary(t) PROVE LeasesKnown'
    <3>1. left' = Drop(Redis, t.slot, t.req) /\ \A m \in late : m.req # t.req
      BY <2>1 DEF ReturnPrimary, NoFaults
    <3>2. t.slot \in Slots /\ t.req \in Requests /\ Redis \in Stores
      BY DEF TypeOK, Stores
    <3>3. /\ left'[Redis][t.slot][t.req] = 0
          /\ \A st \in Stores, s \in Slots, q \in Requests :
                left'[st][s][q] > 0 => left[st][s][q] > 0
      BY <3>1, <3>2 DEF Drop, TypeOK
    <3>4. ASSUME NEW q \in Requests, NEW s \in Slots, Task(q, s, "primary") \in tasks,
                 q # t.req \/ s # t.slot
          PROVE  Task(q, s, "primary") \in tasks'
      BY <2>1, <3>4 DEF ReturnPrimary, Task
    <3>5. \A m \in late' : m.slot = slot'[m.req] /\ Task(m.req, m.slot, "primary") \in tasks'
      BY <2>1, <3>1, <3>4 DEF ReturnPrimary, LeasesKnown, TypeOK
    <3>6. ASSUME NEW st \in Stores, NEW s \in Slots, NEW q \in Requests, left'[st][s][q] > 0
          PROVE  st = Redis /\ s = slot'[q] /\ KnownTo(q, s)'
      <4>1. st = Redis /\ s = slot[q] /\ KnownTo(q, s)
        BY <3>3, <3>6 DEF LeasesKnown
      <4>2. q # t.req \/ s # t.slot
        BY <3>3, <3>6, <4>1
      <4>. QED
        BY <2>1, <3>4, <4>1, <4>2 DEF ReturnPrimary, KnownTo
    <3>. QED
      BY <2>1, <3>5, <3>6 DEF ReturnPrimary, LeasesKnown
  <2>2. ASSUME NEW t \in tasks, ReturnFallback(t) PROVE LeasesKnown'
    <3>1. t.slot \in Slots /\ t.req \in Requests /\ WorkerOf[t.req] \in Stores
      BY DEF TypeOK, Stores
    <3>2. \A st \in Stores, s \in Slots, q \in Requests :
             left'[st][s][q] > 0 => left[st][s][q] > 0
      BY <2>2, <3>1 DEF ReturnFallback, Drop, TypeOK
    <3>3. \A q \in Requests, s \in Slots :
             Task(q, s, "primary") \in tasks => Task(q, s, "primary") \in tasks'
      BY <2>2 DEF ReturnFallback, Task
    <3>. QED
      BY <2>2, <3>2, <3>3 DEF ReturnFallback, LeasesKnown, KnownTo, TypeOK
  <2>. QED
    BY <1>4, <2>1, <2>2 DEF Returns
<1>5. CASE Tick
  <2>1. \A st \in Stores, s \in Slots, q \in Requests :
           left'[st][s][q] > 0 => left[st][s][q] > 0
    BY <1>5 DEF Tick, Age, TypeOK
  <2>. QED
    BY <1>5, <2>1 DEF Tick, LeasesKnown, KnownTo
<1>6. CASE Reload
  BY <1>6 DEF Reload, LeasesKnown, KnownTo
<1>7. ASSUME NEW w \in Workers, Crash(w)
      PROVE  LeasesKnown'
  BY <1>7 DEF Crash, NoFaults
<1>. QED
  BY <1>1, <1>2, <1>3, <1>4, <1>5, <1>6, <1>7 DEF Next

\* Without a fault of Redis or of a worker no slot is lost: a request that has
\* ended or is between two attempts, and whose clean-up is over, has no lease.
THEOREM NoSlotIsLost ==
    ASSUME NoFaults
    PROVE  Spec => []NothingLeftBehind
<1>1. Init => LeasesKnown
  BY DEF Init, LeasesKnown, Stores
<1>2. IInv /\ LeasesKnown /\ [Next]_vars => LeasesKnown'
  BY NoFaults, KnownStep DEF IInv
<1>3. IInv /\ LeasesKnown => NothingLeftBehind
  <2>. SUFFICES ASSUME IInv, LeasesKnown, NEW r \in Requests,
                       pc[r] \in {"ready", "chosen", "over"}, TasksOf(r) = {},
                       NEW st \in Stores, NEW s \in Slots
                PROVE  left[st][s][r] = 0
    BY DEF NothingLeftBehind
  <2>1. ~KnownTo(r, s)
    BY DEF KnownTo, LeasesKnown, TasksOf, Task
  <2>2. left[st][s][r] \in 0..TTL /\ TTL \in Nat
    BY InFlightAssumption DEF IInv, TypeOK
  <2>3. ~(left[st][s][r] > 0)
    BY <2>1 DEF LeasesKnown
  <2>. QED
    BY <2>2, <2>3
<1>. QED
  BY <1>1, <1>2, <1>3, Invariance, PTL DEF Spec
=============================================================================
