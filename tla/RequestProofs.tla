---------------------------- MODULE RequestProofs ----------------------------
(***************************************************************************)
(* Proofs about what is recorded of a request.  First the request itself   *)
(* (RequestLifecycle), for any number of requests, models, endpoints and   *)
(* fallback chains: IInv is inductive, and with it each request has one    *)
(* row, one settlement and at most one attempt at each endpoint.  Then the *)
(* buffer of usage rows (UsageBuffer, as Log), for every number of rows,   *)
(* report endpoints and outages and every size of the buffer: RowsInPlace  *)
(* is inductive, and the buffer with its flushers implements UsageLedger.  *)
(* Last the stream (StreamRelay and StreamAdapters, as Stream), for every  *)
(* surface, chunk and number of chunks: its reader can follow it, and it   *)
(* is charged for what was shown (StreamInv is inductive).                 *)
(***************************************************************************)
EXTENDS RequestLifecycle, MCUsageBuffer, MCStreams,
        SequenceTheorems, FiniteSetTheorems, WellFoundedInduction, TLAPS

\* What TypeOK and AttemptsKept say of a target alone.
SoundTarget(t) ==
    /\ t \in Targets
    /\ t.endpoint \in EndpointsOf[t.model]
    /\ t.tried \subseteq EndpointsOf[t.model] /\ t.endpoint \notin t.tried
    /\ t.model \notin t.exhausted

(***************************************************************************)
(* The endpoint in hand is never one of those behind it: no two models     *)
(* share an endpoint.                                                      *)
(***************************************************************************)
LEMMA EndpointIsFresh ==
    ASSUME NEW t, SoundTarget(t)
    PROVE  t.endpoint \notin Seen(t)
BY LifecycleAssumption DEF SoundTarget, Seen, Targets

(***************************************************************************)
(* Wherever another_endpoint leads, all that was tried is behind it.       *)
(***************************************************************************)
LEMMA ElsewhereIsSound ==
    ASSUME NEW t, SoundTarget(t), NEW u \in Elsewhere(t)
    PROVE  SoundTarget(u) /\ Seen(t) \cup {t.endpoint} \subseteq Seen(u)
<1>1. CASE u \in SameModel(t)
  <2>1. PICK e \in EndpointsOf[t.model] \ Tried(t) :
                u = [t EXCEPT !.endpoint = e, !.tried = Tried(t)]
    BY <1>1 DEF SameModel
  <2>2. /\ u \in Targets /\ u.model = t.model /\ u.exhausted = t.exhausted
        /\ u.endpoint = e /\ u.tried = t.tried \cup {t.endpoint}
    BY <2>1, LifecycleAssumption DEF SoundTarget, Targets, Tried
  <2>3. SoundTarget(u)
    BY <2>1, <2>2 DEF SoundTarget, Tried
  <2> QED BY <2>2, <2>3 DEF Seen
<1>2. CASE u \in OtherModel(t)
  <2>1. PICK i \in DOMAIN Fallback[t.model] :
               /\ Fallback[t.model][i] \notin t.exhausted \cup Before(t, i)
               /\ \E e \in EndpointsOf[Fallback[t.model][i]] :
                     u = [model |-> Fallback[t.model][i], endpoint |-> e, tried |-> {},
                          exhausted |-> t.exhausted \cup Before(t, i) \cup {t.model}]
    BY <1>2 DEF OtherModel
  <2> DEFINE n == Fallback[t.model][i]
  <2>2. PICK e \in EndpointsOf[n] :
               u = [model |-> n, endpoint |-> e, tried |-> {},
                    exhausted |-> t.exhausted \cup Before(t, i) \cup {t.model}]
    BY <2>1
  <2>3. t.model \in Models /\ t.exhausted \subseteq Models /\ n \in Models /\ n # t.model
    BY LifecycleAssumption, <2>1 DEF SoundTarget, Targets
  <2>4. Before(t, i) \subseteq Models
    <3>1. Fallback[t.model] \in Seq(Models) /\ i \in 1..Len(Fallback[t.model])
      BY <2>3, LifecycleAssumption
    <3> QED BY <3>1 DEF Before
  <2>5. /\ u \in Targets /\ u.model = n /\ u.endpoint = e /\ u.tried = {}
        /\ u.exhausted = t.exhausted \cup Before(t, i) \cup {t.model}
    BY <2>2, <2>3, <2>4, LifecycleAssumption DEF Targets
  <2>6. SoundTarget(u)
    BY <2>1, <2>3, <2>5 DEF SoundTarget
  <2>7. EndpointsOf[t.model] \subseteq Seen(u)
    BY <2>5 DEF Seen
  <2> QED BY <2>5, <2>6, <2>7 DEF Seen, SoundTarget
<1> QED BY <1>1, <1>2 DEF Elsewhere

\* The target in hand is an endpoint of its model.
LEMMA TargetsAreSound ==
    ASSUME IInv, NEW r \in Requests
    PROVE  SoundTarget(target[r])
BY DEF IInv, TypeOK, AttemptsKept, SoundTarget

-----------------------------------------------------------------------------

\* The first state.
LEMMA InitIInv == Init => IInv
<1> SUFFICES ASSUME Init PROVE IInv
  OBVIOUS
<1>1. \A r \in Requests : /\ target[r] \in Targets
                          /\ target[r].endpoint \in EndpointsOf[target[r].model]
                          /\ target[r].tried = {} /\ target[r].exhausted = {}
  BY DEF Init
<1>2. TypeOK
  <2>1. IsFiniteSet(pending) /\ Cardinality(pending) = 0
    BY FS_EmptySet DEF Init
  <2>2. target \in [Requests -> Targets]
    BY DEF Init
  <2> QED BY <1>1, <2>1, <2>2, LifecycleAssumption DEF Init, TypeOK, Statuses
<1>3. SlotFollowsWork
  BY DEF Init, SlotFollowsWork
<1>4. AttemptsKept
  BY <1>1 DEF Init, AttemptsKept
<1>5. RecordsKept
  BY DEF Init, RecordsKept, RecordKept, TasksOf
<1>6. ChargesKept
  BY DEF Init, ChargesKept
<1> QED BY <1>2, <1>3, <1>4, <1>5, <1>6 DEF IInv

-----------------------------------------------------------------------------

\* The steps of a request that write no record keep the types.
LEMMA TypesMove ==
    ASSUME IInv, NEW r \in Requests, UNCHANGED Records,
           \/ Granted(r) \/ FullElsewhere(r) \/ PlanRaises(r) \/ Fails(r) \/ TryElsewhere(r)
           \/ Answered(r) \/ Opens(r) \/ HangUp(r) \/ Starts(r) \/ Unclaimed(r)
           \/ RelayEnds(r) \/ Return(r)
    PROVE  TypeOK'
<1> USE DEF IInv, Records
<1>1. TypeOK
  OBVIOUS
<1>2. \A t \in Elsewhere(target[r]) : SoundTarget(t)
  BY TargetsAreSound, ElsewhereIsSound
<1>a. CASE Granted(r)
  <2>1. sent' \in [Requests -> [Endpoints -> Nat]]
    BY <1>1, <1>a, LifecycleAssumption DEF TypeOK, Granted, Targets
  <2>2. target[r].endpoint \in Endpoints
    BY <1>1 DEF TypeOK, Targets
  <2> QED BY <1>1, <1>a, <2>1, <2>2 DEF TypeOK, Granted
<1>b. CASE FullElsewhere(r)
  BY <1>1, <1>2, <1>b DEF TypeOK, FullElsewhere, SoundTarget
<1>c. CASE PlanRaises(r)
  BY <1>1, <1>c DEF TypeOK, PlanRaises, Attempts
<1>d. CASE Fails(r)
  BY <1>1, <1>d DEF TypeOK, Fails
<1>e. CASE TryElsewhere(r)
  BY <1>1, <1>2, <1>e DEF TypeOK, TryElsewhere, SoundTarget
<1>f. CASE Answered(r)
  BY <1>1, <1>f DEF TypeOK, Answered, Statuses
<1>g. CASE Opens(r)
  BY <1>1, <1>g DEF TypeOK, Opens
<1>h. CASE HangUp(r)
  BY <1>1, <1>h DEF TypeOK, HangUp
<1>i. CASE Starts(r)
  BY <1>1, <1>i DEF TypeOK, Starts, Attempts
<1>j. CASE Unclaimed(r)
  BY <1>1, <1>j DEF TypeOK, Unclaimed, Attempts
<1>k. CASE RelayEnds(r)
  BY <1>1, <1>k DEF TypeOK, RelayEnds
<1>l. CASE Return(r)
  BY <1>1, <1>l DEF TypeOK, Return, Attempts
<1> QED BY <1>a, <1>b, <1>c, <1>d, <1>e, <1>f, <1>g, <1>h, <1>i, <1>j, <1>k, <1>l

(***************************************************************************)
(* Only the request that moves has its attempts changed.                   *)
(***************************************************************************)
LEMMA AttemptsMove ==
    ASSUME IInv, NEW r \in Requests, UNCHANGED Records,
           \/ Granted(r) \/ FullElsewhere(r) \/ PlanRaises(r) \/ Fails(r) \/ TryElsewhere(r)
           \/ Answered(r) \/ Opens(r) \/ HangUp(r) \/ Starts(r) \/ Unclaimed(r)
           \/ RelayEnds(r) \/ Return(r)
    PROVE  SlotFollowsWork' /\ AttemptsKept'
<1> DEFINE Kept(q) ==
        /\ target[q].tried \subseteq EndpointsOf[target[q].model]
        /\ target[q].endpoint \notin target[q].tried
        /\ target[q].model \notin target[q].exhausted
        /\ \A e \in Endpoints :
              /\ sent[q][e] <= 1
              /\ sent[q][e] = 1 =>
                    e \in Seen(target[q]) \/ (e = target[q].endpoint /\ pc[q] # "booking")
        /\ pc[q] \in {"calling", "releasing", "opened", "relaying", "closing"} =>
              sent[q][target[q].endpoint] = 1
<1> DEFINE Slot(q) ==
        held[q] = IF pc[q] \in {"calling", "opened", "relaying", "unclaimed"}
                  THEN target[q].endpoint ELSE NoEndpoint
<1>1. TypeOK /\ (\A q \in Requests : Kept(q) /\ Slot(q))
  BY DEF IInv, AttemptsKept, SlotFollowsWork
<1>2. /\ SoundTarget(target[r]) /\ target[r].endpoint \in Endpoints
      /\ target[r].endpoint \notin Seen(target[r])
  BY TargetsAreSound, EndpointIsFresh DEF SoundTarget, Targets
<1>3. /\ DOMAIN pc = Requests /\ DOMAIN held = Requests
      /\ DOMAIN target = Requests /\ DOMAIN sent = Requests
      /\ DOMAIN sent[r] = Endpoints
      /\ \A q \in Requests, e \in Endpoints : sent[q][e] \in Nat
  BY <1>1 DEF TypeOK
<1>4. \A q \in Requests \ {r} : Kept(q)' /\ Slot(q)'
  <2> SUFFICES ASSUME NEW q \in Requests \ {r}
               PROVE  Kept(q)' /\ Slot(q)'
    OBVIOUS
  <2>1. /\ pc'[q] = pc[q] /\ held'[q] = held[q]
        /\ target'[q] = target[q] /\ sent'[q] = sent[q]
    BY <1>3 DEF Granted, FullElsewhere, PlanRaises, Fails, TryElsewhere, Answered, Opens,
                HangUp, Starts, Unclaimed, RelayEnds, Return, Attempts
  <2>2. Kept(q) /\ Slot(q)
    BY <1>1
  <2> QED BY <2>1, <2>2 DEF Seen
<1>5. Kept(r)' /\ Slot(r)'
  <2>0. Kept(r) /\ Slot(r)
    BY <1>1
  <2>1. CASE Granted(r)
    <3> DEFINE e == target[r].endpoint
    <3>1. /\ target' = target /\ pc'[r] = "calling" /\ held'[r] = e
          /\ sent'[r] = [sent[r] EXCEPT ![e] = sent[r][e] + 1]
      BY <2>1, <1>3 DEF Granted
    <3>2. sent[r][e] = 0
      BY <2>0, <2>1, <1>2, <1>3 DEF Granted
    <3>3. \A f \in Endpoints : sent'[r][f] = IF f = e THEN 1 ELSE sent[r][f]
      BY <3>1, <3>2, <1>2, <1>3
    <3> QED BY <2>0, <3>1, <3>3, <1>2 DEF Seen
  <2>2. CASE FullElsewhere(r) \/ TryElsewhere(r)
    <3>1. PICK t \in Elsewhere(target[r]) : target' = [target EXCEPT ![r] = t]
      BY <2>2 DEF FullElsewhere, TryElsewhere
    <3>2. /\ target'[r] = t /\ pc'[r] = "booking" /\ sent'[r] = sent[r]
          /\ held[r] = NoEndpoint /\ held'[r] = NoEndpoint
      BY <2>0, <2>2, <3>1, <1>3 DEF FullElsewhere, TryElsewhere
    <3>3. SoundTarget(t) /\ Seen(target[r]) \cup {target[r].endpoint} \subseteq Seen(t)
      BY <1>2, ElsewhereIsSound
    <3> QED BY <2>0, <3>2, <3>3 DEF Seen, SoundTarget
  <2>3. CASE Fails(r) \/ Answered(r) \/ RelayEnds(r) \/ HangUp(r)
    <3>1. /\ target' = target /\ sent' = sent /\ held'[r] = NoEndpoint
          /\ \/ pc'[r] \in {"releasing", "closing"} /\ pc[r] \in {"calling", "relaying"}
             \/ pc'[r] = "hungup"
      BY <2>3, <1>3 DEF Fails, Answered, RelayEnds, HangUp
    <3> QED BY <2>0, <3>1 DEF Seen
  <2>4. CASE Opens(r) \/ Starts(r) \/ Unclaimed(r)
    <3>1. /\ target' = target /\ sent' = sent /\ held' = held
          /\ pc[r] \in {"calling", "opened"}
          /\ pc'[r] \in {"opened", "relaying", "unclaimed"}
      BY <2>4, <1>3 DEF Opens, Starts, Unclaimed, Attempts
    <3> QED BY <2>0, <3>1 DEF Seen
  <2>5. CASE PlanRaises(r) \/ Return(r)
    <3>1. /\ target' = target /\ sent' = sent /\ held' = held
          /\ pc[r] \in {"booking", "recording"} /\ pc'[r] \in {"unplanned", "over"}
      BY <2>5, <1>3 DEF PlanRaises, Return, Attempts
    <3> QED BY <2>0, <3>1 DEF Seen
  <2> QED BY <2>1, <2>2, <2>3, <2>4, <2>5
<1> QED BY <1>4, <1>5 DEF AttemptsKept, SlotFollowsWork

(***************************************************************************)
(* While a request is tried, what its record and its charge will say keeps *)
(* its ground: nothing has been recorded before the end.                   *)
(***************************************************************************)
LEMMA RecordsRest ==
    ASSUME IInv, NEW r \in Requests, UNCHANGED Records,
           \/ Granted(r) \/ FullElsewhere(r) \/ PlanRaises(r) \/ Fails(r) \/ TryElsewhere(r)
           \/ Answered(r) \/ Opens(r) \/ HangUp(r) \/ Starts(r) \/ Unclaimed(r)
           \/ RelayEnds(r) \/ Return(r)
    PROVE  RecordsKept' /\ ChargesKept'
<1>1. TypeOK /\ RecordsKept /\ ChargesKept
  BY DEF IInv
<1>2. /\ DOMAIN pc = Requests /\ DOMAIN opened = Requests /\ DOMAIN sent = Requests
      /\ opened \in [Requests -> BOOLEAN]
      /\ DOMAIN sent[r] = Endpoints
      /\ \A q \in Requests, e \in Endpoints : sent[q][e] \in Nat
  BY <1>1 DEF TypeOK
<1>3. /\ finalized' = finalized /\ pending' = pending /\ rows' = rows
      /\ quota' = quota /\ dropped' = dropped
  BY DEF Records
<1>4. \A q \in Requests \ {r} :
          pc'[q] = pc[q] /\ opened'[q] = opened[q] /\ sent'[q] = sent[q]
  BY <1>2 DEF Granted, FullElsewhere, PlanRaises, Fails, TryElsewhere, Answered, Opens,
              HangUp, Starts, Unclaimed, RelayEnds, Return, Attempts
<1>5. \/ pc[r] \notin {"recording", "over", "hungup"} /\ pc'[r] \notin {"recording", "over"}
      \/ pc[r] = "recording" /\ pc'[r] \in {"hungup", "over"}
  BY <1>2 DEF Granted, FullElsewhere, PlanRaises, Fails, TryElsewhere, Answered, Opens,
              HangUp, Starts, Unclaimed, RelayEnds, Return, Attempts
<1>6. RecordsKept'
  <2> DEFINE Blank(q) == TasksOf(q) = {} /\ rows[q] = <<>> /\ quota[q] = <<>>
             Begun(q) == \E t \in Tasks :
                            /\ TasksOf(q) = {t} /\ quota[q] = <<>>
                            /\ rows[q] = IF t.at = "row" THEN <<>> ELSE <<t.status>>
             Done(q)  == TasksOf(q) = {} /\ Len(rows[q]) = 1 /\ Len(quota[q]) = 1
  <2>1. \A q \in Requests : Blank(q)' = Blank(q) /\ Begun(q)' = Begun(q) /\ Done(q)' = Done(q)
    BY <1>3 DEF TasksOf
  <2>2. \A q \in Requests :
           \/ /\ ~finalized[q] /\ pc[q] \notin {"recording", "over"} /\ q \notin dropped
              /\ Blank(q)
           \/ /\ finalized[q] /\ pc[q] \in {"recording", "hungup", "over"}
              /\ \/ q \in dropped /\ Blank(q)
                 \/ q \notin dropped /\ Begun(q)
                 \/ q \notin dropped /\ Done(q)
    BY <1>1 DEF RecordsKept, RecordKept
  <2> HIDE DEF Blank, Begun, Done
  <2>3. \A q \in Requests :
           \/ /\ ~finalized'[q] /\ pc'[q] \notin {"recording", "over"} /\ q \notin dropped'
              /\ Blank(q)'
           \/ /\ finalized'[q] /\ pc'[q] \in {"recording", "hungup", "over"}
              /\ \/ q \in dropped' /\ Blank(q)'
                 \/ q \notin dropped' /\ Begun(q)'
                 \/ q \notin dropped' /\ Done(q)'
    BY <1>3, <1>4, <1>5, <2>1, <2>2
  <2> QED BY <2>3 DEF RecordsKept, RecordKept, Blank, Begun, Done
<1>7. /\ opened'[r] => pc'[r] \in {"opened", "relaying", "closing",
                                   "recording", "over", "unclaimed"}
      /\ opened'[r] = opened[r] \/ pc[r] = "calling"
  BY <1>1, <1>2 DEF ChargesKept, Granted, FullElsewhere, PlanRaises, Fails, TryElsewhere,
                    Answered, Opens, HangUp, Starts, Unclaimed, RelayEnds, Return, Attempts
<1>8. \A q \in Requests : NeverSent(q)' => NeverSent(q)
  <2>1. CASE Granted(r)
    <3>1. target[r].endpoint \in Endpoints
      BY <1>1 DEF TypeOK, Targets
    <3>2. sent'[r][target[r].endpoint] = sent[r][target[r].endpoint] + 1
      BY <2>1, <1>2, <3>1 DEF Granted
    <3>3. ~NeverSent(r)'
      BY <3>1, <3>2, <1>2 DEF NeverSent
    <3> QED BY <3>3, <1>4 DEF NeverSent
  <2>2. CASE ~Granted(r)
    <3>1. sent' = sent
      BY <2>2 DEF FullElsewhere, PlanRaises, Fails, TryElsewhere, Answered, Opens,
                  HangUp, Starts, Unclaimed, RelayEnds, Return, Attempts
    <3> QED BY <3>1 DEF NeverSent
  <2> QED BY <2>1, <2>2
<1>9. ChargesKept'
  <2>1. \A t \in pending : t.req \in Requests /\ FairCharge(t.req, t.status, t.charge)
    BY <1>1 DEF TypeOK, Tasks, ChargesKept
  <2>2. \A q \in Requests : opened'[q] = opened[q] \/ (TasksOf(q) = {} /\ quota[q] = <<>>)
    BY <1>1, <1>4, <1>7 DEF RecordsKept, RecordKept
  <2>3. \A t \in pending : FairCharge(t.req, t.status, t.charge)'
    BY <2>1, <2>2, <1>8 DEF FairCharge, TasksOf
  <2>4. \A q \in Requests : quota[q] # <<>> => FairCharge(q, rows[q][1], quota[q][1] = "charged")'
    BY <1>1, <1>3, <2>2, <1>8 DEF FairCharge, ChargesKept
  <2> QED BY <1>1, <1>3, <1>4, <1>7, <2>3, <2>4 DEF ChargesKept
<1> QED BY <1>6, <1>9

-----------------------------------------------------------------------------

(***************************************************************************)
(* finalize keeps everything, if what it is told to charge is fair.        *)
(***************************************************************************)
LEMMA FinalizeKeeps ==
    ASSUME IInv, NEW r \in Requests, NEW s \in Statuses, NEW charge \in BOOLEAN,
           pc[r] \in {"booking", "releasing", "hungup", "closing"},
           FairCharge(r, s, charge),
           Finalize(r, s, charge), UNCHANGED Attempts
    PROVE  IInv'
<1> DEFINE new == [req |-> r, status |-> s, charge |-> charge, at |-> "row"]
<1>1. TypeOK /\ SlotFollowsWork /\ AttemptsKept /\ RecordsKept /\ ChargesKept
  BY DEF IInv
<1>2. /\ target' = target /\ held' = held /\ retry' = retry /\ status' = status
      /\ opened' = opened /\ sent' = sent /\ rows' = rows /\ quota' = quota
      /\ finalized' = [finalized EXCEPT ![r] = TRUE]
  BY DEF Finalize, Attempts
<1>3. /\ DOMAIN pc = Requests /\ DOMAIN finalized = Requests
      /\ finalized \in [Requests -> BOOLEAN]
      /\ IsFiniteSet(pending) /\ pending \subseteq Tasks /\ Cardinality(pending) <= MaxPending
      /\ Cardinality(pending) \in Nat /\ MaxPending \in Nat
  BY <1>1, FS_CardinalityType, LifecycleAssumption DEF TypeOK
<1>4. new \in Tasks /\ new.req = r
  BY DEF Tasks
<1>5. /\ pc'[r] \in {"recording", "over"}
      /\ \A q \in Requests \ {r} : pc'[q] = pc[q] /\ finalized'[q] = finalized[q]
      /\ finalized'[r] = TRUE
  BY <1>2, <1>3 DEF Finalize
<1>6. \/ finalized[r] /\ dropped' = dropped /\ pending' = pending /\ pc'[r] = "over"
      \/ ~finalized[r] /\ dropped' = dropped \cup {r} /\ pending' = pending /\ pc'[r] = "over"
      \/ /\ ~finalized[r] /\ dropped' = dropped /\ pending' = pending \cup {new}
         /\ pc'[r] = "recording" /\ Cardinality(pending) < MaxPending
  BY <1>3 DEF Finalize
<1>7. TypeOK'
  <2>1. /\ pending' \subseteq Tasks /\ IsFiniteSet(pending')
        /\ Cardinality(pending') <= MaxPending
    <3> HIDE DEF new
    <3>1. /\ IsFiniteSet(pending \cup {new})
          /\ Cardinality(pending \cup {new})
                = IF new \in pending THEN Cardinality(pending) ELSE Cardinality(pending) + 1
      BY <1>3, FS_AddElement
    <3>2. CASE pending' = pending
      BY <1>3, <3>2
    <3>3. CASE pending' = pending \cup {new} /\ Cardinality(pending) < MaxPending
      <4>1. Cardinality(pending') <= MaxPending
        BY <1>3, <3>1, <3>3
      <4> QED BY <1>3, <1>4, <3>1, <3>3, <4>1
    <3> QED BY <1>6, <3>2, <3>3
  <2>2. dropped' \subseteq Requests
    BY <1>1, <1>6 DEF TypeOK
  <2>3. finalized' \in [Requests -> BOOLEAN]
    BY <1>2, <1>3
  <2>4. pc' \in [Requests -> {"booking", "calling", "releasing", "opened", "relaying",
                              "closing", "hungup", "recording", "over",
                              "unplanned", "unclaimed"}]
    <3>1. \/ pc' = [pc EXCEPT ![r] = "over"]
          \/ pc' = [pc EXCEPT ![r] = "recording"]
      BY Zenon DEF Finalize
    <3>2. pc \in [Requests -> {"booking", "calling", "releasing", "opened", "relaying",
                               "closing", "hungup", "recording", "over",
                               "unplanned", "unclaimed"}]
      BY <1>1 DEF TypeOK
    <3> QED BY <3>1, <3>2
  <2> QED BY <1>1, <1>2, <2>1, <2>2, <2>3, <2>4 DEF TypeOK
<1>8. SlotFollowsWork'
  BY <1>1, <1>2, <1>5 DEF SlotFollowsWork
<1>9. AttemptsKept'
  BY <1>1, <1>2, <1>5 DEF AttemptsKept, Seen
<1>10. RecordsKept'
  <2>1. \A q \in Requests : RecordKept(q)
    BY <1>1 DEF RecordsKept
  <2>2. \A q \in Requests \ {r} : TasksOf(q)' = TasksOf(q)
    BY <1>4, <1>6 DEF TasksOf
  <2>3. \A q \in Requests \ {r} : q \in dropped' <=> q \in dropped
    BY <1>6
  <2>4. ASSUME NEW q \in Requests \ {r} PROVE RecordKept(q)'
    <3>1. RecordKept(q)
      BY <2>1
    <3>2. /\ pc'[q] = pc[q] /\ finalized'[q] = finalized[q] /\ (q \in dropped' <=> q \in dropped)
          /\ rows'[q] = rows[q] /\ quota'[q] = quota[q] /\ TasksOf(q)' = TasksOf(q)
      BY <1>2, <1>5, <2>2, <2>3
    <3> QED BY <3>1, <3>2 DEF RecordKept
  <2>5. RecordKept(r)'
    <3>0. RecordKept(r)
      BY <2>1
    <3>1. CASE finalized[r]
      <4>1. TasksOf(r)' = TasksOf(r)
        BY <3>1, <1>6 DEF TasksOf
      <4> QED BY <3>0, <3>1, <4>1, <1>2, <1>5, <1>6 DEF RecordKept
    <3>2. CASE ~finalized[r] /\ pending' = pending /\ dropped' = dropped \cup {r}
      <4>1. TasksOf(r)' = TasksOf(r)
        BY <3>2 DEF TasksOf
      <4> QED BY <3>0, <3>2, <4>1, <1>2, <1>5 DEF RecordKept
    <3>3. CASE ~finalized[r] /\ pending' = pending \cup {new} /\ dropped' = dropped
      <4>1. TasksOf(r)' = TasksOf(r) \cup {new}
        BY <3>3, <1>4 DEF TasksOf
      <4>2. new.at = "row"
        OBVIOUS
      <4> HIDE DEF new
      <4> QED BY <3>0, <3>3, <4>1, <4>2, <1>2, <1>4, <1>5 DEF RecordKept
    <3> QED BY <3>1, <3>2, <3>3, <1>6
  <2> QED BY <2>4, <2>5 DEF RecordsKept
<1>11. ChargesKept'
  <2>1. \A q \in Requests : NeverSent(q)' = NeverSent(q)
    BY <1>2 DEF NeverSent
  <2>2. FairCharge(r, s, charge)'
    BY <1>2, <2>1 DEF FairCharge
  <2>3. \A t \in pending : FairCharge(t.req, t.status, t.charge)'
    <3>1. \A t \in pending : t.req \in Requests /\ FairCharge(t.req, t.status, t.charge)
      BY <1>1 DEF TypeOK, Tasks, ChargesKept
    <3> QED BY <1>2, <2>1, <3>1 DEF FairCharge
  <2>4. \A t \in pending' : FairCharge(t.req, t.status, t.charge)'
    BY <1>6, <2>2, <2>3
  <2>5. \A q \in Requests :
           quota[q] # <<>> => FairCharge(q, rows[q][1], quota[q][1] = "charged")'
    BY <1>1, <1>2, <2>1 DEF FairCharge, ChargesKept
  <2> QED BY <1>1, <1>2, <1>5, <2>4, <2>5 DEF ChargesKept
<1> QED BY <1>7, <1>8, <1>9, <1>10, <1>11 DEF IInv

\* A task is the only one of its request, whose quota has not been settled.
LEMMA TaskAlone ==
    ASSUME IInv, NEW t \in pending
    PROVE  /\ t \in Tasks /\ t.req \in Requests /\ TasksOf(t.req) = {t}
           /\ finalized[t.req] /\ pc[t.req] \in {"recording", "hungup", "over"}
           /\ t.req \notin dropped /\ quota[t.req] = <<>>
           /\ rows[t.req] = IF t.at = "row" THEN <<>> ELSE <<t.status>>
<1>1. TypeOK /\ RecordsKept
  BY DEF IInv
<1>2. t \in Tasks /\ t.req \in Requests
  BY <1>1 DEF TypeOK, Tasks
<1>3. t \in TasksOf(t.req)
  BY DEF TasksOf
<1>4. PICK u \in Tasks : /\ TasksOf(t.req) = {u} /\ quota[t.req] = <<>>
                         /\ rows[t.req] = IF u.at = "row" THEN <<>> ELSE <<u.status>>
  BY <1>1, <1>2, <1>3 DEF RecordsKept, RecordKept
<1>5. u = t
  BY <1>3, <1>4
<1>6. /\ finalized[t.req] /\ pc[t.req] \in {"recording", "hungup", "over"}
      /\ t.req \notin dropped
  BY <1>1, <1>2, <1>3 DEF RecordsKept, RecordKept
<1> QED BY <1>2, <1>4, <1>5, <1>6

\* A task of finalize writes its usage row.
LEMMA WriteRowKeeps ==
    ASSUME IInv, NEW t \in pending, WriteRow(t)
    PROVE  IInv'
<1> DEFINE r == t.req
           u == [t EXCEPT !.at = "quota"]
<1>1. TypeOK /\ SlotFollowsWork /\ AttemptsKept /\ RecordsKept /\ ChargesKept
  BY DEF IInv
<1>2. /\ pc' = pc /\ target' = target /\ held' = held /\ retry' = retry
      /\ status' = status /\ opened' = opened /\ sent' = sent
      /\ finalized' = finalized /\ quota' = quota /\ dropped' = dropped
      /\ t.at = "row" /\ pending' = (pending \ {t}) \cup {u}
      /\ rows' = [rows EXCEPT ![r] = Append(rows[r], t.status)]
  BY DEF WriteRow, Attempts
<1>3. /\ t \in Tasks /\ r \in Requests /\ TasksOf(r) = {t} /\ finalized[r]
      /\ pc[r] \in {"recording", "hungup", "over"} /\ r \notin dropped
      /\ quota[r] = <<>> /\ rows[r] = <<>>
  BY <1>2, TaskAlone
<1>4. /\ u \in Tasks /\ u.req = r /\ u.status = t.status /\ u.charge = t.charge
      /\ u.at = "quota" /\ t.status \in Statuses
  BY <1>3 DEF Tasks
<1>5. rows'[r] = <<t.status>> /\ \A q \in Requests \ {r} : rows'[q] = rows[q]
  BY <1>1, <1>2, <1>3 DEF TypeOK
<1>6. TypeOK'
  <2>1. rows' \in [Requests -> Seq(Statuses)]
    BY <1>1, <1>2, <1>3, <1>4 DEF TypeOK
  <2>2. pending' \subseteq Tasks
    BY <1>1, <1>2, <1>4 DEF TypeOK
  <2>3. IsFiniteSet(pending') /\ Cardinality(pending') <= MaxPending
    <3> HIDE DEF u
    <3>1. IsFiniteSet(pending) /\ Cardinality(pending) \in Nat /\ Cardinality(pending) <= MaxPending
      BY <1>1, FS_CardinalityType DEF TypeOK
    <3>2. IsFiniteSet(pending \ {t}) /\ Cardinality(pending \ {t}) = Cardinality(pending) - 1
      BY <3>1, FS_RemoveElement
    <3>3. /\ IsFiniteSet((pending \ {t}) \cup {u})
          /\ Cardinality((pending \ {t}) \cup {u}) \in
                {Cardinality(pending \ {t}), Cardinality(pending \ {t}) + 1}
      BY <3>2, FS_AddElement
    <3> QED BY <1>2, <3>1, <3>2, <3>3, LifecycleAssumption
  <2> QED BY <1>1, <1>2, <2>1, <2>2, <2>3 DEF TypeOK
<1>7. SlotFollowsWork'
  BY <1>1, <1>2 DEF SlotFollowsWork
<1>8. AttemptsKept'
  BY <1>1, <1>2 DEF AttemptsKept, Seen
<1>9. RecordsKept'
  <2>1. TasksOf(r)' = {u}
    <3> HIDE DEF u
    <3> QED BY <1>2, <1>3, <1>4 DEF TasksOf
  <2>2. \A q \in Requests \ {r} : TasksOf(q)' = TasksOf(q)
    <3> HIDE DEF u
    <3> QED BY <1>2, <1>3, <1>4 DEF TasksOf
  <2> HIDE DEF u
  <2>3. RecordKept(r)'
    BY <1>2, <1>3, <1>4, <1>5, <2>1 DEF RecordKept
  <2>4. ASSUME NEW q \in Requests \ {r} PROVE RecordKept(q)'
    <3>1. RecordKept(q)
      BY <1>1 DEF RecordsKept
    <3>2. /\ pc'[q] = pc[q] /\ finalized'[q] = finalized[q] /\ dropped' = dropped
          /\ rows'[q] = rows[q] /\ quota'[q] = quota[q] /\ TasksOf(q)' = TasksOf(q)
      BY <1>2, <1>5, <2>2
    <3> QED BY <3>1, <3>2 DEF RecordKept
  <2> QED BY <2>3, <2>4 DEF RecordsKept
<1>10. ChargesKept'
  <2>1. \A q \in Requests : NeverSent(q)' = NeverSent(q)
    BY <1>2 DEF NeverSent
  <2>2. \A x \in pending : FairCharge(x.req, x.status, x.charge)'
    <3>1. \A x \in pending : x.req \in Requests /\ FairCharge(x.req, x.status, x.charge)
      BY <1>1 DEF TypeOK, Tasks, ChargesKept
    <3> QED BY <1>2, <2>1, <3>1 DEF FairCharge
  <2>3. \A x \in pending' : FairCharge(x.req, x.status, x.charge)'
    <3> HIDE DEF u
    <3> QED BY <1>2, <1>4, <2>2
  <2>4. \A q \in Requests :
           quota'[q] # <<>> => FairCharge(q, rows[q][1], quota[q][1] = "charged")'
    BY <1>1, <1>2, <1>3, <1>5, <2>1 DEF FairCharge, ChargesKept
  <2> QED BY <1>1, <1>2, <2>3, <2>4 DEF ChargesKept
<1> QED BY <1>6, <1>7, <1>8, <1>9, <1>10 DEF IInv

\* A task of finalize settles the quota reservation.
LEMMA SettleQuotaKeeps ==
    ASSUME IInv, NEW t \in pending, SettleQuota(t)
    PROVE  IInv'
<1> DEFINE r == t.req
           what == IF t.charge THEN "charged" ELSE "returned"
<1>1. TypeOK /\ SlotFollowsWork /\ AttemptsKept /\ RecordsKept /\ ChargesKept
  BY DEF IInv
<1>2. /\ pc' = pc /\ target' = target /\ held' = held /\ retry' = retry
      /\ status' = status /\ opened' = opened /\ sent' = sent
      /\ finalized' = finalized /\ rows' = rows /\ dropped' = dropped
      /\ t.at = "quota" /\ pending' = pending \ {t}
      /\ quota' = [quota EXCEPT ![r] = Append(quota[r], what)]
  BY DEF SettleQuota, Attempts
<1>3. /\ t \in Tasks /\ r \in Requests /\ TasksOf(r) = {t} /\ finalized[r]
      /\ pc[r] \in {"recording", "hungup", "over"} /\ r \notin dropped
      /\ quota[r] = <<>> /\ rows[r] = <<t.status>>
  BY <1>2, TaskAlone
<1>4. /\ t.charge \in BOOLEAN /\ what \in {"charged", "returned"}
      /\ (what = "charged") = t.charge
  BY <1>3 DEF Tasks
<1> HIDE DEF what
<1>5. quota'[r] = <<what>> /\ \A q \in Requests \ {r} : quota'[q] = quota[q]
  BY <1>1, <1>2, <1>3 DEF TypeOK
<1>6. TypeOK'
  <2>1. quota' \in [Requests -> Seq({"charged", "returned"})]
    BY <1>1, <1>2, <1>3, <1>4 DEF TypeOK
  <2>2. /\ pending' \subseteq Tasks
        /\ IsFiniteSet(pending') /\ Cardinality(pending') <= MaxPending
    <3>1. /\ pending \subseteq Tasks
          /\ IsFiniteSet(pending) /\ Cardinality(pending) \in Nat /\ Cardinality(pending) <= MaxPending
      BY <1>1, FS_CardinalityType DEF TypeOK
    <3>2. IsFiniteSet(pending \ {t}) /\ Cardinality(pending \ {t}) = Cardinality(pending) - 1
      BY <3>1, FS_RemoveElement
    <3> QED BY <1>2, <3>1, <3>2, LifecycleAssumption
  <2> QED BY <1>1, <1>2, <2>1, <2>2 DEF TypeOK
<1>7. SlotFollowsWork'
  BY <1>1, <1>2 DEF SlotFollowsWork
<1>8. AttemptsKept'
  BY <1>1, <1>2 DEF AttemptsKept, Seen
<1>9. RecordsKept'
  <2>1. TasksOf(r)' = {} /\ \A q \in Requests \ {r} : TasksOf(q)' = TasksOf(q)
    BY <1>2, <1>3 DEF TasksOf
  <2>2. Len(rows'[r]) = 1 /\ Len(quota'[r]) = 1
    BY <1>2, <1>3, <1>5
  <2>3. RecordKept(r)'
    BY <1>2, <1>3, <2>1, <2>2 DEF RecordKept
  <2>4. ASSUME NEW q \in Requests \ {r} PROVE RecordKept(q)'
    <3>1. RecordKept(q)
      BY <1>1 DEF RecordsKept
    <3>2. /\ pc'[q] = pc[q] /\ finalized'[q] = finalized[q] /\ dropped' = dropped
          /\ rows'[q] = rows[q] /\ quota'[q] = quota[q] /\ TasksOf(q)' = TasksOf(q)
      BY <1>2, <1>5, <2>1
    <3> QED BY <3>1, <3>2 DEF RecordKept
  <2> QED BY <2>3, <2>4 DEF RecordsKept
<1>10. ChargesKept'
  <2>1. \A q \in Requests : NeverSent(q)' = NeverSent(q)
    BY <1>2 DEF NeverSent
  <2>2. \A x \in pending' : FairCharge(x.req, x.status, x.charge)'
    <3>1. \A x \in pending : x.req \in Requests /\ FairCharge(x.req, x.status, x.charge)
      BY <1>1 DEF TypeOK, Tasks, ChargesKept
    <3> QED BY <1>2, <2>1, <3>1 DEF FairCharge
  <2>3. FairCharge(r, rows[r][1], quota[r][1] = "charged")'
    <3>1. FairCharge(r, t.status, t.charge)
      BY <1>1 DEF ChargesKept
    <3>2. rows'[r][1] = t.status /\ (quota'[r][1] = "charged") = t.charge
      BY <1>2, <1>3, <1>4, <1>5
    <3> QED BY <1>2, <2>1, <1>3, <3>1, <3>2 DEF FairCharge
  <2>4. \A q \in Requests \ {r} :
           quota'[q] # <<>> => FairCharge(q, rows[q][1], quota[q][1] = "charged")'
    BY <1>1, <1>2, <1>5, <2>1 DEF FairCharge, ChargesKept
  <2> QED BY <1>1, <1>2, <2>2, <2>3, <2>4 DEF ChargesKept
<1> QED BY <1>6, <1>7, <1>8, <1>9, <1>10 DEF IInv

-----------------------------------------------------------------------------

\* An attempt that has been made is in `sent`.
LEMMA SentSomewhere ==
    ASSUME IInv, NEW r \in Requests, pc[r] \in {"releasing", "closing"}
    PROVE  ~NeverSent(r)
<1>1. target[r].endpoint \in Endpoints /\ sent[r][target[r].endpoint] = 1
  BY DEF IInv, TypeOK, Targets, AttemptsKept
<1> QED BY <1>1 DEF NeverSent

(***************************************************************************)
(* IInv is inductive.  The four ends of a request differ in what they ask  *)
(* finalize to charge; that it is fair is where the attempts meet the books*)
(* (an error after an attempt is charged, one before any is not).          *)
(***************************************************************************)
LEMMA Invariance == IInv /\ [Next]_vars => IInv'
<1> SUFFICES ASSUME IInv, [Next]_vars PROVE IInv'
  OBVIOUS
<1>1. CASE UNCHANGED vars
  <2>1. TypeOK' = TypeOK /\ SlotFollowsWork' = SlotFollowsWork
    BY <1>1 DEF vars, TypeOK, SlotFollowsWork
  <2>2. AttemptsKept' = AttemptsKept
    BY <1>1 DEF vars, AttemptsKept, Seen
  <2>3. RecordsKept' = RecordsKept
    BY <1>1 DEF vars, RecordsKept, RecordKept, TasksOf
  <2>4. ChargesKept' = ChargesKept
    BY <1>1 DEF vars, ChargesKept, FairCharge, NeverSent
  <2> QED BY <2>1, <2>2, <2>3, <2>4 DEF IInv
<1>2. ASSUME NEW r \in Requests,
             \/ Granted(r) \/ FullElsewhere(r) \/ PlanRaises(r) \/ Fails(r) \/ TryElsewhere(r)
             \/ Answered(r) \/ Opens(r) \/ HangUp(r) \/ Starts(r) \/ Unclaimed(r)
             \/ RelayEnds(r) \/ Return(r)
      PROVE  IInv'
  <2>1. UNCHANGED Records
    BY <1>2 DEF Granted, FullElsewhere, PlanRaises, Fails, TryElsewhere, Answered, Opens,
                HangUp, Starts, Unclaimed, RelayEnds, Return
  <2>2. TypeOK'
    BY <1>2, <2>1, TypesMove
  <2>3. SlotFollowsWork' /\ AttemptsKept'
    BY <1>2, <2>1, AttemptsMove
  <2>4. RecordsKept' /\ ChargesKept'
    BY <1>2, <2>1, RecordsRest
  <2> QED BY <2>2, <2>3, <2>4 DEF IInv
<1>3. ASSUME NEW r \in Requests, Refused(r) PROVE IInv'
  <2>1. pc[r] = "booking" /\ Finalize(r, "error", FALSE) /\ UNCHANGED Attempts
    BY <1>3 DEF Refused
  <2>2. ~opened[r]
    BY <2>1 DEF IInv, ChargesKept
  <2>3. FairCharge(r, "error", FALSE)
    BY <2>2 DEF FairCharge
  <2> QED BY <2>1, <2>3, FinalizeKeeps DEF Statuses
<1>4. ASSUME NEW r \in Requests, GiveUp(r) PROVE IInv'
  <2>1. pc[r] = "releasing" /\ Finalize(r, "error", TRUE) /\ UNCHANGED Attempts
    BY <1>4 DEF GiveUp
  <2>2. FairCharge(r, "error", TRUE)
    BY <2>1, SentSomewhere DEF FairCharge
  <2> QED BY <2>1, <2>2, FinalizeKeeps DEF Statuses
<1>5. ASSUME NEW r \in Requests, Abort(r) PROVE IInv'
  <2>1. pc[r] = "hungup" /\ Finalize(r, "aborted", TRUE) /\ UNCHANGED Attempts
    BY <1>5 DEF Abort
  <2>2. FairCharge(r, "aborted", TRUE)
    BY DEF FairCharge
  <2> QED BY <2>1, <2>2, FinalizeKeeps DEF Statuses
<1>6. ASSUME NEW r \in Requests, Close(r) PROVE IInv'
  <2>1. pc[r] = "closing" /\ Finalize(r, status[r], TRUE) /\ UNCHANGED Attempts
    BY <1>6 DEF Close
  <2>2. FairCharge(r, status[r], TRUE)
    BY <2>1, SentSomewhere DEF FairCharge
  <2>3. status[r] \in Statuses
    BY DEF IInv, TypeOK
  <2> QED BY <2>1, <2>2, <2>3, FinalizeKeeps
<1>7. ASSUME Recording PROVE IInv'
  BY <1>7, WriteRowKeeps, SettleQuotaKeeps DEF Recording
<1>8. ASSUME Terminated PROVE IInv'
  BY <1>8, <1>1 DEF Terminated
<1> QED BY <1>1, <1>2, <1>3, <1>4, <1>5, <1>6, <1>7, <1>8 DEF Next, Progress

\* IInv holds in every reachable state: what the handlers keep in their heads between two
\* awaits is true of the books.
THEOREM Inductive == Spec => []IInv
BY InitIInv, Invariance, PTL DEF Spec

(***************************************************************************)
(* Whatever path a request takes through attempts, failures and a caller   *)
(* that hangs up in any of them, it gets one row and one settlement, of    *)
(* what it was served: finalize of _RequestContext, behind every exit of   *)
(* take_slot, complete, open_stream_for and relay.                         *)
(***************************************************************************)
THEOREM EachHasOneRow == Spec => []OneRowEach
<1>1. IInv => OneRowEach
  <2> SUFFICES ASSUME IInv PROVE OneRowEach
    OBVIOUS
  <2>0. TypeOK /\ RecordsKept /\ ChargesKept
    BY DEF IInv
  <2>1. ASSUME NEW r \in Requests
        PROVE  Len(rows[r]) <= 1 /\ Len(quota[r]) <= Len(rows[r])
    <3>1. RecordKept(r) /\ rows[r] \in Seq(Statuses) /\ quota[r] \in Seq({"charged", "returned"})
      BY <2>0 DEF RecordsKept, TypeOK
    <3>2. CASE rows[r] = <<>> /\ quota[r] = <<>>
      BY <3>2
    <3>3. CASE Len(rows[r]) = 1 /\ Len(quota[r]) = 1
      BY <3>3
    <3>4. CASE \E t \in Tasks : rows[r] = <<t.status>> /\ quota[r] = <<>>
      BY <3>4
    <3> QED BY <3>1, <3>2, <3>3, <3>4 DEF RecordKept
  <2>2. ASSUME NEW r \in Requests, Settled(r)
        PROVE  IF pc[r] = "over" /\ r \notin dropped
               THEN Len(rows[r]) = 1 /\ Len(quota[r]) = 1
               ELSE rows[r] = <<>> /\ quota[r] = <<>>
    <3>1. RecordKept(r) /\ TasksOf(r) = {} /\ pc[r] \in Ended
      BY <2>0, <2>2 DEF RecordsKept, Settled, TasksOf
    <3> QED BY <3>1 DEF RecordKept, Ended
  <2>3. ChargedAsServed
    <3> SUFFICES ASSUME NEW r \in Requests, quota[r] # <<>>
                 PROVE  /\ rows[r][1] = "success" \/ opened[r] => quota[r][1] = "charged"
                        /\ NeverSent(r) => (quota[r][1] = "charged" <=> rows[r][1] = "aborted")
      BY DEF ChargedAsServed
    <3> QED BY <2>0 DEF ChargesKept, FairCharge
  <2> QED BY <2>0, <2>1, <2>2, <2>3 DEF OneRowEach, AtMostOnce, Accounted
<1> QED BY <1>1, Inductive, PTL

(***************************************************************************)
(* No endpoint is sent a request twice, whatever chain of full slots,      *)
(* failures and fallback models it goes through, and the slot it holds is  *)
(* that of the endpoint at work: another_endpoint and retarget of          *)
(* _RequestContext, the finally of complete, open_stream and relay.        *)
(***************************************************************************)
THEOREM EachIsTriedOnce == Spec => []OneTryEach
<1>1. IInv => OneTryEach
  BY DEF IInv, AttemptsKept, OneTryEach, EndpointOnce
<1> QED BY <1>1, Inductive, PTL

(***************************************************************************)
(* Once the stream has been handed over, nothing moves the request to      *)
(* another endpoint: the headers sent by stream_headers stay true.         *)
(***************************************************************************)
THEOREM HeadersStayTrue == Spec => NoSwitchOnceOpened
<1>1. IInv /\ [Next]_vars =>
          [\A r \in Requests : opened[r] => target'[r] = target[r] /\ sent'[r] = sent[r]]_vars
  <2> SUFFICES ASSUME IInv, [Next]_vars, NEW r \in Requests, opened[r]
               PROVE  target'[r] = target[r] /\ sent'[r] = sent[r]
    OBVIOUS
  <2>1. pc[r] \notin {"booking", "releasing"} /\ DOMAIN target = Requests /\ DOMAIN sent = Requests
    BY DEF IInv, ChargesKept, TypeOK
  <2>2. ASSUME NEW q \in Requests, Progress(q) \/ PlanRaises(q) \/ HangUp(q) \/ Unclaimed(q)
        PROVE  target'[r] = target[r] /\ sent'[r] = sent[r]
    BY <2>1, <2>2 DEF Progress, Granted, FullElsewhere, Refused, PlanRaises, Fails,
              TryElsewhere, GiveUp, Answered, Opens, HangUp, Abort, Starts, Unclaimed,
              RelayEnds, Close, Return, Attempts
  <2>3. ASSUME Recording PROVE target' = target /\ sent' = sent
    BY <2>3 DEF Recording, WriteRow, SettleQuota, Attempts
  <2>4. ASSUME UNCHANGED vars PROVE target' = target /\ sent' = sent
    BY <2>4 DEF vars
  <2> QED BY <2>2, <2>3, <2>4 DEF Next, Terminated
<1> QED BY <1>1, Inductive, PTL DEF Spec, NoSwitchOnceOpened

-----------------------------------------------------------------------------
(* The log of usage rows.                                                  *)

-----------------------------------------------------------------------------
(* What the sequences do to the rows in them.                              *)

\* The members of a sequence of rows.
LEMMA RangeOf ==
    ASSUME NEW s \in Seq(Rows)
    PROVE  /\ Log!Range(s) \subseteq Rows
           /\ \A x : x \in Log!Range(s) <=> \E i \in 1..Len(s) : s[i] = x
<1>. DOMAIN s = 1..Len(s) /\ \A i \in 1..Len(s) : s[i] \in Rows
  OBVIOUS
<1>. QED
  BY DEF Log!Range

\* The empty buffer.
LEMMA Empty ==
    /\ Log!Range(<<>>) = {} /\ Log!IsInjective(<<>>) /\ <<>> \in Seq(Rows) /\ Len(<<>>) = 0
BY DEF Log!Range, Log!IsInjective

\* A row appended.
LEMMA Appended ==
    ASSUME NEW s \in Seq(Rows), NEW r \in Rows
    PROVE  /\ Append(s, r) \in Seq(Rows)
           /\ Len(Append(s, r)) = Len(s) + 1
           /\ Log!Range(Append(s, r)) = Log!Range(s) \cup {r}
           /\ Log!IsInjective(s) /\ r \notin Log!Range(s) => Log!IsInjective(Append(s, r))
<1>1. /\ Append(s, r) \in Seq(Rows)
      /\ Len(Append(s, r)) = Len(s) + 1 /\ Len(s) \in Nat
      /\ \A i \in 1..Len(s) : Append(s, r)[i] = s[i]
      /\ Append(s, r)[Len(s) + 1] = r
  OBVIOUS
<1>2. DOMAIN s = 1..Len(s) /\ DOMAIN Append(s, r) = 1..(Len(s) + 1)
  BY <1>1
<1>3. Log!Range(Append(s, r)) = Log!Range(s) \cup {r}
  BY <1>1, <1>2 DEF Log!Range
<1>4. ASSUME Log!IsInjective(s), r \notin Log!Range(s)
      PROVE  Log!IsInjective(Append(s, r))
  BY <1>1, <1>2, <1>4 DEF Log!Range, Log!IsInjective
<1>. QED
  BY <1>1, <1>3, <1>4

\* A batch put back in front of the buffer.
LEMMA Joined ==
    ASSUME NEW s \in Seq(Rows), NEW t \in Seq(Rows)
    PROVE  /\ s \o t \in Seq(Rows)
           /\ Len(s \o t) = Len(s) + Len(t)
           /\ Log!Range(s \o t) = Log!Range(s) \cup Log!Range(t)
           /\ Log!IsInjective(s) /\ Log!IsInjective(t) /\ Log!Range(s) \cap Log!Range(t) = {}
                => Log!IsInjective(s \o t)
<1>. DEFINE u == s \o t
<1>1. /\ u \in Seq(Rows) /\ Len(u) = Len(s) + Len(t)
      /\ \A i \in 1..(Len(s) + Len(t)) : u[i] = IF i <= Len(s) THEN s[i] ELSE t[i - Len(s)]
  BY ConcatProperties
<1>2. /\ Len(s) \in Nat /\ Len(t) \in Nat
      /\ DOMAIN s = 1..Len(s) /\ DOMAIN t = 1..Len(t) /\ DOMAIN u = 1..(Len(s) + Len(t))
  BY <1>1
<1>. HIDE DEF u
<1>3. Log!Range(u) = Log!Range(s) \cup Log!Range(t)
  <2>1. ASSUME NEW x \in Log!Range(u) PROVE x \in Log!Range(s) \cup Log!Range(t)
    <3>1. PICK i \in 1..(Len(s) + Len(t)) : u[i] = x
      BY <1>1, <2>1, RangeOf
    <3>2. CASE i <= Len(s)
      BY <1>1, <1>2, <3>1, <3>2 DEF Log!Range
    <3>3. CASE ~(i <= Len(s))
      <4>1. i - Len(s) \in 1..Len(t) /\ x = t[i - Len(s)]
        BY <1>1, <1>2, <3>1, <3>3
      <4>. QED
        BY <1>2, <4>1 DEF Log!Range
    <3>. QED
      BY <3>2, <3>3
  <2>2. ASSUME NEW x \in Log!Range(s) PROVE x \in Log!Range(u)
    <3>1. PICK i \in 1..Len(s) : s[i] = x
      BY <2>2, RangeOf
    <3>2. i \in 1..(Len(s) + Len(t)) /\ u[i] = x
      BY <1>1, <1>2, <3>1
    <3>. QED
      BY <1>2, <3>2 DEF Log!Range
  <2>3. ASSUME NEW x \in Log!Range(t) PROVE x \in Log!Range(u)
    <3>1. PICK i \in 1..Len(t) : t[i] = x
      BY <2>3, RangeOf
    <3>2. /\ i + Len(s) \in 1..(Len(s) + Len(t))
          /\ ~(i + Len(s) <= Len(s)) /\ (i + Len(s)) - Len(s) = i
      BY <1>2
    <3>3. u[i + Len(s)] = t[(i + Len(s)) - Len(s)]
      BY <1>1, <3>2
    <3>4. u[i + Len(s)] = x
      BY <3>1, <3>2, <3>3
    <3>. QED
      BY <1>2, <3>2, <3>4 DEF Log!Range
  <2>. QED
    BY <2>1, <2>2, <2>3
<1>4. ASSUME Log!IsInjective(s), Log!IsInjective(t), Log!Range(s) \cap Log!Range(t) = {}
      PROVE  Log!IsInjective(u)
  <2>1. \A i \in 1..Len(s) : s[i] \in Log!Range(s)
    BY <1>2 DEF Log!Range
  <2>2. \A i \in 1..Len(t) : t[i] \in Log!Range(t)
    BY <1>2 DEF Log!Range
  <2>. SUFFICES ASSUME NEW i \in 1..(Len(s) + Len(t)), NEW j \in 1..(Len(s) + Len(t)), u[i] = u[j]
                PROVE  i = j
    BY <1>2 DEF Log!IsInjective
  <2>3. CASE i <= Len(s) /\ j <= Len(s)
    BY <1>1, <1>2, <1>4, <2>3 DEF Log!IsInjective
  <2>4. CASE ~(i <= Len(s)) /\ ~(j <= Len(s))
    <3>1. i - Len(s) \in 1..Len(t) /\ j - Len(s) \in 1..Len(t)
      BY <1>2, <2>4
    <3>2. t[i - Len(s)] = t[j - Len(s)]
      BY <1>1, <2>4
    <3>3. i - Len(s) = j - Len(s)
      BY <1>2, <1>4, <3>1, <3>2 DEF Log!IsInjective
    <3>. QED
      BY <1>2, <3>3
  <2>5. CASE i <= Len(s) /\ ~(j <= Len(s))
    <3>1. i \in 1..Len(s) /\ j - Len(s) \in 1..Len(t) /\ s[i] = t[j - Len(s)]
      BY <1>1, <1>2, <2>5
    <3>. QED
      BY <1>4, <2>1, <2>2, <3>1
  <2>6. CASE ~(i <= Len(s)) /\ j <= Len(s)
    <3>1. j \in 1..Len(s) /\ i - Len(s) \in 1..Len(t) /\ s[j] = t[i - Len(s)]
      BY <1>1, <1>2, <2>6
    <3>. QED
      BY <1>4, <2>1, <2>2, <3>1
  <2>. QED
    BY <2>3, <2>4, <2>5, <2>6
<1>. QED
  BY <1>1, <1>3, <1>4 DEF u

\* A buffer cut in two.
LEMMA Parted ==
    ASSUME NEW s \in Seq(Rows), NEW k \in 0..Len(s)
    PROVE  LET a == SubSeq(s, 1, k)
               b == SubSeq(s, k + 1, Len(s))
           IN  /\ a \in Seq(Rows) /\ b \in Seq(Rows) /\ Len(a) = k
               /\ Log!Range(a) \cup Log!Range(b) = Log!Range(s)
               /\ Log!IsInjective(s) => /\ Log!IsInjective(a) /\ Log!IsInjective(b)
                                    /\ Log!Range(a) \cap Log!Range(b) = {}
<1>. DEFINE a == SubSeq(s, 1, k)
            b == SubSeq(s, k + 1, Len(s))
<1>1. Len(s) \in Nat /\ k \in Nat /\ k <= Len(s) /\ DOMAIN s = 1..Len(s)
      /\ \A i \in 1..Len(s) : s[i] \in Rows
  OBVIOUS
<1>2. a \in Seq(Rows) /\ Len(a) = k /\ \A i \in 1..k : a[i] = s[i]
  <2>1. \A i \in 1..k : s[i] \in Rows
    BY <1>1
  <2>. QED
    BY <1>1, <2>1, SubSeqProperties
<1>3. b \in Seq(Rows) /\ Len(b) = Len(s) - k /\ \A i \in 1..(Len(s) - k) : b[i] = s[k + i]
  <2>1. \A i \in (k + 1)..Len(s) : s[i] \in Rows
    BY <1>1
  <2>2. k + 1 \in Int /\ Len(s) \in Int
    BY <1>1
  <2>3. /\ SubSeq(s, k + 1, Len(s)) \in Seq(Rows)
        /\ Len(SubSeq(s, k + 1, Len(s))) = IF k + 1 <= Len(s) THEN Len(s) - (k + 1) + 1 ELSE 0
        /\ \A i \in 1..(Len(s) - (k + 1) + 1) : SubSeq(s, k + 1, Len(s))[i] = s[(k + 1) + i - 1]
    BY <2>1, <2>2, SubSeqProperties
  <2>4. \A i \in 1..(Len(s) - k) : (k + 1) + i - 1 = k + i /\ i \in 1..(Len(s) - (k + 1) + 1)
    BY <1>1
  <2>5. CASE k + 1 <= Len(s)
    BY <1>1, <2>3, <2>4, <2>5
  <2>6. CASE ~(k + 1 <= Len(s))
    <3>1. k = Len(s) /\ Len(s) - k = 0
      <4>1. ASSUME NEW m \in Nat, NEW n \in Nat, n <= m, ~(n + 1 <= m)
            PROVE  n = m /\ m - n = 0
        BY <4>1
      <4>. QED
        BY <1>1, <2>6, <4>1
    <3>. QED
      BY <2>3, <2>4, <2>6, <3>1
  <2>. QED
    BY <2>5, <2>6
<1>. HIDE DEF a, b
<1>4. DOMAIN a = 1..k /\ DOMAIN b = 1..(Len(s) - k)
  BY <1>2, <1>3
<1>5. \A x : x \in Log!Range(a) <=> \E i \in 1..k : s[i] = x
  BY <1>2, RangeOf
<1>6. \A x : x \in Log!Range(b) <=> \E i \in (k + 1)..Len(s) : s[i] = x
  <2>1. ASSUME NEW x, x \in Log!Range(b) PROVE \E i \in (k + 1)..Len(s) : s[i] = x
    <3>1. PICK i \in 1..(Len(s) - k) : b[i] = x
      BY <1>3, <2>1, RangeOf
    <3>2. k + i \in (k + 1)..Len(s) /\ s[k + i] = x
      BY <1>1, <1>3, <3>1
    <3>. QED
      BY <3>2
  <2>2. ASSUME NEW i \in (k + 1)..Len(s) PROVE s[i] \in Log!Range(b)
    <3>1. i - k \in 1..(Len(s) - k) /\ k + (i - k) = i
      BY <1>1
    <3>2. b[i - k] = s[i]
      BY <1>3, <3>1
    <3>. QED
      BY <1>4, <3>1, <3>2 DEF Log!Range
  <2>. QED
    BY <2>1, <2>2
<1>7. Log!Range(a) \cup Log!Range(b) = Log!Range(s)
  <2>1. \A x : x \in Log!Range(s) <=> \E i \in 1..Len(s) : s[i] = x
    BY RangeOf
  <2>2. \A i : i \in 1..Len(s) <=> i \in 1..k \/ i \in (k + 1)..Len(s)
    BY <1>1
  <2>. QED
    BY <1>5, <1>6, <2>1, <2>2
<1>8. ASSUME Log!IsInjective(s)
      PROVE  Log!IsInjective(a) /\ Log!IsInjective(b) /\ Log!Range(a) \cap Log!Range(b) = {}
  <2>1. \A i, j \in 1..Len(s) : s[i] = s[j] => i = j
    BY <1>1, <1>8 DEF Log!IsInjective
  <2>2. Log!IsInjective(a)
    BY <1>1, <1>2, <1>4, <2>1 DEF Log!IsInjective
  <2>3. Log!IsInjective(b)
    <3>. SUFFICES ASSUME NEW i \in 1..(Len(s) - k), NEW j \in 1..(Len(s) - k), b[i] = b[j]
                  PROVE  i = j
      BY <1>4 DEF Log!IsInjective
    <3>1. k + i \in 1..Len(s) /\ k + j \in 1..Len(s) /\ s[k + i] = s[k + j]
      BY <1>1, <1>3
    <3>2. k + i = k + j
      BY <2>1, <3>1
    <3>. QED
      BY <1>1, <3>2
  <2>4. Log!Range(a) \cap Log!Range(b) = {}
    <3>. SUFFICES ASSUME NEW x \in Log!Range(a), x \in Log!Range(b) PROVE FALSE
      OBVIOUS
    <3>1. PICK i \in 1..k : s[i] = x
      BY <1>5
    <3>2. PICK j \in (k + 1)..Len(s) : s[j] = x
      BY <1>6
    <3>. QED
      BY <1>1, <2>1, <3>1, <3>2
  <2>. QED
    BY <2>2, <2>3, <2>4
<1>. QED
  BY <1>2, <1>3, <1>7, <1>8 DEF a, b

(***************************************************************************)
(* The rows from position p on are the row at p and those behind it.       *)
(***************************************************************************)
LEMMA Shifted ==
    ASSUME NEW s \in Seq(Rows), NEW p \in 1..Len(s)
    PROVE  LET now == SubSeq(s, p, Len(s))
               next == SubSeq(s, p + 1, Len(s))
           IN  /\ now \in Seq(Rows) /\ next \in Seq(Rows) /\ s[p] \in Rows
               /\ Log!Range(now) = {s[p]} \cup Log!Range(next)
               /\ Log!IsInjective(now) => Log!IsInjective(next) /\ s[p] \notin Log!Range(next)
<1>. DEFINE now == SubSeq(s, p, Len(s))
            next == SubSeq(s, p + 1, Len(s))
<1>1. Len(s) \in Nat /\ p \in Nat /\ 1 <= p /\ p <= Len(s)
      /\ \A i \in 1..Len(s) : s[i] \in Rows
  OBVIOUS
<1>2. /\ now \in Seq(Rows) /\ Len(now) = Len(s) - p + 1
      /\ \A i \in 1..(Len(s) - p + 1) : now[i] = s[p + i - 1]
  <2>1. \A i \in p..Len(s) : s[i] \in Rows
    BY <1>1
  <2>. QED
    BY <1>1, <2>1, SubSeqProperties
<1>3. /\ next \in Seq(Rows) /\ Len(next) = Len(s) - p
      /\ \A i \in 1..(Len(s) - p) : next[i] = s[p + i]
  <2>1. \A i \in (p + 1)..Len(s) : s[i] \in Rows
    BY <1>1
  <2>. QED
    BY <1>1, <2>1, SubSeqProperties
<1>4. s[p] \in Rows
  BY <1>1
<1>. HIDE DEF now, next
<1>5. /\ now[1] = s[p] /\ 1 \in 1..Len(now)
      /\ \A i \in 1..Len(next) : i + 1 \in 1..Len(now) /\ now[i + 1] = next[i]
      /\ \A i \in 1..Len(now) : i = 1 \/ (i - 1 \in 1..Len(next) /\ now[i] = next[i - 1])
  <2>1. now[1] = s[p] /\ 1 \in 1..Len(now)
    BY <1>1, <1>2
  <2>2. ASSUME NEW i \in 1..Len(next)
        PROVE  i + 1 \in 1..Len(now) /\ now[i + 1] = next[i]
    <3>1. i + 1 \in 1..(Len(s) - p + 1) /\ p + (i + 1) - 1 = p + i
      BY <1>1, <1>3
    <3>. QED
      BY <1>2, <1>3, <3>1
  <2>3. \A i \in 1..Len(now) : i = 1 \/ (i - 1 \in 1..Len(next) /\ now[i] = next[i - 1])
    <3>. TAKE i \in 1..Len(now)
    <3>1. CASE i = 1
      BY <3>1, Zenon
    <3>2. CASE i # 1
      <4>1. i - 1 \in 1..(Len(s) - p) /\ p + (i - 1) = p + i - 1 /\ i \in 1..(Len(s) - p + 1)
        BY <1>1, <1>2, <3>2
      <4>. QED
        BY <1>2, <1>3, <4>1
    <3>. QED
      BY <3>1, <3>2
  <2>4. \A i \in 1..Len(next) : i + 1 \in 1..Len(now) /\ now[i + 1] = next[i]
    BY <2>2
  <2>. QED
    BY <2>1, <2>3, <2>4
<1>6. DOMAIN now = 1..Len(now) /\ DOMAIN next = 1..Len(next)
  BY <1>2, <1>3
<1>7. Log!Range(now) = {s[p]} \cup Log!Range(next)
  <2>1. ASSUME NEW x \in Log!Range(now) PROVE x \in {s[p]} \cup Log!Range(next)
    <3>1. PICK i \in 1..Len(now) : now[i] = x
      BY <1>2, <2>1, RangeOf
    <3>2. CASE i = 1
      BY <1>5, <3>1, <3>2
    <3>3. CASE i # 1
      BY <1>5, <1>6, <3>1, <3>3 DEF Log!Range
    <3>. QED
      BY <3>2, <3>3
  <2>2. s[p] \in Log!Range(now)
    BY <1>5, <1>6 DEF Log!Range
  <2>3. ASSUME NEW x \in Log!Range(next) PROVE x \in Log!Range(now)
    <3>1. PICK i \in 1..Len(next) : next[i] = x
      BY <1>3, <2>3, RangeOf
    <3>. QED
      BY <1>5, <1>6, <3>1 DEF Log!Range
  <2>. QED
    BY <2>1, <2>2, <2>3
<1>8. ASSUME Log!IsInjective(now)
      PROVE  Log!IsInjective(next) /\ s[p] \notin Log!Range(next)
  <2>1. Log!IsInjective(next)
    <3>. SUFFICES ASSUME NEW i \in 1..Len(next), NEW j \in 1..Len(next), next[i] = next[j]
                  PROVE  i = j
      BY <1>6 DEF Log!IsInjective
    <3>1. i + 1 \in DOMAIN now /\ j + 1 \in DOMAIN now /\ now[i + 1] = now[j + 1]
      BY <1>5, <1>6
    <3>2. i + 1 = j + 1
      BY <1>8, <3>1 DEF Log!IsInjective
    <3>. QED
      BY <1>3, <3>2
  <2>2. s[p] \notin Log!Range(next)
    <3>. SUFFICES ASSUME NEW i \in 1..Len(next), next[i] = s[p] PROVE FALSE
      BY <1>3, RangeOf
    <3>1. i + 1 \in DOMAIN now /\ 1 \in DOMAIN now /\ now[i + 1] = now[1]
      BY <1>5, <1>6
    <3>2. i + 1 = 1
      BY <1>8, <3>1 DEF Log!IsInjective
    <3>. QED
      BY <1>3, <3>2
  <2>. QED
    BY <2>1, <2>2
<1>. QED
  BY <1>2, <1>3, <1>4, <1>7, <1>8 DEF now, next

-----------------------------------------------------------------------------
(* What a flusher has in its hands.                                        *)

Hand(f) == Log!Range(Log!Remaining(f))

\* What a flusher holds, by the stage it is at.
LEMMA Hands ==
    ASSUME Log!TypeOK, NEW f \in Log!Flushers
    PROVE  /\ Log!Remaining(f) \in Seq(Rows) /\ Hand(f) \subseteq Rows
           /\ mode[f] = "idle" => Log!Remaining(f) = <<>> /\ Hand(f) = {}
           /\ mode[f] = "batch" => Log!Remaining(f) = batch[f] /\ batch[f] \in Seq(Rows)
           /\ mode[f] = "rows" => at[f] \in 1..Len(batch[f]) /\ batch[f] \in Seq(Rows)
<1>1. /\ batch[f] \in Seq(Rows) /\ mode[f] \in {"idle", "batch", "rows"}
      /\ mode[f] = "idle" <=> batch[f] = <<>>
      /\ mode[f] = "rows" => at[f] \in 1..Len(batch[f])
      /\ mode[f] # "rows" => at[f] = 1
  BY DEF Log!TypeOK
<1>2. CASE mode[f] = "rows"
  <2>1. Log!Remaining(f) \in Seq(Rows)
    BY <1>1, <1>2, Shifted DEF Log!Remaining
  <2>. QED
    BY <1>1, <1>2, <2>1, RangeOf DEF Hand
<1>3. CASE mode[f] # "rows"
  <2>1. Log!Remaining(f) = batch[f]
    BY <1>1, <1>3, SubSeqFull DEF Log!Remaining
  <2>. QED
    BY <1>1, <1>3, <2>1, RangeOf, Empty DEF Hand
<1>. QED
  BY <1>2, <1>3

\* What waits is in the buffer or in a hand.
LEMMA InMemory == Log!Waiting = Log!Range(buffer) \cup UNION {Hand(f) : f \in Log!Flushers}
BY DEF Log!Waiting, Hand

(***************************************************************************)
(* What a step leaves in the hands of the flushers that it does not touch. *)
(***************************************************************************)
Untouched(f) == batch'[f] = batch[f] /\ at'[f] = at[f] /\ mode'[f] = mode[f]

\* A flusher whose variables stand still holds what it held.
LEMMA UntouchedKeeps ==
    ASSUME NEW f \in Log!Flushers, Untouched(f)
    PROVE  Log!Remaining(f)' = Log!Remaining(f) /\ Hand(f)' = Hand(f)
BY DEF Untouched, Log!Remaining, Hand

HandsTypeOK ==
    /\ mode \in [Log!Flushers -> {"idle", "batch", "rows"}]
    /\ batch \in [Log!Flushers -> Seq(Rows)]
    /\ at \in [Log!Flushers -> Nat]
    /\ \A f \in Log!Flushers :
          /\ mode[f] = "idle" <=> batch[f] = << >>
          /\ at[f] \in IF mode[f] = "rows" THEN 1..Len(batch[f]) ELSE {1}

\* f has nothing in its hands any more.
LEMMA IdleKeeps ==
    ASSUME Log!TypeOK, NEW f \in Log!Flushers, Log!Idle(f)
    PROVE  /\ HandsTypeOK'
           /\ Log!Remaining(f)' = <<>> /\ Hand(f)' = {}
           /\ \A g \in Log!Flushers \ {f} : Untouched(g)
<1>1. mode'[f] = "idle" /\ batch'[f] = <<>> /\ at'[f] = 1
  BY DEF Log!TypeOK, Log!Idle
<1>2. \A g \in Log!Flushers \ {f} : Untouched(g)
  BY DEF Log!TypeOK, Log!Idle, Untouched
<1>3. HandsTypeOK'
  <2>1. /\ mode' \in [Log!Flushers -> {"idle", "batch", "rows"}]
        /\ batch' \in [Log!Flushers -> Seq(Rows)] /\ at' \in [Log!Flushers -> Nat]
    BY Empty DEF Log!TypeOK, Log!Idle
  <2>2. \A g \in Log!Flushers : /\ mode'[g] = "idle" <=> batch'[g] = << >>
                            /\ at'[g] \in IF mode'[g] = "rows" THEN 1..Len(batch'[g]) ELSE {1}
    BY <1>1, <1>2 DEF Log!TypeOK, Untouched
  <2>. QED
    BY <2>1, <2>2 DEF HandsTypeOK
<1>4. Log!Remaining(f)' = <<>>
  BY <1>1, Empty, SubSeqEmpty DEF Log!Remaining
<1>. QED
  BY <1>2, <1>3, <1>4, Empty DEF Hand

\* f is one row further.
LEMMA NextRowKeeps ==
    ASSUME Log!TypeOK, NEW f \in Log!Flushers, mode[f] = "rows", Log!NextRow(f)
    PROVE  /\ HandsTypeOK'
           /\ Log!Row(f) \in Rows /\ Hand(f) = {Log!Row(f)} \cup Hand(f)'
           /\ Log!IsInjective(Log!Remaining(f)) =>
                 Log!IsInjective(Log!Remaining(f)') /\ Log!Row(f) \notin Hand(f)'
           /\ \A g \in Log!Flushers \ {f} : Untouched(g)
<1>. DEFINE s == batch[f]
            p == at[f]
<1>1. s \in Seq(Rows) /\ p \in 1..Len(s) /\ Log!Remaining(f) = SubSeq(s, p, Len(s)) /\ Log!Row(f) = s[p]
  BY Hands DEF Log!Remaining, Log!Row
<1>2. /\ SubSeq(s, p + 1, Len(s)) \in Seq(Rows) /\ s[p] \in Rows
      /\ Log!Range(SubSeq(s, p, Len(s))) = {s[p]} \cup Log!Range(SubSeq(s, p + 1, Len(s)))
      /\ Log!IsInjective(SubSeq(s, p, Len(s))) =>
            Log!IsInjective(SubSeq(s, p + 1, Len(s))) /\ s[p] \notin Log!Range(SubSeq(s, p + 1, Len(s)))
  BY <1>1, Shifted
<1>3. Log!Remaining(f)' = SubSeq(s, p + 1, Len(s)) /\ HandsTypeOK' /\ \A g \in Log!Flushers \ {f} : Untouched(g)
  <2>1. CASE p = Len(s)
    <3>1. Log!Idle(f)
      BY <2>1 DEF Log!NextRow
    <3>2. SubSeq(s, p + 1, Len(s)) = <<>>
      BY <1>1, <2>1, SubSeqEmpty
    <3>. QED
      BY <3>1, <3>2, IdleKeeps
  <2>2. CASE p # Len(s)
    <3>1. at' = [at EXCEPT ![f] = p + 1] /\ mode' = mode /\ batch' = batch
      BY <2>2 DEF Log!NextRow
    <3>2. p + 1 \in 1..Len(s) /\ p + 1 \in Nat
      BY <1>1, <2>2
    <3>3. at'[f] = p + 1 /\ \A g \in Log!Flushers \ {f} : at'[g] = at[g]
      BY <3>1 DEF Log!TypeOK
    <3>4. HandsTypeOK'
      <4>1. at' \in [Log!Flushers -> Nat]
        BY <3>1, <3>2 DEF Log!TypeOK
      <4>. QED
        BY <3>1, <3>2, <3>3, <4>1 DEF Log!TypeOK, HandsTypeOK
    <3>5. Log!Remaining(f)' = SubSeq(s, p + 1, Len(s))
      BY <3>1, <3>3 DEF Log!Remaining
    <3>. QED
      BY <3>1, <3>3, <3>4, <3>5 DEF Untouched
  <2>. QED
    BY <2>1, <2>2
<1>. HIDE DEF s, p
<1>. QED
  BY <1>1, <1>2, <1>3 DEF Hand

\* f gives its rows back, as far as there is room.
LEMMA PutBackKeeps ==
    ASSUME Log!TypeOK, Log!BufferBounded, NEW f \in Log!Flushers,
           NEW records \in Seq(Rows), records = Log!Remaining(f), Log!PutBack(f, records),
           Log!IsInjective(buffer), Log!IsInjective(records), Log!Range(buffer) \cap Hand(f) = {}
    PROVE  /\ HandsTypeOK' /\ buffer' \in Seq(Rows) /\ Log!BufferBounded'
           /\ Log!IsInjective(buffer') /\ Log!Remaining(f)' = <<>> /\ Hand(f)' = {}
           /\ \A g \in Log!Flushers \ {f} : Untouched(g)
           /\ \E D \in SUBSET Hand(f) :
                 /\ discarded' = discarded \cup D
                 /\ D \cap Log!Range(buffer') = {}
                 /\ D \cup Log!Range(buffer') = Log!Range(buffer) \cup Hand(f)
<1>. DEFINE room == IF Len(buffer) < MaxBuffer THEN MaxBuffer - Len(buffer) ELSE 0
            keep == IF room < Len(records) THEN room ELSE Len(records)
            a == SubSeq(records, 1, keep)
            b == SubSeq(records, keep + 1, Len(records))
<1>1. /\ buffer' = a \o buffer /\ discarded' = discarded \cup Log!Range(b) /\ Log!Idle(f)
  BY DEF Log!PutBack
<1>2. buffer \in Seq(Rows) /\ Len(buffer) \in Nat /\ Len(records) \in Nat /\ MaxBuffer \in Nat
      /\ Len(buffer) <= MaxBuffer
  BY UsageAssumption DEF Log!UsageKnown, Log!TypeOK, Log!BufferBounded
<1>3. keep \in 0..Len(records) /\ keep + Len(buffer) <= MaxBuffer
  BY <1>2
<1>. HIDE DEF keep
<1>4. /\ a \in Seq(Rows) /\ b \in Seq(Rows) /\ Len(a) = keep
      /\ Log!Range(a) \cup Log!Range(b) = Log!Range(records)
      /\ Log!IsInjective(a) /\ Log!Range(a) \cap Log!Range(b) = {}
  BY <1>3, Parted
<1>5. Log!Range(records) = Hand(f)
  BY DEF Hand
<1>. HIDE DEF a, b
<1>6. /\ a \o buffer \in Seq(Rows) /\ Len(a \o buffer) = keep + Len(buffer)
      /\ Log!Range(a \o buffer) = Log!Range(a) \cup Log!Range(buffer)
      /\ Log!IsInjective(a \o buffer)
  <2>1. Log!Range(a) \cap Log!Range(buffer) = {}
    BY <1>4, <1>5
  <2>. QED
    BY <1>2, <1>4, <2>1, Joined
<1>7. Log!BufferBounded'
  BY <1>1, <1>3, <1>6 DEF Log!BufferBounded
<1>8. /\ Log!Range(b) \in SUBSET Hand(f)
      /\ Log!Range(b) \cap Log!Range(buffer') = {}
      /\ Log!Range(b) \cup Log!Range(buffer') = Log!Range(buffer) \cup Hand(f)
  BY <1>1, <1>4, <1>5, <1>6
<1>9. HandsTypeOK' /\ Log!Remaining(f)' = <<>> /\ Hand(f)' = {}
      /\ \A g \in Log!Flushers \ {f} : Untouched(g)
  BY <1>1, IdleKeeps
<1>. QED
  BY <1>1, <1>6, <1>7, <1>8, <1>9

-----------------------------------------------------------------------------
(* What a step of one flusher does to the rows, whichever it is: it moves  *)
(* some between its hands and the buffer, or out of memory; those it has   *)
(* written, refused and dropped are among them.                            *)

Moves(f) ==
    /\ \A g \in Log!Flushers \ {f} : Untouched(g)
    /\ Log!IsInjective(buffer') /\ Log!IsInjective(Log!Remaining(f)')
    /\ Log!Range(buffer') \cap Hand(f)' = {}
    /\ Log!Range(buffer') \cup Hand(f)' \subseteq Log!Range(buffer) \cup Hand(f)

Out(f) == (Log!Range(buffer) \cup Hand(f)) \ (Log!Range(buffer') \cup Hand(f)')

Settles(f, S, R, D) ==
    /\ S \subseteq Hand(f) /\ R \subseteq Out(f) /\ D \subseteq Out(f)
    /\ fresh' = fresh
    /\ stored' = stored \cup S /\ rejected' = rejected \cup R /\ discarded' = discarded \cup D
    /\ R \subseteq Bad \cup stored
    /\ answerLost => answerLost'
    /\ ~answerLost' => S \subseteq Out(f) /\ S \cap (R \cup D) = {}

Sound == Log!OnePlaceEach /\ Log!OnlyTheGuiltyRejected

(***************************************************************************)
(* Such a step keeps every row in its place.  It settles rows that were in *)
(* memory, and no row comes into memory.                                   *)
(***************************************************************************)
LEMMA FlusherStep ==
    ASSUME Sound, NEW f \in Log!Flushers, Moves(f), NEW S, NEW R, NEW D, Settles(f, S, R, D)
    PROVE  /\ Sound'
           /\ Log!Waiting \ Log!Waiting' = Out(f) /\ Log!Waiting' \subseteq Log!Waiting
           /\ S \cup R \cup D \subseteq Log!Waiting
<1>. DEFINE B == Log!Range(buffer)
            C == Log!Range(buffer')
<1>1. \A g \in Log!Flushers \ {f} : Log!Remaining(g)' = Log!Remaining(g) /\ Hand(g)' = Hand(g)
  BY UntouchedKeeps DEF Moves
<1>2. /\ \A g \in Log!Flushers : Log!IsInjective(Log!Remaining(g)) /\ B \cap Hand(g) = {}
      /\ \A g \in Log!Flushers, h \in Log!Flushers : g # h => Hand(g) \cap Hand(h) = {}
  BY DEF Sound, Log!OnePlaceEach, Hand
<1>3. /\ Log!IsInjective(buffer') /\ Log!IsInjective(Log!Remaining(f)') /\ C \cap Hand(f)' = {}
      /\ C \cup Hand(f)' \subseteq B \cup Hand(f)
  BY DEF Moves
<1>4. /\ Log!Waiting = B \cup UNION {Hand(g) : g \in Log!Flushers}
      /\ Log!Waiting' = C \cup UNION {Hand(g)' : g \in Log!Flushers}
  <2>1. Log!Waiting' = Log!Range(buffer') \cup UNION {Hand(g)' : g \in Log!Flushers}
    BY DEF Log!Waiting, Hand, Log!Range
  <2>. QED
    BY <2>1, InMemory
<1>5. Log!Waiting' \subseteq Log!Waiting /\ Log!Waiting \ Log!Waiting' = Out(f)
  BY <1>1, <1>2, <1>3, <1>4 DEF Out
<1>6. S \cup R \cup D \subseteq Log!Waiting /\ Out(f) \cap Log!Waiting' = {}
  BY <1>4, <1>5 DEF Settles, Out
<1>7. \A g \in Log!Flushers : /\ Log!IsInjective(Log!Remaining(g)') /\ C \cap Hand(g)' = {}
                          /\ \A h \in Log!Flushers \ {g} : Hand(g)' \cap Hand(h)' = {}
  <2>. TAKE g \in Log!Flushers
  <2>1. Log!IsInjective(Log!Remaining(g)')
    BY <1>1, <1>2, <1>3
  <2>2. C \cap Hand(g)' = {}
    BY <1>1, <1>2, <1>3
  <2>3. ASSUME NEW h \in Log!Flushers \ {g} PROVE Hand(g)' \cap Hand(h)' = {}
    <3>1. CASE g = f
      BY <1>1, <1>2, <1>3, <2>3, <3>1
    <3>2. CASE h = f
      BY <1>1, <1>2, <1>3, <2>3, <3>2
    <3>3. CASE g # f /\ h # f
      BY <1>1, <1>2, <2>3, <3>3
    <3>. QED
      BY <3>1, <3>2, <3>3
  <2>. QED
    BY <2>1, <2>2, <2>3
<1>. HIDE DEF B, C
<1>8. /\ fresh \cap (Log!Waiting \cup stored \cup rejected \cup discarded) = {}
      /\ Log!Waiting \cap (rejected \cup discarded) = {}
      /\ answerLost \/ stored \cap (Log!Waiting \cup rejected \cup discarded) = {}
  BY DEF Sound, Log!OnePlaceEach
<1>9. /\ fresh' = fresh
      /\ stored' = stored \cup S /\ rejected' = rejected \cup R /\ discarded' = discarded \cup D
      /\ R \subseteq Out(f) /\ D \subseteq Out(f) /\ R \subseteq Bad \cup stored
      /\ answerLost => answerLost'
      /\ ~answerLost' => S \subseteq Out(f) /\ S \cap (R \cup D) = {}
  BY DEF Settles
<1>10. fresh' \cap (Log!Waiting' \cup stored' \cup rejected' \cup discarded') = {}
  BY <1>5, <1>6, <1>8, <1>9
<1>11. Log!Waiting' \cap (rejected' \cup discarded') = {}
  BY <1>5, <1>6, <1>8, <1>9
<1>12. answerLost' \/ stored' \cap (Log!Waiting' \cup rejected' \cup discarded') = {}
  <2>. SUFFICES ASSUME ~answerLost' PROVE stored' \cap (Log!Waiting' \cup rejected' \cup discarded') = {}
    OBVIOUS
  <2>1. ~answerLost /\ S \subseteq Out(f) /\ S \cap (R \cup D) = {}
    BY <1>9
  <2>2. stored \cap (Log!Waiting \cup rejected \cup discarded) = {}
    BY <1>8, <2>1
  <2>. QED
    BY <1>5, <1>6, <1>8, <1>9, <2>1, <2>2
<1>13. Log!OnePlaceEach'
  BY <1>3, <1>7, <1>10, <1>11, <1>12 DEF Log!OnePlaceEach, C, Hand
<1>14. Log!OnlyTheGuiltyRejected'
  BY <1>9 DEF Sound, Log!OnlyTheGuiltyRejected
<1>. QED
  BY <1>5, <1>6, <1>13, <1>14 DEF Sound

-----------------------------------------------------------------------------
(* The actions of a flusher, one after the other.                          *)

\* The parts of the invariant that the steps rest on.
LEMMA InvFacts ==
    ASSUME Log!RowsInPlace
    PROVE  Log!TypeOK /\ Log!BufferBounded /\ Sound
BY DEF Log!RowsInPlace, Sound

\* The same of one flusher.
LEMMA FlusherFacts ==
    ASSUME Log!RowsInPlace, NEW f \in Log!Flushers
    PROVE  /\ Log!Remaining(f) \in Seq(Rows) /\ Hand(f) \subseteq Rows
           /\ Log!IsInjective(Log!Remaining(f)) /\ Log!IsInjective(buffer) /\ buffer \in Seq(Rows)
           /\ Log!Range(buffer) \cap Hand(f) = {} /\ Log!Range(buffer) \subseteq Rows
BY Hands, RangeOf DEF Log!RowsInPlace, Log!OnePlaceEach, Hand, Log!TypeOK

OthersTypeOK ==
    /\ phase \in {"running", "stopping", "closing", "stopped"}
    /\ fresh \subseteq Rows
    /\ stored \subseteq Rows /\ rejected \subseteq Rows /\ discarded \subseteq Rows
    /\ outages \in 0..MaxOutages
    /\ answerLost \in BOOLEAN

\* The types, in the parts that different steps disturb.
LEMMA TypesTogether == Log!TypeOK <=> HandsTypeOK /\ OthersTypeOK /\ buffer \in Seq(Rows)
BY DEF Log!TypeOK, HandsTypeOK, OthersTypeOK

(***************************************************************************)
(* What each action of a flusher has to show.                              *)
(***************************************************************************)
FlushResult(f) ==
    /\ Log!TypeOK' /\ Log!BufferBounded' /\ Moves(f)
    /\ phase' = "running" <=> phase = "running"
    /\ \E S, R, D \in SUBSET Rows :
          /\ Settles(f, S, R, D)
          /\ Out(f) \subseteq stored' \cup R \cup D

\* flush takes the buffer as its batch.
LEMMA TakeStep ==
    ASSUME Log!RowsInPlace, NEW f \in Log!Flushers, Log!Take(f)
    PROVE  FlushResult(f)
<1>1. /\ Log!TypeOK /\ buffer \in Seq(Rows) /\ mode[f] = "idle" /\ buffer # <<>>
      /\ Log!IsInjective(buffer) /\ Hand(f) = {} /\ Log!Range(buffer) \subseteq Rows
  BY FlusherFacts, Hands DEF Log!RowsInPlace, Log!Take
<1>2. /\ batch' = [batch EXCEPT ![f] = buffer] /\ mode' = [mode EXCEPT ![f] = "batch"]
      /\ buffer' = <<>> /\ at' = at
      /\ UNCHANGED <<fresh, stored, rejected, discarded, outages, answerLost>>
  BY DEF Log!Take
<1>3. batch'[f] = buffer /\ mode'[f] = "batch" /\ at'[f] = 1
  BY <1>1, <1>2 DEF Log!TypeOK
<1>4. \A g \in Log!Flushers \ {f} : Untouched(g)
  BY <1>1, <1>2 DEF Log!TypeOK, Untouched
<1>5. Log!Remaining(f)' = buffer /\ Hand(f)' = Log!Range(buffer)
  <2>1. Log!Remaining(f)' = SubSeq(buffer, 1, Len(buffer))
    BY <1>3 DEF Log!Remaining
  <2>. QED
    BY <1>1, <2>1, SubSeqFull DEF Hand
<1>6. HandsTypeOK'
  <2>1. /\ mode' \in [Log!Flushers -> {"idle", "batch", "rows"}]
        /\ batch' \in [Log!Flushers -> Seq(Rows)] /\ at' \in [Log!Flushers -> Nat]
    BY <1>1, <1>2 DEF Log!TypeOK
  <2>2. \A g \in Log!Flushers : /\ mode'[g] = "idle" <=> batch'[g] = << >>
                            /\ at'[g] \in IF mode'[g] = "rows" THEN 1..Len(batch'[g]) ELSE {1}
    BY <1>1, <1>3, <1>4 DEF Log!TypeOK, Untouched
  <2>. QED
    BY <2>1, <2>2 DEF HandsTypeOK
<1>7. OthersTypeOK' /\ (phase' = "running" <=> phase = "running")
  <2>1. f = Closer => phase = "stopping"
    BY UsageAssumption DEF Log!UsageKnown, Log!Take, Log!MayFlush
  <2>2. phase' = IF f = Closer THEN "closing" ELSE phase
    BY DEF Log!Take
  <2>. QED
    BY <1>1, <1>2, <2>1, <2>2 DEF Log!TypeOK, OthersTypeOK
<1>8. Log!TypeOK' /\ Log!BufferBounded'
  BY <1>2, <1>6, <1>7, Empty, UsageAssumption DEF Log!UsageKnown, Log!TypeOK, HandsTypeOK, OthersTypeOK, Log!BufferBounded
<1>9. Moves(f)
  BY <1>1, <1>2, <1>4, <1>5, Empty DEF Moves
<1>10. Settles(f, {}, {}, {}) /\ Out(f) = {}
  BY <1>1, <1>2, <1>5, Empty DEF Settles, Out
<1>. QED
  BY <1>7, <1>8, <1>9, <1>10 DEF FlushResult

\* The database takes the batch.
LEMMA AcceptedStep ==
    ASSUME Log!RowsInPlace, NEW f \in Log!Flushers, Log!BatchAccepted(f)
    PROVE  FlushResult(f)
<1>1. /\ Log!TypeOK /\ buffer \in Seq(Rows) /\ Log!IsInjective(buffer)
      /\ Log!Range(buffer) \cap Hand(f) = {} /\ Hand(f) \subseteq Rows /\ Log!Range(batch[f]) = Hand(f)
  BY FlusherFacts, Hands DEF Log!RowsInPlace, Log!BatchAccepted, Hand
<1>2. /\ stored' = stored \cup Hand(f) /\ Log!Idle(f)
      /\ UNCHANGED <<phase, fresh, buffer, rejected, discarded, outages, answerLost>>
  BY <1>1 DEF Log!BatchAccepted
<1>3. HandsTypeOK' /\ Log!Remaining(f)' = <<>> /\ Hand(f)' = {} /\ \A g \in Log!Flushers \ {f} : Untouched(g)
  BY <1>1, <1>2, IdleKeeps
<1>4. Log!TypeOK' /\ Log!BufferBounded'
  BY <1>1, <1>2, <1>3 DEF Log!RowsInPlace, Log!TypeOK, HandsTypeOK, Log!BufferBounded
<1>5. Moves(f) /\ Out(f) = Hand(f)
  BY <1>1, <1>2, <1>3, Empty DEF Moves, Out
<1>6. Settles(f, Hand(f), {}, {})
  BY <1>2, <1>5 DEF Settles
<1>. QED
  BY <1>1, <1>2, <1>4, <1>5, <1>6 DEF FlushResult

\* It refuses the batch, and the round row by row begins.
LEMMA RefusedStep ==
    ASSUME Log!RowsInPlace, NEW f \in Log!Flushers, Log!BatchRefused(f)
    PROVE  FlushResult(f)
<1>1. /\ Log!TypeOK /\ buffer \in Seq(Rows) /\ Log!IsInjective(buffer) /\ Log!IsInjective(Log!Remaining(f))
      /\ Log!Range(buffer) \cap Hand(f) = {} /\ batch[f] \in Seq(Rows)
      /\ mode[f] = "batch"
  BY FlusherFacts, Hands DEF Log!RowsInPlace, Log!BatchRefused
<1>2. /\ mode' = [mode EXCEPT ![f] = "rows"]
      /\ UNCHANGED <<phase, fresh, buffer, batch, at, stored, rejected, discarded, outages, answerLost>>
  BY DEF Log!BatchRefused
<1>3. batch[f] # <<>> /\ at[f] = 1 /\ Len(batch[f]) \in Nat \ {0}
  BY <1>1, EmptySeq DEF Log!TypeOK
<1>4. HandsTypeOK'
  <2>1. mode' \in [Log!Flushers -> {"idle", "batch", "rows"}] /\ mode'[f] = "rows"
        /\ \A g \in Log!Flushers \ {f} : mode'[g] = mode[g]
    BY <1>1, <1>2 DEF Log!TypeOK
  <2>2. \A g \in Log!Flushers : /\ mode'[g] = "idle" <=> batch'[g] = << >>
                            /\ at'[g] \in IF mode'[g] = "rows" THEN 1..Len(batch'[g]) ELSE {1}
    BY <1>1, <1>2, <1>3, <2>1 DEF Log!TypeOK
  <2>. QED
    BY <1>1, <1>2, <2>1, <2>2 DEF HandsTypeOK, Log!TypeOK
<1>5. Log!TypeOK' /\ Log!BufferBounded'
  BY <1>1, <1>2, <1>4 DEF Log!RowsInPlace, Log!TypeOK, HandsTypeOK, Log!BufferBounded
<1>6. Log!Remaining(f)' = Log!Remaining(f) /\ Hand(f)' = Hand(f)
  BY <1>2 DEF Log!Remaining, Hand
<1>7. \A g \in Log!Flushers \ {f} : Untouched(g)
  BY <1>1, <1>2 DEF Untouched, Log!TypeOK
<1>8. Moves(f) /\ Out(f) = {}
  BY <1>1, <1>2, <1>6, <1>7 DEF Moves, Out
<1>9. Settles(f, {}, {}, {})
  BY <1>2 DEF Settles
<1>. QED
  BY <1>2, <1>5, <1>8, <1>9 DEF FlushResult

(***************************************************************************)
(* The database fails while R is written, and f puts back what it has.     *)
(***************************************************************************)
LEMMA FailsStep ==
    ASSUME Log!RowsInPlace, NEW f \in Log!Flushers, NEW W \in SUBSET Hand(f), Log!Fails(W),
           NEW records, records = Log!Remaining(f), Log!PutBack(f, records),
           UNCHANGED <<phase, fresh, rejected>>
    PROVE  FlushResult(f)
<1>1. /\ Log!TypeOK /\ Log!BufferBounded /\ records \in Seq(Rows) /\ Hand(f) \subseteq Rows
      /\ Log!IsInjective(buffer) /\ Log!IsInjective(records) /\ Log!Range(buffer) \cap Hand(f) = {}
  BY FlusherFacts DEF Log!RowsInPlace
<1>2. /\ HandsTypeOK' /\ buffer' \in Seq(Rows) /\ Log!BufferBounded'
      /\ Log!IsInjective(buffer') /\ Log!Remaining(f)' = <<>> /\ Hand(f)' = {}
      /\ \A g \in Log!Flushers \ {f} : Untouched(g)
      /\ \E D \in SUBSET Hand(f) :
            /\ discarded' = discarded \cup D
            /\ D \cap Log!Range(buffer') = {}
            /\ D \cup Log!Range(buffer') = Log!Range(buffer) \cup Hand(f)
  BY <1>1, PutBackKeeps
<1>3. PICK D \in SUBSET Hand(f) :
            /\ discarded' = discarded \cup D
            /\ D \cap Log!Range(buffer') = {}
            /\ D \cup Log!Range(buffer') = Log!Range(buffer) \cup Hand(f)
  BY <1>2
<1>4. PICK S \in {{}, W} : stored' = stored \cup S /\ (S = {} \/ answerLost' = TRUE)
                           /\ (answerLost' = answerLost \/ answerLost' = TRUE)
  BY DEF Log!Fails
<1>5. outages' \in 0..MaxOutages
  <2>1. outages < MaxOutages /\ outages' = outages + 1
    BY DEF Log!Fails
  <2>2. outages \in 0..MaxOutages /\ MaxOutages \in Nat
    BY <1>1, UsageAssumption DEF Log!UsageKnown, Log!TypeOK
  <2>. QED
    BY <2>1, <2>2
<1>6. Log!TypeOK'
  BY <1>1, <1>2, <1>3, <1>4, <1>5 DEF Log!TypeOK, HandsTypeOK
<1>7. Moves(f) /\ Out(f) = D
  BY <1>2, <1>3, Empty DEF Moves, Out
<1>8. Settles(f, S, {}, D)
  <2>1. answerLost \in BOOLEAN
    BY <1>1 DEF Log!TypeOK
  <2>2. S \subseteq Hand(f)
    BY <1>4
  <2>3. ~answerLost' => S = {}
    BY <1>4
  <2>. QED
    BY <1>3, <1>4, <1>7, <2>1, <2>2, <2>3 DEF Settles
<1>. QED
  BY <1>1, <1>2, <1>4, <1>6, <1>7, <1>8 DEF FlushResult

\* It takes a row.
LEMMA RowAcceptedStep ==
    ASSUME Log!RowsInPlace, NEW f \in Log!Flushers, Log!RowAccepted(f)
    PROVE  FlushResult(f)
<1>1. /\ Log!TypeOK /\ buffer \in Seq(Rows) /\ Log!IsInjective(buffer) /\ Log!IsInjective(Log!Remaining(f))
      /\ Log!Range(buffer) \cap Hand(f) = {} /\ Hand(f) \subseteq Rows
  BY FlusherFacts DEF Log!RowsInPlace
<1>2. /\ HandsTypeOK' /\ Log!Row(f) \in Rows /\ Hand(f) = {Log!Row(f)} \cup Hand(f)'
      /\ Log!IsInjective(Log!Remaining(f)') /\ Log!Row(f) \notin Hand(f)'
      /\ \A g \in Log!Flushers \ {f} : Untouched(g)
  BY <1>1, NextRowKeeps DEF Log!RowAccepted
<1>3. /\ stored' = stored \cup {Log!Row(f)}
      /\ UNCHANGED <<phase, fresh, buffer, rejected, discarded, outages, answerLost>>
  BY DEF Log!RowAccepted
<1>4. Log!TypeOK' /\ Log!BufferBounded'
  BY <1>1, <1>2, <1>3 DEF Log!RowsInPlace, Log!TypeOK, HandsTypeOK, Log!BufferBounded
<1>5. Moves(f) /\ Out(f) = {Log!Row(f)}
  BY <1>1, <1>2, <1>3 DEF Moves, Out
<1>6. Settles(f, {Log!Row(f)}, {}, {})
  BY <1>2, <1>3, <1>5 DEF Settles
<1>. QED
  BY <1>2, <1>3, <1>4, <1>5, <1>6 DEF FlushResult

\* It refuses a row.
LEMMA RowRefusedStep ==
    ASSUME Log!RowsInPlace, NEW f \in Log!Flushers, Log!RowRefused(f)
    PROVE  FlushResult(f)
<1>1. /\ Log!TypeOK /\ buffer \in Seq(Rows) /\ Log!IsInjective(buffer) /\ Log!IsInjective(Log!Remaining(f))
      /\ Log!Range(buffer) \cap Hand(f) = {} /\ Hand(f) \subseteq Rows
  BY FlusherFacts DEF Log!RowsInPlace
<1>2. /\ HandsTypeOK' /\ Log!Row(f) \in Rows /\ Hand(f) = {Log!Row(f)} \cup Hand(f)'
      /\ Log!IsInjective(Log!Remaining(f)') /\ Log!Row(f) \notin Hand(f)'
      /\ \A g \in Log!Flushers \ {f} : Untouched(g)
  BY <1>1, NextRowKeeps DEF Log!RowRefused
<1>3. /\ rejected' = rejected \cup {Log!Row(f)} /\ Log!Row(f) \in Bad \cup stored
      /\ UNCHANGED <<phase, fresh, buffer, stored, discarded, outages, answerLost>>
  BY DEF Log!RowRefused, Log!Refuses
<1>4. Log!TypeOK' /\ Log!BufferBounded'
  BY <1>1, <1>2, <1>3 DEF Log!RowsInPlace, Log!TypeOK, HandsTypeOK, Log!BufferBounded
<1>5. Moves(f) /\ Out(f) = {Log!Row(f)}
  BY <1>1, <1>2, <1>3 DEF Moves, Out
<1>6. Settles(f, {}, {Log!Row(f)}, {})
  BY <1>2, <1>3, <1>5 DEF Settles
<1>. QED
  BY <1>2, <1>3, <1>4, <1>5, <1>6 DEF FlushResult

\* Every step of a flusher, an outage and a lost answer included.
LEMMA FlushStep ==
    ASSUME Log!RowsInPlace, NEW f \in Log!Flushers, Log!Flush(f)
    PROVE  FlushResult(f)
<1>1. CASE Log!BatchFails(f)
  <2>1. Log!TypeOK /\ Log!Range(batch[f]) = Hand(f) /\ batch[f] = Log!Remaining(f)
    BY <1>1, Hands DEF Log!RowsInPlace, Log!BatchFails, Hand
  <2>. QED
    BY <1>1, <2>1, FailsStep DEF Log!BatchFails
<1>2. CASE Log!RowFails(f)
  <2>1. Log!TypeOK /\ at[f] \in 1..Len(batch[f]) /\ batch[f] \in Seq(Rows)
    BY <1>2, Hands DEF Log!RowsInPlace, Log!RowFails
  <2>2. {Log!Row(f)} \subseteq Hand(f)
    BY <2>1, Shifted DEF Hand, Log!Remaining, Log!Row
  <2>. QED
    BY <1>2, <2>2, FailsStep DEF Log!RowFails
<1>. QED
  BY <1>1, <1>2, TakeStep, AcceptedStep, RefusedStep, RowAcceptedStep, RowRefusedStep DEF Log!Flush

(***************************************************************************)
(* The loop is cancelled: what it has in its hands is out of memory,       *)
(* written or not.                                                         *)
(***************************************************************************)
LEMMA StopStep ==
    ASSUME Log!RowsInPlace, Log!Stop
    PROVE  /\ Log!TypeOK' /\ Log!BufferBounded' /\ Moves(Loop)
           /\ phase = "running" /\ phase' = "stopping"
           /\ \E S \in SUBSET Rows : Settles(Loop, S, {}, {})
<1>. Loop \in Log!Flushers
  BY DEF Log!Flushers
<1>1. /\ Log!TypeOK /\ buffer \in Seq(Rows) /\ Log!IsInjective(buffer)
      /\ Log!Range(buffer) \cap Hand(Loop) = {} /\ Hand(Loop) \subseteq Rows
  BY FlusherFacts DEF Log!RowsInPlace
<1>. DEFINE open == IF mode[Loop] = "rows" THEN {Log!Row(Loop)} ELSE Log!Range(batch[Loop])
<1>2. open \subseteq Hand(Loop)
  <2>1. CASE mode[Loop] = "rows"
    <3>1. at[Loop] \in 1..Len(batch[Loop]) /\ batch[Loop] \in Seq(Rows)
      BY <1>1, <2>1, Hands
    <3>. QED
      BY <2>1, <3>1, Shifted DEF Hand, Log!Remaining, Log!Row
  <2>2. CASE mode[Loop] = "batch"
    BY <1>1, <2>2, Hands DEF Hand
  <2>3. CASE mode[Loop] = "idle"
    BY <1>1, <2>3, Empty DEF Log!TypeOK
  <2>. QED
    BY <1>1, <2>1, <2>2, <2>3 DEF Log!TypeOK
<1>3. /\ phase = "running" /\ phase' = "stopping" /\ Log!Idle(Loop)
      /\ UNCHANGED <<fresh, buffer, rejected, discarded, outages, answerLost>>
  BY DEF Log!Stop
<1>4. PICK S \in {{}, open} : stored' = stored \cup S
  BY DEF Log!Stop
<1>5. /\ HandsTypeOK' /\ Log!Remaining(Loop)' = <<>> /\ Hand(Loop)' = {}
      /\ \A g \in Log!Flushers \ {Loop} : Untouched(g)
  BY <1>1, <1>3, IdleKeeps
<1>. HIDE DEF open
<1>6. Log!TypeOK' /\ Log!BufferBounded'
  BY <1>1, <1>2, <1>3, <1>4, <1>5 DEF Log!RowsInPlace, Log!TypeOK, HandsTypeOK, Log!BufferBounded
<1>7. Moves(Loop) /\ Out(Loop) = Hand(Loop)
  BY <1>1, <1>3, <1>5, Empty DEF Moves, Out
<1>8. Settles(Loop, S, {}, {})
  BY <1>2, <1>3, <1>4, <1>7 DEF Settles
<1>. QED
  BY <1>1, <1>2, <1>3, <1>4, <1>6, <1>7, <1>8

(***************************************************************************)
(* A row comes in: into the buffer, or dropped where that is full.         *)
(***************************************************************************)
LEMMA SubmitStep ==
    ASSUME Log!RowsInPlace, NEW r \in Rows, Log!Submit(r)
    PROVE  /\ Log!RowsInPlace'
           /\ r \in fresh /\ fresh' = fresh \ {r}
           /\ stored' = stored /\ rejected' = rejected
           /\ \/ Log!Waiting' = Log!Waiting \cup {r} /\ discarded' = discarded
              \/ Log!Waiting' = Log!Waiting /\ discarded' = discarded \cup {r}
<1>1. /\ Log!TypeOK /\ Log!BufferBounded /\ Log!OnePlaceEach /\ Log!OnlyTheGuiltyRejected /\ buffer \in Seq(Rows)
      /\ Log!IsInjective(buffer) /\ Len(buffer) \in Nat /\ MaxBuffer \in Nat
  BY UsageAssumption DEF Log!UsageKnown, Log!RowsInPlace, Log!OnePlaceEach, Log!TypeOK
<1>2. /\ r \in fresh /\ fresh' = fresh \ {r}
      /\ UNCHANGED <<phase, mode, batch, at, stored, rejected, outages, answerLost>>
  BY DEF Log!Submit
<1>3. \A g \in Log!Flushers : Log!Remaining(g)' = Log!Remaining(g) /\ Hand(g)' = Hand(g)
  BY <1>2 DEF Log!Remaining, Hand
<1>4. /\ Log!Waiting = Log!Range(buffer) \cup UNION {Hand(g) : g \in Log!Flushers}
      /\ Log!Waiting' = Log!Range(buffer') \cup UNION {Hand(g) : g \in Log!Flushers}
  <2>1. Log!Waiting' = Log!Range(buffer') \cup UNION {Hand(g)' : g \in Log!Flushers}
    BY DEF Log!Waiting, Hand, Log!Range
  <2>. QED
    BY <1>3, <2>1, InMemory
<1>5. r \notin Log!Waiting /\ r \notin stored /\ r \notin rejected /\ r \notin discarded
  BY <1>1, <1>2 DEF Log!OnePlaceEach
<1>6. CASE Len(buffer) >= MaxBuffer
  <2>1. buffer' = buffer /\ discarded' = discarded \cup {r} /\ Log!Waiting' = Log!Waiting
    BY <1>4, <1>6 DEF Log!Submit
  <2>2. Log!TypeOK' /\ Log!BufferBounded' /\ Log!OnlyTheGuiltyRejected'
    BY <1>1, <1>2, <2>1 DEF Log!TypeOK, Log!BufferBounded, Log!OnlyTheGuiltyRejected
  <2>3. Log!OnePlaceEach'
    BY <1>1, <1>2, <1>3, <1>5, <2>1 DEF Log!OnePlaceEach, Hand
  <2>. QED
    BY <1>2, <2>1, <2>2, <2>3 DEF Log!RowsInPlace
<1>7. CASE ~(Len(buffer) >= MaxBuffer)
  <2>1. buffer' = Append(buffer, r) /\ discarded' = discarded
    BY <1>7 DEF Log!Submit
  <2>2. /\ buffer' \in Seq(Rows) /\ Len(buffer') = Len(buffer) + 1
        /\ Log!Range(buffer') = Log!Range(buffer) \cup {r} /\ Log!IsInjective(buffer')
    BY <1>1, <1>4, <1>5, <2>1, Appended
  <2>3. Log!Waiting' = Log!Waiting \cup {r}
    BY <1>4, <2>2
  <2>4. Log!BufferBounded'
    <3>1. ASSUME NEW m \in Nat, NEW n \in Nat, ~(n >= m) PROVE n + 1 <= m
      BY <3>1
    <3>. QED
      BY <1>1, <1>7, <2>2, <3>1 DEF Log!BufferBounded
  <2>5. Log!TypeOK' /\ Log!OnlyTheGuiltyRejected'
    BY <1>1, <1>2, <2>1, <2>2 DEF Log!TypeOK, Log!OnlyTheGuiltyRejected
  <2>6. /\ fresh' \cap (Log!Waiting' \cup stored' \cup rejected' \cup discarded') = {}
        /\ Log!Waiting' \cap (rejected' \cup discarded') = {}
        /\ answerLost' \/ stored' \cap (Log!Waiting' \cup rejected' \cup discarded') = {}
    BY <1>1, <1>2, <1>5, <2>1, <2>3 DEF Log!OnePlaceEach
  <2>7. \A g \in Log!Flushers : /\ Log!IsInjective(Log!Remaining(g)') /\ Log!Range(buffer') \cap Hand(g)' = {}
                            /\ \A h \in Log!Flushers \ {g} : Hand(g)' \cap Hand(h)' = {}
    BY <1>1, <1>3, <1>4, <1>5, <2>2 DEF Log!OnePlaceEach, Hand
  <2>8. Log!OnePlaceEach'
    BY <2>2, <2>6, <2>7 DEF Log!OnePlaceEach, Hand
  <2>. QED
    BY <1>2, <2>1, <2>3, <2>4, <2>5, <2>8 DEF Log!RowsInPlace
<1>. QED
  BY <1>6, <1>7

\* The end of the shutdown, or nothing.
LEMMA StoppedStep ==
    ASSUME Log!RowsInPlace, Log!Stopped \/ UNCHANGED Log!vars
    PROVE  /\ Log!RowsInPlace'
           /\ Log!Waiting' = Log!Waiting /\ UNCHANGED <<fresh, stored, rejected, discarded>>
           /\ phase' = "running" <=> phase = "running"
<1>1. /\ UNCHANGED <<fresh, buffer, mode, batch, at, stored, rejected, discarded, outages, answerLost>>
      /\ phase' \in {phase, "stopped"} /\ (phase' = "running" <=> phase = "running")
  BY DEF Log!Stopped, Log!vars
<1>2. Log!Waiting' = Log!Waiting /\ \A g \in Log!Flushers : Log!Remaining(g)' = Log!Remaining(g)
  BY <1>1 DEF Log!Waiting, Log!Remaining
<1>3. Log!TypeOK' /\ Log!BufferBounded'
  BY <1>1 DEF Log!RowsInPlace, Log!TypeOK, Log!BufferBounded
<1>4. Log!OnePlaceEach' /\ Log!OnlyTheGuiltyRejected'
  BY <1>1, <1>2 DEF Log!RowsInPlace, Log!OnePlaceEach, Log!OnlyTheGuiltyRejected
<1>. QED
  BY <1>1, <1>2, <1>3, <1>4 DEF Log!RowsInPlace

-----------------------------------------------------------------------------
(* The invariant.                                                          *)

\* The first state.
LEMMA RowsInit == Log!Init => Log!RowsInPlace
<1>. SUFFICES ASSUME Log!Init PROVE Log!RowsInPlace
  OBVIOUS
<1>1. Log!TypeOK /\ Log!BufferBounded /\ Log!OnlyTheGuiltyRejected
  <2>1. buffer \in Seq(Rows) /\ Len(buffer) = 0 /\ batch \in [Log!Flushers -> Seq(Rows)]
    BY Empty DEF Log!Init
  <2>2. 0 \in 0..MaxOutages /\ 0 <= MaxBuffer
    BY UsageAssumption DEF Log!UsageKnown
  <2>3. /\ mode \in [Log!Flushers -> {"idle", "batch", "rows"}] /\ at \in [Log!Flushers -> Nat]
        /\ \A f \in Log!Flushers : /\ mode[f] = "idle" /\ batch[f] = <<>> /\ at[f] = 1
    BY DEF Log!Init
  <2>4. /\ phase = "running" /\ fresh = Rows /\ stored = {} /\ rejected = {} /\ discarded = {}
        /\ outages = 0 /\ answerLost = FALSE
    BY DEF Log!Init
  <2>5. Log!BufferBounded /\ Log!OnlyTheGuiltyRejected
    BY <2>1, <2>2, <2>4 DEF Log!BufferBounded, Log!OnlyTheGuiltyRejected
  <2>6. Log!TypeOK
    BY <2>1, <2>2, <2>3, <2>4 DEF Log!TypeOK
  <2>. QED
    BY <2>5, <2>6
<1>2. \A f \in Log!Flushers : Log!Remaining(f) = <<>> /\ Hand(f) = {}
  BY <1>1, Hands DEF Log!Init
<1>3. Log!Waiting = {}
  BY <1>2, Empty, InMemory DEF Log!Init
<1>4. Log!OnePlaceEach
  BY <1>2, <1>3, Empty DEF Log!Init, Log!OnePlaceEach, Hand
<1>. QED
  BY <1>1, <1>4 DEF Log!RowsInPlace

\* Every step.
LEMMA RowsStep == Log!RowsInPlace /\ [Log!Next]_Log!vars => Log!RowsInPlace'
<1>. SUFFICES ASSUME Log!RowsInPlace, [Log!Next]_Log!vars PROVE Log!RowsInPlace'
  OBVIOUS
<1>1. ASSUME NEW f \in Log!Flushers, Log!Flush(f) PROVE Log!RowsInPlace'
  <2>1. PICK S, R, D \in SUBSET Rows : Settles(f, S, R, D)
    BY <1>1, FlushStep DEF FlushResult
  <2>. QED
    BY <1>1, <2>1, FlushStep, FlusherStep, InvFacts DEF FlushResult, Log!RowsInPlace, Sound
<1>2. CASE Log!Stop
  <2>1. PICK S \in SUBSET Rows : Settles(Loop, S, {}, {})
    BY <1>2, StopStep
  <2>2. Loop \in Log!Flushers
    BY DEF Log!Flushers
  <2>. QED
    BY <1>2, <2>1, <2>2, StopStep, FlusherStep, InvFacts DEF Log!RowsInPlace, Sound
<1>. QED
  BY <1>1, <1>2, SubmitStep, StoppedStep DEF Log!Next

(***************************************************************************)
(* Every row is in its place in every reachable state: nowhere twice, in   *)
(* a buffer that keeps its bound, out of memory once it is refused or      *)
(* dropped, and refused for its own fault alone.                           *)
(***************************************************************************)
THEOREM RowsStayInPlace == SpecLog => []RowsInPlace
BY RowsInit, RowsStep, PTL DEF SpecLog, Log!Spec, RowsInPlace

-----------------------------------------------------------------------------
(* The refinement.                                                         *)

(***************************************************************************)
(* The fate of a row changes only while it waits.                          *)
(***************************************************************************)
LEMMA FlusherFates ==
    ASSUME Sound, NEW f \in Log!Flushers, Moves(f),
           NEW S, NEW R, NEW D, Settles(f, S, R, D), NEW r \in Rows,
           Log!Fate(r)' # Log!Fate(r)
    PROVE  /\ Log!Fate(r) = "waiting" /\ Log!Fate(r)' \in {"stored", "refused", "dropped", "lost"}
           /\ Out(f) \subseteq stored' \cup R \cup D => Log!Fate(r)' # "lost"
<1>1. /\ fresh' = fresh /\ stored' = stored \cup S
      /\ rejected' = rejected \cup R /\ discarded' = discarded \cup D
  BY DEF Settles
<1>2. /\ Log!Waiting \ Log!Waiting' = Out(f) /\ Log!Waiting' \subseteq Log!Waiting
      /\ S \cup R \cup D \subseteq Log!Waiting
  BY FlusherStep
<1>3. /\ fresh \cap (Log!Waiting \cup stored \cup rejected \cup discarded) = {}
      /\ Log!Waiting \cap (rejected \cup discarded) = {}
  BY DEF Sound, Log!OnePlaceEach
<1>4. Log!Fate(r)' = IF r \in fresh' THEN "new"
                 ELSE IF r \in stored' THEN "stored"
                 ELSE IF r \in rejected' THEN "refused"
                 ELSE IF r \in discarded' THEN "dropped"
                 ELSE IF r \in Log!Waiting' THEN "waiting"
                 ELSE "lost"
  BY DEF Log!Fate
<1>. HIDE DEF Log!Waiting
<1>5. r \in Log!Waiting /\ r \notin stored
  BY <1>1, <1>2, <1>3, <1>4 DEF Log!Fate
<1>. QED
  BY <1>1, <1>2, <1>3, <1>4, <1>5 DEF Log!Fate

(***************************************************************************)
(* UsageBuffer implements UsageLedger: no flush, whatever fails and        *)
(* whoever flushes beside it, loses a row or changes what became of one.   *)
(***************************************************************************)
THEOREM LedgerImplemented == SpecLog => ImplementsLedger
<1>1. Log!Init => Log!Ledger!Init
  BY DEF Log!Init, Log!Ledger!Init, Log!Fate
<1>2. Log!RowsInPlace /\ [Log!Next]_Log!vars => [Log!Ledger!Next]_<<[r \in Rows |-> Log!Fate(r)], phase = "running">>
  <2>. SUFFICES ASSUME Log!RowsInPlace, [Log!Next]_Log!vars
                PROVE  \/ Log!Ledger!Next
                       \/ UNCHANGED <<[r \in Rows |-> Log!Fate(r)], phase = "running">>
    OBVIOUS
  <2>1. ASSUME NEW f \in Log!Flushers, Log!Flush(f) PROVE Log!Ledger!Settle
    <3>1. PICK S, R, D \in SUBSET Rows :
            Settles(f, S, R, D) /\ Out(f) \subseteq stored' \cup R \cup D
      BY <2>1, FlushStep DEF FlushResult
    <3>2. Moves(f) /\ (phase' = "running" <=> phase = "running")
      BY <2>1, FlushStep DEF FlushResult
    <3>3. \A r \in Rows : Log!Fate(r)' # Log!Fate(r) =>
            Log!Fate(r) = "waiting" /\ Log!Fate(r)' \in {"stored", "refused", "dropped"}
      BY <2>1, <3>1, <3>2, FlusherFates, InvFacts
    <3>. QED
      BY <3>2, <3>3 DEF Log!Ledger!Settle, Log!Ledger!Settles
  <2>2. CASE Log!Stop
    <3>1. PICK S \in SUBSET Rows : Settles(Loop, S, {}, {})
      BY <2>2, StopStep
    <3>2. Loop \in Log!Flushers /\ Moves(Loop) /\ phase = "running" /\ phase' = "stopping"
      BY <2>2, StopStep DEF Log!Flushers
    <3>3. \A r \in Rows : Log!Fate(r)' # Log!Fate(r) =>
            Log!Fate(r) = "waiting" /\ Log!Fate(r)' \in {"stored", "refused", "dropped", "lost"}
      BY <3>1, <3>2, FlusherFates, InvFacts
    <3>. QED
      BY <3>2, <3>3 DEF Log!Ledger!Stop, Log!Ledger!Settles, Log!Ledger!Next
  <2>3. ASSUME NEW r \in Rows, Log!Submit(r) PROVE Log!Ledger!HandIn(r)
    <3>1. /\ r \in fresh /\ fresh' = fresh \ {r}
          /\ stored' = stored /\ rejected' = rejected
          /\ \/ Log!Waiting' = Log!Waiting \cup {r} /\ discarded' = discarded
             \/ Log!Waiting' = Log!Waiting /\ discarded' = discarded \cup {r}
      BY <2>3, SubmitStep
    <3>2. fresh \cap (Log!Waiting \cup stored \cup rejected \cup discarded) = {}
      BY DEF Log!RowsInPlace, Log!OnePlaceEach
    <3>3. Log!Fate(r) = "new" /\ Log!Fate(r)' \in {"waiting", "dropped"}
      BY <3>1, <3>2 DEF Log!Fate
    <3>4. \A q \in Rows \ {r} : Log!Fate(q)' = Log!Fate(q)
      BY <3>1 DEF Log!Fate
    <3>5. phase' = phase
      BY <2>3 DEF Log!Submit
    <3>. QED
      BY <3>3, <3>4, <3>5 DEF Log!Ledger!HandIn
  <2>4. CASE Log!Stopped \/ UNCHANGED Log!vars
    <3>1. /\ Log!Waiting' = Log!Waiting /\ UNCHANGED <<fresh, stored, rejected, discarded>>
          /\ (phase' = "running") = (phase = "running")
      BY <2>4, StoppedStep
    <3>2. \A r \in Rows : Log!Fate(r)' = Log!Fate(r)
      BY <3>1 DEF Log!Fate
    <3>. QED
      BY <3>1, <3>2
  <2>. QED
    BY <2>1, <2>2, <2>3, <2>4 DEF Log!Next, Log!Ledger!Next
<1>. QED
  BY <1>1, <1>2, RowsStayInPlace, PTL
  DEF SpecLog, Log!Spec, RowsInPlace, ImplementsLedger, Log!ImplementsLedger, Log!Ledger!Spec,
      Log!Ledger!lvars

-----------------------------------------------------------------------------
(* The streams.  First folds.                                              *)

\* What holds at the start and goes on from each number to the next holds at the end.
LEMMA UpTo ==
    ASSUME NEW n \in Nat, NEW ok, 0 \in ok, \A k \in 0..(n - 1) : k \in ok => k + 1 \in ok
    PROVE  \A k \in 0..n : k \in ok
<1>. DEFINE bad == {k \in 0..n : k \notin ok}
<1>1. SUFFICES ASSUME bad # {} PROVE FALSE
  OBVIOUS
<1>0. bad \subseteq Nat
  OBVIOUS
<1>2. PICK x \in bad : \A y \in bad : ~(<<y, x>> \in OpToRel(<, Nat))
  <2>. HIDE DEF bad
  <2>. QED
    BY <1>1, <1>0, NatLessThanWellFounded, WFMin, Zenon
<1>3. ASSUME NEW y \in bad, y < x PROVE FALSE
  <2>1. y \in Nat /\ x \in Nat
    BY <1>0
  <2>2. <<y, x>> \in OpToRel(<, Nat)
    BY <1>3, <2>1, Zenon DEF OpToRel
  <2>. QED
    BY <1>2, <2>2
<1>4. x \in 1..n /\ x \notin ok
  <2>1. x \in 0..n /\ x \notin ok
    BY <1>2
  <2>2. x # 0
    BY <2>1
  <2>. QED
    BY <2>1, <2>2
<1>5. x - 1 \in 0..(n - 1) /\ (x - 1) + 1 = x /\ x - 1 < x
  BY <1>4
<1>6. x - 1 \notin bad
  BY <1>3, <1>5
<1>7. x - 1 \in ok
  BY <1>5, <1>6
<1>. QED
  BY <1>4, <1>5, <1>7

\* The largest of a set of numbers, as a fold takes it.
Top(s) == CHOOSE x \in s : \A y \in s : x >= y

\* The largest of a set that holds the largest there can be is that one.
LEMMA TopIs ==
    ASSUME NEW k \in Nat, NEW s \in SUBSET (1..(k + 1)), k + 1 \in s
    PROVE  Top(s) = k + 1 /\ s \ {k + 1} \in SUBSET (1..k)
<1>1. \A y \in s : k + 1 >= y
  OBVIOUS
<1>2. \A x \in s : (\A y \in s : x >= y) => x = k + 1
  OBVIOUS
<1>3. s \ {k + 1} \in SUBSET (1..k)
  OBVIOUS
<1>. QED
  BY <1>1, <1>2, <1>3 DEF Top

\* A fold over a sequence of n, for a step that stays in a set.
Unrolls(it, D, step, base) ==
    it = [s \in SUBSET D |-> IF s = {} THEN base ELSE step[<<it[s \ {Top(s)}], Top(s)>>]]

\* Such a fold exists for every step and every length.
LEMMA FoldExists ==
    ASSUME NEW n \in Nat, NEW V, NEW step \in [V \X (1..n) -> V], NEW base \in V
    PROVE  \E it \in [SUBSET (1..n) -> V] : Unrolls(it, 1..n, step, base)
<1>. DEFINE ok == {k \in 0..n : \E it \in [SUBSET (1..k) -> V] : Unrolls(it, 1..k, step, base)}
<1>1. 0 \in ok
  <2>. DEFINE it == [s \in SUBSET (1..0) |-> base]
  <2>1. \A s \in SUBSET (1..0) : s = {}
    OBVIOUS
  <2>2. it \in [SUBSET (1..0) -> V]
    OBVIOUS
  <2>3. Unrolls(it, 1..0, step, base)
    BY <2>1 DEF Unrolls
  <2>. QED
    BY <2>2, <2>3
<1>2. ASSUME NEW k \in 0..(n - 1), k \in ok PROVE k + 1 \in ok
  <2>1. PICK old \in [SUBSET (1..k) -> V] : Unrolls(old, 1..k, step, base)
    BY <1>2
  <2>. DEFINE it == [s \in SUBSET (1..(k + 1)) |->
                        IF k + 1 \in s THEN step[<<old[s \ {k + 1}], k + 1>>] ELSE old[s]]
  <2>2. ASSUME NEW s \in SUBSET (1..(k + 1))
        PROVE  /\ it[s] \in V
               /\ it[s] = IF s = {} THEN base ELSE step[<<it[s \ {Top(s)}], Top(s)>>]
    <3>1. CASE k + 1 \in s
      <4>1. Top(s) = k + 1 /\ s \ {k + 1} \in SUBSET (1..k)
        BY <3>1, TopIs
      <4>2. s \ {k + 1} \in SUBSET (1..(k + 1)) /\ k + 1 \notin (s \ {k + 1})
        OBVIOUS
      <4>3. it[s \ {k + 1}] = old[s \ {k + 1}]
        BY <4>2
      <4>4. it[s] = step[<<old[s \ {k + 1}], k + 1>>]
        BY <3>1
      <4>5. k + 1 \in 1..n /\ old[s \ {k + 1}] \in V
        BY <4>1
      <4>. HIDE DEF it
      <4>. QED
        BY <3>1, <4>1, <4>3, <4>4, <4>5
    <3>2. CASE k + 1 \notin s
      <4>1. s \in SUBSET (1..k)
        BY <3>2
      <4>2. it[s] = old[s] /\ it[s] \in V
        BY <3>2, <4>1
      <4>3. old[s] = IF s = {} THEN base ELSE step[<<old[s \ {Top(s)}], Top(s)>>]
        BY <2>1, <4>1 DEF Unrolls
      <4>4. /\ s \ {Top(s)} \in SUBSET (1..k) /\ s \ {Top(s)} \in SUBSET (1..(k + 1))
            /\ k + 1 \notin (s \ {Top(s)})
        BY <3>2, <4>1
      <4>5. it[s \ {Top(s)}] = old[s \ {Top(s)}]
        BY <4>4
      <4>. HIDE DEF it
      <4>. QED
        BY <4>2, <4>3, <4>5
    <3>. QED
      BY <3>1, <3>2
  <2>3. it \in [SUBSET (1..(k + 1)) -> V]
    <3>1. \A s \in SUBSET (1..(k + 1)) : it[s] \in V
      BY <2>2
    <3>. QED
      BY <3>1
  <2>4. it = [s \in SUBSET (1..(k + 1)) |->
                IF s = {} THEN base ELSE step[<<it[s \ {Top(s)}], Top(s)>>]]
    <3>1. \A s \in SUBSET (1..(k + 1)) :
             it[s] = IF s = {} THEN base ELSE step[<<it[s \ {Top(s)}], Top(s)>>]
      BY <2>2
    <3>2. DOMAIN it = SUBSET (1..(k + 1)) /\ it = [s \in DOMAIN it |-> it[s]]
      OBVIOUS
    <3>. HIDE DEF it
    <3>. QED
      BY <3>1, <3>2
  <2>5. Unrolls(it, 1..(k + 1), step, base)
    BY <2>4, Zenon DEF Unrolls
  <2>6. k + 1 \in 0..n
    OBVIOUS
  <2>. QED
    BY <2>3, <2>5, <2>6
<1>3. \A k \in 0..n : k \in ok
  <2>. HIDE DEF ok
  <2>. QED
    BY <1>1, <1>2, UpTo
<1>4. n \in 0..n
  OBVIOUS
<1>5. n \in ok
  BY <1>3, <1>4
<1>. QED
  BY <1>5

Runs(it, n, V, step, base) ==
    /\ it[{}] = base
    /\ \A s \in SUBSET (1..n) : s # {} /\ it[s \ {Top(s)}] \in V
                                  => it[s] = step[<<it[s \ {Top(s)}], Top(s)>>]
Ran(it, n, V, step) ==
    /\ \A i \in 0..n : it[1..i] \in V
    /\ \A i \in 1..n : it[1..i] = step[<<it[1..(i - 1)], i>>]

\* However the fold is written, if its steps are these it runs through the prefixes.
LEMMA FoldRuns ==
    ASSUME NEW n \in Nat, NEW V, NEW step \in [V \X (1..n) -> V], NEW base \in V, NEW it,
           Runs(it, n, V, step, base)
    PROVE  Ran(it, n, V, step)
<1>. DEFINE ok == {i \in 0..n : it[1..i] \in V}
<1>1. 0 \in ok
  <2>1. 1..0 = {} /\ 0 \in 0..n
    OBVIOUS
  <2>. QED
    BY <2>1 DEF Runs
<1>2. ASSUME NEW i \in 1..n, it[1..(i - 1)] \in V
      PROVE  it[1..i] = step[<<it[1..(i - 1)], i>>]
  <2>1. i - 1 \in Nat /\ i \in 0..n /\ (i - 1) + 1 = i
    OBVIOUS
  <2>2. 1..i \in SUBSET (1..((i - 1) + 1)) /\ i \in 1..i /\ 1..i # {} /\ 1..i \in SUBSET (1..n)
    BY <2>1
  <2>3. Top(1..i) = i
    BY <2>1, <2>2, TopIs
  <2>4. (1..i) \ {i} = 1..(i - 1)
    BY <2>1
  <2>. QED
    BY <1>2, <2>2, <2>3, <2>4 DEF Runs
<1>3. ASSUME NEW k \in 0..(n - 1), k \in ok PROVE k + 1 \in ok
  <2>1. k + 1 \in 1..n /\ (k + 1) - 1 = k /\ k + 1 \in 0..n
    OBVIOUS
  <2>2. it[1..k] \in V
    BY <1>3
  <2>3. it[1..(k + 1)] = step[<<it[1..k], k + 1>>]
    BY <1>2, <2>1, <2>2
  <2>. QED
    BY <2>1, <2>2, <2>3
<1>4. \A k \in 0..n : k \in ok
  <2>. HIDE DEF ok
  <2>. QED
    BY <1>1, <1>3, UpTo
<1>5. ASSUME NEW i \in 1..n PROVE it[1..(i - 1)] \in V
  <2>1. i - 1 \in 0..n
    OBVIOUS
  <2>. QED
    BY <1>4, <2>1
<1>. QED
  BY <1>2, <1>4, <1>5 DEF Ran

-----------------------------------------------------------------------------
(* What a stream is made of.                                               *)

\* An item and a call of an adapter, an event and a frame (of a stream of which m
\* pieces have been counted), an item of the reader and the reader.
Kinds == {"none", "text", "reasoning", "call"}
Types == {"created", "in_progress", "message_delta", "chunk", "delta", "item.added", "item.done",
          "part.added", "part.done", "content.done"} \cup Stream!Terminals
Items == [index : Nat, kind : Kinds, whole : Seq(Nat)]
Tools == [call : Nat, index : Nat, kind : Kinds, whole : Seq(Nat)]
Bodies == Seq(Nat) \cup Seq(Stream!Finishes) \cup {Stream!InOrder(c) : c \in Seq(Items)}
Events == [type : Types, index : Nat, kind : Kinds, body : Bodies,
           usage : Stream!Usages, seq : Nat]
Spoken(e) == e.type \in {"delta", "chunk"}
Frames(m) == {e \in Events : Spoken(e) => e.body \in Seq(Nat) /\ (e.body # << >> => m > 0)}
Adapters(m) ==
    [started : BOOLEAN, seq : Nat, open : Items, closed : Seq(Items), tools : Seq(Tools),
     next : Nat, finish : Stream!Finishes, out : Seq(Frames(m))]
Shapes == [kind : Kinds, whole : Seq(Nat), open : BOOLEAN]
Readers ==
    [items : Seq(Shapes), next : Nat, said : Types \cup {"nothing"}, output : Bodies, usage : Stream!Usages,
     lost : BOOLEAN, skipped : BOOLEAN, late : BOOLEAN]
Heard(items) == \E i \in DOMAIN items : items[i].whole # << >>

\* What a frame carries: text, why a stream ended, or the items in their order.
LEMMA BodiesAre ==
    /\ Seq(Nat) \subseteq Bodies /\ Seq(Stream!Finishes) \subseteq Bodies
    /\ \A a : a.closed \in Seq(Items) => Stream!Output(a) \in Bodies
BY Zenon DEF Bodies, Stream!Output

\* What following an event leaves of a reader, whichever event it is.
LEMMA FollowKeeps ==
    ASSUME NEW m \in Nat, NEW r \in Readers, NEW e \in Frames(m),
           NEW f, f = Stream!Follow(r, e)
    PROVE  /\ f \in Readers
           /\ f.next = r.next /\ f.skipped = r.skipped /\ f.late = r.late
           /\ r.lost => f.lost
           /\ f.said = r.said \/ (e.type \in Stream!Terminals /\ f.said = e.type)
           /\ e.type \in Stream!Terminals /\ ~(e.type = "DONE" /\ r.said = "error")
                 => f.said = e.type /\ f.usage = e.usage
           /\ e.type = "DONE" /\ r.said = "error" => f.said = "error"
           /\ Heard(f.items) => Heard(r.items) \/ m > 0
<1>. DEFINE k == e.index + 1
<1>0. /\ e.type \in Types /\ e.index \in Nat /\ e.kind \in Kinds /\ e.body \in Bodies
      /\ e.usage \in Stream!Usages
      /\ Spoken(e) => e.body \in Seq(Nat) /\ (e.body # << >> => m > 0)
  BY DEF Frames, Events
<1>1. r.items \in Seq(Shapes) /\ r.lost \in BOOLEAN
  BY DEF Readers
<1>2. CASE e.type = "item.added"
  <2>1. f = [r EXCEPT !.items = Append(@, [kind |-> e.kind, whole |-> << >>, open |-> TRUE]),
                      !.lost = @ \/ e.index # Len(r.items)]
    <3>1. f = Stream!Adds(r, e)
      BY <1>2 DEF Stream!Follow, Stream!Inner, Stream!Terminals
    <3>. QED
      BY <3>1, Zenon DEF Stream!Adds
  <2>. DEFINE x == [kind |-> e.kind, whole |-> << >>, open |-> TRUE]
  <2>2. x \in Shapes /\ x.whole = << >>
    BY <1>0 DEF Shapes
  <2>. HIDE DEF x
  <2>3. Append(r.items, x) \in Seq(Shapes) /\ (Heard(Append(r.items, x)) => Heard(r.items))
    BY <1>1, <2>2 DEF Heard
  <2>4. f = [r EXCEPT !.items = Append(r.items, x), !.lost = r.lost \/ e.index # Len(r.items)]
    BY <2>1 DEF x
  <2>. QED
    BY <1>2, <2>3, <2>4 DEF Readers, Stream!Terminals
<1>3. CASE e.type \in {"delta", "item.done"} /\ Stream!IsOpen(r, e)
  <2>1. k \in DOMAIN r.items /\ r.items[k] \in Shapes
    BY <1>0, <1>1, <1>3 DEF Stream!IsOpen
  <2>. DEFINE D == [r.items EXCEPT ![k].whole = @ \o e.body]
              O == [r.items EXCEPT ![k].open = FALSE]
  <2>2. CASE e.type = "delta"
    <3>1. f = [r EXCEPT !.items = D]
      <4>1. f = Stream!Grows(r, e)
        BY <1>3, <2>2 DEF Stream!Follow, Stream!Inner, Stream!Terminals
      <4>. QED
        BY <4>1, Zenon DEF Stream!Grows
    <3>2. e.body \in Seq(Nat) /\ (e.body # << >> => m > 0)
      BY <1>0, <2>2 DEF Spoken
    <3>3. r.items[k].whole \o e.body \in Seq(Nat)
      BY <2>1, <3>2 DEF Shapes
    <3>4. [r.items[k] EXCEPT !.whole = r.items[k].whole \o e.body] \in Shapes
      BY <2>1, <3>3 DEF Shapes
    <3>5. D = [r.items EXCEPT ![k] = [r.items[k] EXCEPT !.whole = r.items[k].whole \o e.body]]
      BY Zenon
    <3>6. D \in Seq(Shapes) /\ DOMAIN D = DOMAIN r.items
      BY <1>1, <2>1, <3>4, <3>5
    <3>7. ~(m > 0) => e.body = << >>
      BY <3>2
    <3>8. ~(m > 0) => \A i \in DOMAIN r.items : D[i].whole = r.items[i].whole
      <4>1. r.items[k].whole \in Seq(Nat)
        BY <2>1 DEF Shapes
      <4>2. r.items[k].whole \o << >> = r.items[k].whole
        BY <4>1
      <4>3. \A i \in DOMAIN r.items : i # k => D[i] = r.items[i]
        BY <3>5, Zenon
      <4>4. D[k].whole = r.items[k].whole \o e.body
        BY <2>1, <3>5, Zenon DEF Shapes
      <4>. HIDE DEF D
      <4>. QED
        BY <3>7, <4>2, <4>3, <4>4
    <3>9. Heard(D) => Heard(r.items) \/ m > 0
      <4>. HIDE DEF D
      <4>. QED
        BY <3>6, <3>8 DEF Heard
    <3>. HIDE DEF D
    <3>. QED
      BY <2>2, <3>1, <3>6, <3>9 DEF Readers, Stream!Terminals
  <2>3. CASE e.type = "item.done"
    <3>1. f = [r EXCEPT !.items = O, !.lost = @ \/ e.body \notin {<< >>, r.items[k].whole}]
      <4>1. f = Stream!Shuts(r, e)
        BY <1>3, <2>3 DEF Stream!Follow, Stream!Inner, Stream!Terminals
      <4>. QED
        BY <4>1, Zenon DEF Stream!Shuts
    <3>2. O = [r.items EXCEPT ![k] = [r.items[k] EXCEPT !.open = FALSE]]
      BY Zenon
    <3>3. [r.items[k] EXCEPT !.open = FALSE] \in Shapes
      BY <2>1 DEF Shapes
    <3>4. O \in Seq(Shapes) /\ DOMAIN O = DOMAIN r.items
      BY <1>1, <2>1, <3>2, <3>3
    <3>5. \A i \in DOMAIN r.items : O[i].whole = r.items[i].whole
      BY <2>1, <3>2 DEF Shapes
    <3>6. Heard(O) => Heard(r.items)
      <4>. HIDE DEF O
      <4>. QED
        BY <3>4, <3>5 DEF Heard
    <3>. HIDE DEF O
    <3>. QED
      BY <2>3, <3>1, <3>4, <3>6 DEF Readers, Stream!Terminals
  <2>. QED
    BY <1>3, <2>2, <2>3
<1>4. CASE e.type \in {"delta", "item.done"} /\ ~Stream!IsOpen(r, e)
  <2>1. f = [r EXCEPT !.lost = TRUE]
    <3>1. f = Stream!Loses(r)
      BY <1>4 DEF Stream!Follow, Stream!Inner, Stream!Terminals
    <3>. QED
      BY <3>1, Zenon DEF Stream!Loses
  <2>. QED
    BY <1>4, <2>1 DEF Readers, Stream!Terminals
<1>5. CASE e.type \in {"part.added", "part.done", "content.done"}
  <2>1. f = r \/ f = [r EXCEPT !.lost = TRUE]
    <3>1. f = r \/ f = Stream!Loses(r)
      BY <1>5 DEF Stream!Follow, Stream!Inner, Stream!Terminals
    <3>. QED
      BY <3>1, Zenon DEF Stream!Loses
  <2>. QED
    BY <1>5, <2>1 DEF Readers, Stream!Terminals
<1>6. CASE e.type = "chunk"
  <2>. DEFINE x == [kind |-> "text", whole |-> Stream!Written(r) \o e.body, open |-> TRUE]
  <2>1. f = [r EXCEPT !.items = << x >>]
    <3>1. f = Stream!Reprints(r, e)
      BY <1>6 DEF Stream!Follow, Stream!Inner, Stream!Terminals
    <3>. QED
      BY <3>1, Zenon DEF Stream!Reprints
  <2>2. e.body \in Seq(Nat) /\ (e.body # << >> => m > 0)
    BY <1>0, <1>6 DEF Spoken
  <2>3. /\ Stream!Written(r) \in Seq(Nat)
        /\ Stream!Written(r) # << >> => Heard(r.items)
    <3>1. CASE r.items = << >>
      BY <3>1 DEF Stream!Written
    <3>2. CASE r.items # << >>
      <4>1. 1 \in DOMAIN r.items /\ r.items[1] \in Shapes
        BY <1>1, <3>2
      <4>. QED
        BY <3>2, <4>1 DEF Stream!Written, Heard, Shapes
    <3>. QED
      BY <3>1, <3>2
  <2>4. x \in Shapes /\ x.whole = Stream!Written(r) \o e.body
    <3>1. Stream!Written(r) \o e.body \in Seq(Nat)
      BY <2>2, <2>3
    <3>2. \A k1 \in Kinds, w \in Seq(Nat) : [kind |-> k1, whole |-> w, open |-> TRUE] \in Shapes
      BY DEF Shapes
    <3>4. "text" \in Kinds
      BY DEF Kinds
    <3>3. x \in Shapes
      BY <3>1, <3>2, <3>4
    <3>. QED
      BY <3>3
  <2>5. Stream!Written(r) = << >> /\ e.body = << >> => x.whole = << >>
    BY <2>4
  <2>. HIDE DEF x
  <2>6. << x >> \in Seq(Shapes) /\ (Heard(<< x >>) => x.whole # << >>)
    BY <2>4 DEF Heard
  <2>. QED
    BY <1>6, <2>1, <2>2, <2>3, <2>5, <2>6 DEF Readers, Stream!Terminals
<1>7. CASE e.type \in Stream!Terminals
  <2>1. IF e.type = "DONE" /\ r.said = "error" THEN f = r
        ELSE f = [r EXCEPT !.said = e.type, !.output = e.body, !.usage = e.usage]
    <3>1. f = IF e.type = "DONE" /\ r.said = "error" THEN r ELSE Stream!Ends(r, e)
      BY <1>7 DEF Stream!Follow, Stream!Inner, Stream!Terminals
    <3>. QED
      BY <3>1, Zenon DEF Stream!Ends
  <2>2. e.type \in Types \cup {"nothing"}
    BY <1>0
  <2>3. CASE e.type = "DONE" /\ r.said = "error"
    <3>1. f = r
      BY <2>1, <2>3
    <3>. QED
      BY <2>3, <3>1
  <2>4. CASE ~(e.type = "DONE" /\ r.said = "error")
    <3>1. f = [r EXCEPT !.said = e.type, !.output = e.body, !.usage = e.usage]
      BY <2>1, <2>4
    <3>. QED
      BY <1>0, <1>7, <2>2, <2>4, <3>1 DEF Readers
  <2>. QED
    BY <2>3, <2>4
<1>8. CASE e.type \notin {"item.added", "delta", "item.done", "part.added", "part.done",
                          "content.done", "chunk"} \cup Stream!Terminals
  <2>1. f = r
    BY <1>8 DEF Stream!Follow, Stream!Inner, Stream!Terminals
  <2>. QED
    BY <1>8, <2>1 DEF Readers
<1>. QED
  BY <1>2, <1>3, <1>4, <1>5, <1>6, <1>7, <1>8

-----------------------------------------------------------------------------
(* Sequences.                                                              *)

\* A sequence after another holds both, in their places.
LEMMA JoinIs ==
    ASSUME NEW S, NEW x \in Seq(S), NEW y \in Seq(S)
    PROVE  /\ x \o y \in Seq(S) /\ Len(x \o y) = Len(x) + Len(y)
           /\ \A i \in 1..Len(x) : (x \o y)[i] = x[i]
           /\ \A i \in 1..Len(y) : (x \o y)[i + Len(x)] = y[i]
OBVIOUS

\* Two sequences that agree in each place are one.
LEMMA SameSeq ==
    ASSUME NEW S, NEW x \in Seq(S), NEW y \in Seq(S), Len(x) = Len(y),
           \A i \in 1..Len(x) : x[i] = y[i]
    PROVE  x = y
OBVIOUS

\* Joining one element appends it.
LEMMA JoinIsOne ==
    ASSUME NEW S, NEW x \in Seq(S), NEW e \in S
    PROVE  x \o << e >> = Append(x, e)
OBVIOUS

\* Joining is associative.
LEMMA JoinAgain ==
    ASSUME NEW S, NEW x \in Seq(S), NEW y \in Seq(S), NEW z \in Seq(S)
    PROVE  x \o (y \o z) = (x \o y) \o z
<1>. DEFINE u == y \o z
            v == x \o y
            f == x \o u
            g == v \o z
<1>1. /\ u \in Seq(S) /\ Len(u) = Len(y) + Len(z)
      /\ \A i \in 1..Len(y) : u[i] = y[i]
      /\ \A i \in 1..Len(z) : u[i + Len(y)] = z[i]
      /\ v \in Seq(S) /\ Len(v) = Len(x) + Len(y)
      /\ \A i \in 1..Len(x) : v[i] = x[i]
      /\ \A i \in 1..Len(y) : v[i + Len(x)] = y[i]
  BY JoinIs
<1>2. Len(x) \in Nat /\ Len(y) \in Nat /\ Len(z) \in Nat
  OBVIOUS
<1>. HIDE DEF u, v
<1>3. /\ f \in Seq(S) /\ Len(f) = Len(x) + Len(u)
      /\ \A i \in 1..Len(x) : f[i] = x[i]
      /\ \A i \in 1..Len(u) : f[i + Len(x)] = u[i]
      /\ g \in Seq(S) /\ Len(g) = Len(v) + Len(z)
      /\ \A i \in 1..Len(v) : g[i] = v[i]
      /\ \A i \in 1..Len(z) : g[i + Len(v)] = z[i]
  <2>0. u \in Seq(S) /\ v \in Seq(S)
    BY <1>1
  <2>1. /\ f \in Seq(S) /\ Len(f) = Len(x) + Len(u)
        /\ \A i \in 1..Len(x) : f[i] = x[i]
        /\ \A i \in 1..Len(u) : f[i + Len(x)] = u[i]
    BY <2>0, JoinIs
  <2>2. /\ g \in Seq(S) /\ Len(g) = Len(v) + Len(z)
        /\ \A i \in 1..Len(v) : g[i] = v[i]
        /\ \A i \in 1..Len(z) : g[i + Len(v)] = z[i]
    BY <2>0, JoinIs
  <2>. QED
    BY <2>1, <2>2
<1>. HIDE DEF f, g
<1>4. ASSUME NEW i \in 1..Len(f) PROVE f[i] = g[i]
  <2>1. CASE i \in 1..Len(x)
    <3>1. i \in 1..Len(v)
      BY <1>1, <1>2, <2>1
    <3>2. f[i] = x[i] /\ g[i] = v[i]
      BY <1>3, <2>1, <3>1
    <3>. QED
      BY <1>1, <2>1, <3>2
  <2>2. CASE i \in (Len(x) + 1)..Len(v)
    <3>. DEFINE j == i - Len(x)
    <3>1. j \in 1..Len(y) /\ j \in 1..Len(u) /\ j + Len(x) = i /\ i \in 1..Len(v)
      BY <1>1, <1>2, <2>2
    <3>. HIDE DEF j
    <3>. QED
      BY <1>1, <1>3, <3>1
  <2>3. CASE i \notin 1..Len(v)
    <3>. DEFINE j == i - Len(v)
    <3>1. /\ j \in 1..Len(z) /\ j + Len(v) = i /\ (j + Len(y)) + Len(x) = i
          /\ j + Len(y) \in 1..Len(u)
      BY <1>1, <1>2, <1>3, <2>3
    <3>. HIDE DEF j
    <3>. QED
      BY <1>1, <1>3, <3>1
  <2>. QED
    BY <1>1, <1>2, <2>1, <2>2, <2>3
<1>5. Len(f) = Len(g)
  BY <1>1, <1>2, <1>3
<1>6. f = g
  BY <1>3, <1>4, <1>5, SameSeq
<1>. QED
  BY <1>6 DEF f, g, u, v

-----------------------------------------------------------------------------
(* A reader and the frames in front of it.                                 *)

Reads(surfaceApi, r, e) ==
    [Stream!Follow(r, e) EXCEPT
        !.next = e.seq + 1,
        !.skipped = @ \/ (surfaceApi = "responses" /\ e.seq # r.next),
        !.late = @ \/ (r.said \in Stream!Terminals /\ ~(r.said = "error" /\ e.type = "DONE"))]

\* What reading an event leaves of a reader, whichever event it is.
LEMMA ReadsKeep ==
    ASSUME NEW m \in Nat, NEW r \in Readers, NEW e \in Frames(m), NEW w,
           NEW q, q = Reads(w, r, e), NEW f, f = Stream!Follow(r, e)
    PROVE  /\ q \in Readers /\ q.items = f.items /\ q.lost = f.lost
           /\ q.said = f.said /\ q.usage = f.usage
           /\ q.next = e.seq + 1
           /\ q.skipped = (r.skipped \/ (w = "responses" /\ e.seq # r.next))
           /\ q.late = (r.late \/ (r.said \in Stream!Terminals
                                   /\ ~(r.said = "error" /\ e.type = "DONE")))
<1>1. f \in Readers /\ f.skipped = r.skipped /\ f.late = r.late
  BY FollowKeeps
<1>2. e.seq + 1 \in Nat
  BY DEF Frames, Events
<1>. DEFINE sk == f.skipped \/ (w = "responses" /\ e.seq # r.next)
            la == f.late \/ (r.said \in Stream!Terminals /\ ~(r.said = "error" /\ e.type = "DONE"))
<1>3. q = [f EXCEPT !.next = e.seq + 1, !.skipped = sk, !.late = la]
  BY Zenon DEF Reads
<1>4. sk \in BOOLEAN /\ la \in BOOLEAN
  BY <1>1 DEF Readers
<1>5. /\ q \in Readers /\ q.items = f.items /\ q.lost = f.lost
      /\ q.said = f.said /\ q.usage = f.usage
      /\ q.next = e.seq + 1 /\ q.skipped = sk /\ q.late = la
  <2>. HIDE DEF sk, la
  <2>. QED
    BY <1>1, <1>2, <1>3, <1>4 DEF Readers
<1>. QED
  BY <1>1, <1>5

\* A reader that has lost nothing and has not been told of an end; the number it expects.
Clear(r) ==
    r \in Readers /\ ~r.lost /\ ~r.skipped /\ ~r.late /\ r.said = "nothing"
Expects(w, r, n) == w = "responses" => r.next = n

\* A frame that is about an item the reader can place leaves it as clear as it was.
LEMMA ReadsOn ==
    ASSUME NEW m \in Nat, NEW r, Clear(r), NEW e \in Frames(m), NEW w, Expects(w, r, e.seq),
           e.type \notin Stream!Terminals, ~Stream!Follow(r, e).lost
    PROVE  /\ Clear(Reads(w, r, e)) /\ Expects(w, Reads(w, r, e), e.seq + 1)
           /\ Reads(w, r, e).items = Stream!Follow(r, e).items
<1>1. r \in Readers
  BY DEF Clear
<1>. DEFINE q == Reads(w, r, e)
            f == Stream!Follow(r, e)
<1>2. /\ q \in Readers /\ q.items = f.items /\ q.lost = f.lost /\ q.said = f.said
      /\ q.next = e.seq + 1
      /\ q.skipped = (r.skipped \/ (w = "responses" /\ e.seq # r.next))
      /\ q.late = (r.late \/ (r.said \in Stream!Terminals
                              /\ ~(r.said = "error" /\ e.type = "DONE")))
  BY <1>1, ReadsKeep
<1>3. f.said = r.said
  BY <1>1, FollowKeeps
<1>. HIDE DEF q, f
<1>4. r.said \notin Stream!Terminals
  BY DEF Clear, Stream!Terminals
<1>5. Clear(q) /\ Expects(w, q, e.seq + 1)
  BY <1>2, <1>3, <1>4 DEF Clear, Expects, f
<1>. QED
  BY <1>2, <1>5 DEF q, f

\* The events that are about one item.
Fresh(kind, whole) == [kind |-> kind, whole |-> whole, open |-> TRUE]
Shut(kind, whole) == [kind |-> kind, whole |-> whole, open |-> FALSE]
Stands(items, item) ==
    /\ item.index + 1 \in DOMAIN items
    /\ items[item.index + 1].open /\ items[item.index + 1].kind = item.kind

Put(items, k, x) == [items EXCEPT ![k] = x]

\* Putting an item in a place changes that place alone.
LEMMA PutIs ==
    ASSUME NEW items \in Seq(Shapes), NEW k \in DOMAIN items, NEW x \in Shapes
    PROVE  /\ Put(items, k, x) \in Seq(Shapes) /\ Len(Put(items, k, x)) = Len(items)
           /\ DOMAIN Put(items, k, x) = DOMAIN items
           /\ Put(items, k, x)[k] = x
           /\ \A i \in DOMAIN items : i # k => Put(items, k, x)[i] = items[i]
BY DEF Put

\* A reader that is told of the next item has it, with nothing in it.
LEMMA FollowAdded ==
    ASSUME NEW m \in Nat, NEW r \in Readers, ~r.lost, NEW e \in Frames(m),
           e.type = "item.added", e.index = Len(r.items)
    PROVE  /\ ~Stream!Follow(r, e).lost
           /\ Stream!Follow(r, e).items = Append(r.items, Fresh(e.kind, << >>))
<1>1. Stream!Follow(r, e) = Stream!Adds(r, e)
  BY DEF Stream!Follow, Stream!Inner, Stream!Terminals
<1>. DEFINE new == Append(r.items, [kind |-> e.kind, whole |-> << >>, open |-> TRUE])
            lo == r.lost \/ e.index # Len(r.items)
<1>2. Stream!Adds(r, e) = [r EXCEPT !.items = new, !.lost = lo]
  BY Zenon DEF Stream!Adds
<1>3. lo = FALSE
  BY DEF Readers
<1>4. new = Append(r.items, Fresh(e.kind, << >>))
  BY DEF Fresh, Shut
<1>. HIDE DEF new, lo
<1>. QED
  BY <1>1, <1>2, <1>3, <1>4 DEF Readers

\* A piece for an item that is open grows that item and loses nothing.
LEMMA FollowDelta ==
    ASSUME NEW m \in Nat, NEW r \in Readers, ~r.lost, NEW e \in Frames(m),
           e.type = "delta", Stands(r.items, e),
           NEW k, k = e.index + 1
    PROVE  /\ ~Stream!Follow(r, e).lost
           /\ Stream!Follow(r, e).items
                = Put(r.items, k, Fresh(e.kind, r.items[k].whole \o e.body))
<1>1. Stream!Follow(r, e) = Stream!Grows(r, e)
  BY DEF Stream!Follow, Stream!Inner, Stream!Terminals, Stream!IsOpen, Stands
<1>. DEFINE old == r.items[k]
            grown == [old EXCEPT !.whole = old.whole \o e.body]
            new == [r.items EXCEPT ![k] = grown]
<1>2. Stream!Grows(r, e) = [r EXCEPT !.items = new]
  BY Zenon DEF Stream!Grows
<1>3. old \in Shapes /\ old.open = TRUE /\ old.kind = e.kind
  <2>1. k \in DOMAIN r.items /\ r.items \in Seq(Shapes) /\ old.open /\ old.kind = e.kind
    BY DEF Stands, Readers
  <2>2. old \in Shapes
    BY <2>1
  <2>. HIDE DEF old
  <2>. QED
    BY <2>1, <2>2 DEF Shapes
<1>4. grown = Fresh(e.kind, old.whole \o e.body)
  <2>1. \A o \in Shapes : \A x : [o EXCEPT !.whole = x]
                                  = [kind |-> o.kind, whole |-> x, open |-> o.open]
    BY DEF Shapes
  <2>. HIDE DEF old
  <2>. QED
    BY <1>3, <2>1, ZenonT(30) DEF Fresh, Shut
<1>5. new = Put(r.items, k, Fresh(e.kind, old.whole \o e.body))
  BY <1>4, Zenon DEF Put
<1>. HIDE DEF new, grown
<1>. QED
  BY <1>1, <1>2, <1>5 DEF Readers

\* The end of an item that is open shuts it, when it repeats its text or says none.
LEMMA FollowDone ==
    ASSUME NEW m \in Nat, NEW r \in Readers, ~r.lost, NEW e \in Frames(m),
           e.type = "item.done", Stands(r.items, e),
           NEW k, k = e.index + 1, e.body \in {<< >>, r.items[k].whole}
    PROVE  /\ ~Stream!Follow(r, e).lost
           /\ Stream!Follow(r, e).items
                = Put(r.items, k, Shut(e.kind, r.items[k].whole))
<1>1. Stream!Follow(r, e) = Stream!Shuts(r, e)
  BY DEF Stream!Follow, Stream!Inner, Stream!Terminals, Stream!IsOpen, Stands
<1>. DEFINE old == r.items[k]
            shut == [old EXCEPT !.open = FALSE]
            new == [r.items EXCEPT ![k] = shut]
            lo == r.lost \/ e.body \notin {<< >>, old.whole}
<1>2. Stream!Shuts(r, e) = [r EXCEPT !.items = new, !.lost = lo]
  BY Zenon DEF Stream!Shuts
<1>3. old \in Shapes /\ old.kind = e.kind
  BY DEF Stands, Readers
<1>4. shut = Shut(e.kind, old.whole)
  <2>1. \A o \in Shapes : \A b : [o EXCEPT !.open = b]
                                  = [kind |-> o.kind, whole |-> o.whole, open |-> b]
    BY DEF Shapes
  <2>. HIDE DEF old
  <2>. QED
    BY <1>3, <2>1 DEF Fresh, Shut
<1>5. new = Put(r.items, k, Shut(e.kind, old.whole))
  BY <1>4, Zenon DEF Put
<1>6. lo = FALSE
  BY DEF Readers
<1>. HIDE DEF new, shut, lo
<1>. QED
  BY <1>1, <1>2, <1>5, <1>6 DEF Readers

\* The frames around a part leave what the reader has alone.
LEMMA FollowInner ==
    ASSUME NEW r, NEW e,
           \/ e.type \in {"part.added", "part.done", "content.done"} /\ Stands(r.items, e)
           \/ e.type \in {"created", "in_progress", "message_delta"}
    PROVE  Stream!Follow(r, e) = r
BY DEF Stream!Follow, Stream!Inner, Stream!Terminals, Stream!IsOpen, Stands

-----------------------------------------------------------------------------
\* Reading these frames one after the other leads the reader r to q.
Leads(w, r, s, q) ==
    \E p \in [0..Len(s) -> Readers] :
       /\ p[0] = r /\ p[Len(s)] = q
       /\ \A i \in 1..Len(s) : p[i] = Reads(w, p[i - 1], s[i])

\* No frames lead a reader nowhere, and nowhere else.
LEMMA LeadsNowhere ==
    ASSUME NEW w, NEW r \in Readers
    PROVE  Leads(w, r, << >>, r) /\ \A q : Leads(w, r, << >>, q) => q = r
<1>. DEFINE p == [i \in 0..0 |-> r]
<1>1. p \in [0..0 -> Readers] /\ p[0] = r /\ Len(<< >>) = 0
  OBVIOUS
<1>2. Leads(w, r, << >>, r)
  <2>1. p \in [0..Len(<< >>) -> Readers] /\ p[Len(<< >>)] = r /\ 1..Len(<< >>) = {}
    BY <1>1
  <2>. HIDE DEF p
  <2>. QED
    BY <1>1, <2>1 DEF Leads
<1>. QED
  BY <1>2 DEF Leads

\* One more frame leads the reader one step on.
LEMMA LeadsOn ==
    ASSUME NEW m \in Nat, NEW w, NEW r, NEW s \in Seq(Frames(m)), NEW q, Leads(w, r, s, q),
           NEW e \in Frames(m)
    PROVE  Leads(w, r, Append(s, e), Reads(w, q, e)) /\ q \in Readers
<1>1. PICK p \in [0..Len(s) -> Readers] :
         /\ p[0] = r /\ p[Len(s)] = q
         /\ \A i \in 1..Len(s) : p[i] = Reads(w, p[i - 1], s[i])
  BY DEF Leads
<1>. DEFINE n == Len(s)
            t == Append(s, e)
            z == Reads(w, q, e)
            p2 == [i \in 0..(n + 1) |-> IF i = n + 1 THEN z ELSE p[i]]
<1>2. n \in Nat /\ Len(t) = n + 1 /\ t[n + 1] = e /\ \A i \in 1..n : t[i] = s[i]
  OBVIOUS
<1>3. q \in Readers
  BY <1>1, <1>2
<1>4. z \in Readers
  BY <1>3, ReadsKeep
<1>. HIDE DEF z, n, t
<1>5. p2 \in [0..(n + 1) -> Readers]
  BY <1>1, <1>2, <1>4 DEF n
<1>6. p2[0] = r /\ p2[n + 1] = z /\ p2[n] = q
  BY <1>1, <1>2 DEF n
<1>7. ASSUME NEW i \in 1..(n + 1) PROVE p2[i] = Reads(w, p2[i - 1], t[i])
  <2>1. CASE i = n + 1
    <3>1. i - 1 = n
      BY <1>2, <2>1
    <3>. QED
      BY <1>2, <1>6, <2>1, <3>1 DEF z
  <2>2. CASE i \in 1..n
    <3>1. i - 1 \in 0..n /\ i \in 0..n /\ i # n + 1 /\ i - 1 # n + 1
      BY <1>2, <2>2
    <3>2. p2[i] = p[i] /\ p2[i - 1] = p[i - 1]
      BY <1>2, <3>1
    <3>. QED
      BY <1>1, <1>2, <2>2, <3>2 DEF n
  <2>. QED
    BY <1>2, <2>1, <2>2
<1>8. Leads(w, r, t, z)
  <2>. HIDE DEF p2
  <2>. QED
    BY <1>2, <1>5, <1>6, <1>7 DEF Leads
<1>. QED
  BY <1>3, <1>8 DEF t, z

\* The reader takes the first frame and the rest leads it where they all led.
LEMMA LeadsFrom ==
    ASSUME NEW m \in Nat, NEW w, NEW r, NEW s \in Seq(Frames(m)), s # << >>, NEW q,
           Leads(w, r, s, q)
    PROVE  Leads(w, Reads(w, r, Head(s)), Tail(s), q) /\ r \in Readers
<1>1. PICK p \in [0..Len(s) -> Readers] :
         /\ p[0] = r /\ p[Len(s)] = q
         /\ \A i \in 1..Len(s) : p[i] = Reads(w, p[i - 1], s[i])
  BY DEF Leads
<1>. DEFINE n == Len(s)
            t == Tail(s)
            p2 == [i \in 0..(n - 1) |-> p[i + 1]]
<1>2. /\ n \in Nat /\ n >= 1 /\ Len(t) = n - 1 /\ Head(s) = s[1]
      /\ \A i \in 1..(n - 1) : t[i] = s[i + 1]
  OBVIOUS
<1>. HIDE DEF n, t
<1>3. p2 \in [0..(n - 1) -> Readers]
  BY <1>1, <1>2 DEF n
<1>4. p[1] = Reads(w, p[1 - 1], s[1]) /\ 1 - 1 = 0
  BY <1>1, <1>2 DEF n
<1>5. p2[0] = Reads(w, r, Head(s)) /\ p2[n - 1] = q
  BY <1>1, <1>2, <1>4 DEF n
<1>6. ASSUME NEW i \in 1..(n - 1) PROVE p2[i] = Reads(w, p2[i - 1], t[i])
  <2>1. i + 1 \in 1..n /\ (i + 1) - 1 = i /\ i \in 0..(n - 1) /\ i - 1 \in 0..(n - 1)
        /\ (i - 1) + 1 = i
    BY <1>2
  <2>2. p[i + 1] = Reads(w, p[(i + 1) - 1], s[i + 1])
    BY <1>1, <2>1 DEF n
  <2>. QED
    BY <1>2, <2>1, <2>2
<1>7. Leads(w, Reads(w, r, Head(s)), t, q)
  <2>. HIDE DEF p2
  <2>. QED
    BY <1>2, <1>3, <1>5, <1>6 DEF Leads
<1>. QED
  BY <1>1, <1>2, <1>7 DEF n, t

\* What a reader knows after one event of what it knew before.
LEMMA StepKeeps ==
    ASSUME NEW m \in Nat, NEW w, NEW x \in Readers, NEW e \in Frames(m)
    PROVE  LET y == Reads(w, x, e)
           IN  /\ x.lost => y.lost
               /\ x.skipped => y.skipped
               /\ x.late => y.late
               /\ x.said = "error" => y.late \/ y.said = "error"
               /\ x.said \in Stream!Terminals => x.said = "error" \/ y.late
               /\ Heard(y.items) => Heard(x.items) \/ m > 0
<1>. DEFINE f == Stream!Follow(x, e)
            y == Reads(w, x, e)
<1>1. /\ x.lost => f.lost
      /\ f.said = x.said \/ (e.type \in Stream!Terminals /\ f.said = e.type)
      /\ e.type = "DONE" /\ x.said = "error" => f.said = "error"
      /\ Heard(f.items) => Heard(x.items) \/ m > 0
  BY FollowKeeps
<1>2. /\ y.lost = f.lost /\ y.said = f.said /\ y.items = f.items
      /\ y.skipped = (x.skipped \/ (w = "responses" /\ e.seq # x.next))
      /\ y.late = (x.late \/ (x.said \in Stream!Terminals
                              /\ ~(x.said = "error" /\ e.type = "DONE")))
  BY ReadsKeep
<1>3. "error" \in Stream!Terminals
  BY DEF Stream!Terminals
<1>. HIDE DEF f, y
<1>4. x.said = "error" => y.late \/ y.said = "error"
  BY <1>1, <1>2, <1>3
<1>. QED
  BY <1>1, <1>2, <1>4 DEF y

\* What a reader noticed on the way it still knows at the end, and a reader that was told
\* of an end and got more than the DONE behind an error has noticed.
LEMMA LeadsKeep ==
    ASSUME NEW m \in Nat, NEW w, NEW r, NEW s \in Seq(Frames(m)), NEW q, Leads(w, r, s, q)
    PROVE  /\ r \in Readers /\ q \in Readers
           /\ r.lost => q.lost
           /\ r.skipped => q.skipped
           /\ r.late => q.late
           /\ r.said = "error" => q.late \/ q.said = "error"
           /\ s # << >> /\ r.said \in Stream!Terminals => r.said = "error" \/ q.late
<1>1. PICK p \in [0..Len(s) -> Readers] :
         /\ p[0] = r /\ p[Len(s)] = q
         /\ \A i \in 1..Len(s) : p[i] = Reads(w, p[i - 1], s[i])
  BY DEF Leads
<1>. DEFINE n == Len(s)
            Knows(k) ==
              /\ r.lost => p[k].lost
              /\ r.skipped => p[k].skipped
              /\ r.late => p[k].late
              /\ r.said = "error" => p[k].late \/ p[k].said = "error"
              /\ k > 0 /\ r.said \in Stream!Terminals => r.said = "error" \/ p[k].late
            ok == {k \in 0..n : Knows(k)}
<1>2. n \in Nat /\ p[0] \in Readers /\ p[n] \in Readers
  BY <1>1
<1>3. 0 \in ok
  BY <1>1, <1>2
<1>4. ASSUME NEW k \in 0..(n - 1), k \in ok PROVE k + 1 \in ok
  <2>1. k \in 0..n /\ k + 1 \in 1..n /\ (k + 1) - 1 = k /\ k + 1 \in 0..n /\ k + 1 > 0
    BY <1>2
  <2>2. p[k] \in Readers /\ s[k + 1] \in Frames(m)
    BY <1>1, <2>1
  <2>. DEFINE x == p[k]
              y == p[k + 1]
  <2>3. /\ x.lost => y.lost
        /\ x.skipped => y.skipped
        /\ x.late => y.late
        /\ x.said = "error" => y.late \/ y.said = "error"
        /\ x.said \in Stream!Terminals => x.said = "error" \/ y.late
    <3>1. y = Reads(w, x, s[k + 1])
      BY <1>1, <2>1
    <3>. QED
      BY <2>2, <3>1, StepKeeps
  <2>4. Knows(k)
    BY <1>4
  <2>5. k = 0 => x = r
    BY <1>1
  <2>6. k > 0 \/ k = 0
    BY <2>1
  <2>. HIDE DEF x, y
  <2>7. /\ r.lost => y.lost
        /\ r.skipped => y.skipped
        /\ r.late => y.late
        /\ r.said = "error" => y.late \/ y.said = "error"
        /\ r.said \in Stream!Terminals => r.said = "error" \/ y.late
    BY <2>3, <2>4, <2>5, <2>6 DEF x
  <2>8. Knows(k + 1)
    BY <2>7 DEF y
  <2>. QED
    BY <2>1, <2>8
<1>5. \A k \in 0..n : k \in ok
  <2>. HIDE DEF ok, n
  <2>. QED
    BY <1>2, <1>3, <1>4, UpTo
<1>6. Knows(n)
  BY <1>2, <1>5
<1>7. s # << >> => n > 0
  BY <1>2
<1>. QED
  BY <1>1, <1>2, <1>6, <1>7

-----------------------------------------------------------------------------
(* An adapter and what a reader makes of its events.                       *)

\* An event about an item is a frame about that item.
LEMMA EventIsFrame ==
    ASSUME NEW m \in Nat, NEW type \in Types, NEW item, item.index \in Nat, item.kind \in Kinds,
           NEW body \in Seq(Nat), type = "delta" /\ body # << >> => m > 0, type # "chunk"
    PROVE  LET e == Stream!Event(type, item, body)
           IN  /\ e \in Frames(m) /\ e.type = type /\ e.index = item.index
               /\ e.kind = item.kind /\ e.body = body
<1>. DEFINE e == [type |-> type, index |-> item.index, kind |-> item.kind, body |-> body,
                  usage |-> Stream!None, seq |-> 0]
<1>1. body \in Bodies
  BY BodiesAre
<1>2. Stream!None \in Stream!Usages
  BY DEF Stream!None, Stream!Usages
<1>3. e \in Events
  BY <1>1, <1>2 DEF Events
<1>4. e \in Frames(m)
  BY <1>3 DEF Frames, Spoken
<1>. QED
  BY <1>4 DEF Stream!Event

Number(e, n) == [e EXCEPT !.seq = n]
Numbered(n, s) == [i \in DOMAIN s |-> Number(s[i], n + i - 1)]

\* A frame that is given its number is otherwise the frame it was.
LEMMA NumberIs ==
    ASSUME NEW m \in Nat, NEW e \in Frames(m), NEW n \in Nat
    PROVE  LET y == Number(e, n)
           IN  /\ y \in Frames(m) /\ y.type = e.type /\ y.index = e.index /\ y.kind = e.kind
               /\ y.body = e.body /\ y.usage = e.usage /\ y.seq = n
BY DEF Frames, Events, Spoken, Number

\* The events take their numbers one after the other.
LEMMA EmitIs ==
    ASSUME NEW m \in Nat, NEW a \in Adapters(m), NEW s \in Seq(Frames(m)),
           NEW b, b = Stream!Emit(a, s)
    PROVE  /\ b \in Adapters(m)
           /\ b.started = a.started /\ b.open = a.open /\ b.closed = a.closed
           /\ b.tools = a.tools /\ b.next = a.next /\ b.finish = a.finish
           /\ b.seq = a.seq + Len(s)
           /\ b.out = a.out \o Numbered(a.seq, s)
<1>. DEFINE t == [i \in DOMAIN s |-> [s[i] EXCEPT !.seq = a.seq + i - 1]]
<1>1. b = [a EXCEPT !.seq = a.seq + Len(s), !.out = a.out \o t]
  BY Zenon DEF Stream!Emit
<1>2. a.seq \in Nat /\ a.out \in Seq(Frames(m)) /\ DOMAIN s = 1..Len(s) /\ Len(s) \in Nat
  BY DEF Adapters
<1>3. ASSUME NEW i \in 1..Len(s) PROVE [s[i] EXCEPT !.seq = a.seq + i - 1] \in Frames(m)
  <2>1. a.seq + i - 1 \in Nat
    BY <1>2
  <2>2. s[i] \in Frames(m)
    BY <1>2
  <2>3. \A e \in Frames(m), k \in Nat : [e EXCEPT !.seq = k] \in Frames(m)
    BY DEF Frames, Events, Spoken
  <2>. QED
    BY <2>1, <2>2, <2>3
<1>4. t \in Seq(Frames(m))
  BY <1>2, <1>3
<1>5. a.out \o t \in Seq(Frames(m)) /\ a.seq + Len(s) \in Nat
  BY <1>2, <1>4
<1>. HIDE DEF t
<1>6. /\ b \in Adapters(m)
      /\ b.started = a.started /\ b.open = a.open /\ b.closed = a.closed
      /\ b.tools = a.tools /\ b.next = a.next /\ b.finish = a.finish
      /\ b.seq = a.seq + Len(s)
      /\ b.out = a.out \o t
  BY <1>1, <1>5 DEF Adapters
<1>. QED
  BY <1>6 DEF t, Numbered, Number

\* Frames that are emitted together are numbered one after the other.
LEMMA NumberedIs ==
    ASSUME NEW m \in Nat, NEW n \in Nat, NEW s \in Seq(Frames(m))
    PROVE  /\ Numbered(n, s) \in Seq(Frames(m)) /\ Len(Numbered(n, s)) = Len(s)
           /\ \A i \in 1..Len(s) : Numbered(n, s)[i] = Number(s[i], n + i - 1)
<1>1. \A i \in 1..Len(s) : n + i - 1 \in Nat /\ s[i] \in Frames(m)
  OBVIOUS
<1>2. \A i \in 1..Len(s) : Number(s[i], n + i - 1) \in Frames(m)
  BY <1>1, NumberIs
<1>3. DOMAIN s = 1..Len(s) /\ Len(s) \in Nat
  OBVIOUS
<1>. QED
  BY <1>2, <1>3 DEF Numbered

\* Emitting one frame sends it with the next number.
LEMMA EmitOne ==
    ASSUME NEW m \in Nat, NEW a \in Adapters(m), NEW e \in Frames(m)
    PROVE  /\ Stream!Emit(a, << e >>).out = Append(a.out, Number(e, a.seq))
           /\ Stream!Emit(a, << e >>).seq = a.seq + 1
           /\ Stream!Emit(a, << e >>) \in Adapters(m)
<1>1. a.seq \in Nat /\ a.out \in Seq(Frames(m))
  BY DEF Adapters
<1>2. << e >> \in Seq(Frames(m)) /\ Len(<< e >>) = 1 /\ << e >>[1] = e
  OBVIOUS
<1>. DEFINE t == Numbered(a.seq, << e >>)
            x == Number(e, a.seq)
<1>3. t \in Seq(Frames(m)) /\ Len(t) = 1 /\ t[1] = Number(<< e >>[1], a.seq + 1 - 1)
  <2>. DEFINE s == << e >>
  <2>. HIDE DEF s
  <2>1. s \in Seq(Frames(m)) /\ Len(s) = 1
    BY <1>2 DEF s
  <2>2. /\ Numbered(a.seq, s) \in Seq(Frames(m)) /\ Len(Numbered(a.seq, s)) = 1
        /\ Numbered(a.seq, s)[1] = Number(s[1], a.seq + 1 - 1)
    BY <1>1, <2>1, NumberedIs
  <2>. QED
    BY <2>2 DEF s
<1>4. t[1] = x
  <2>1. a.seq + 1 - 1 = a.seq
    BY <1>1
  <2>. QED
    BY <1>2, <1>3, <2>1
<1>5. /\ Stream!Emit(a, << e >>).out = a.out \o t
      /\ Stream!Emit(a, << e >>).seq = a.seq + Len(<< e >>)
      /\ Stream!Emit(a, << e >>) \in Adapters(m)
  BY <1>2, EmitIs
<1>. HIDE DEF t, x
<1>6. t = << x >>
  BY <1>3, <1>4
<1>7. a.out \o << x >> = Append(a.out, x)
  <2>1. x \in Frames(m)
    BY <1>1, NumberIs DEF x
  <2>. QED
    BY <1>1, <2>1, JoinIsOne
<1>. QED
  BY <1>2, <1>5, <1>6, <1>7 DEF x

\* Numbering two runs of frames at once is numbering the second from where the first ended.
LEMMA NumberedOn ==
    ASSUME NEW m \in Nat, NEW n \in Nat, NEW s \in Seq(Frames(m)), NEW t \in Seq(Frames(m))
    PROVE  Numbered(n, s \o t) = Numbered(n, s) \o Numbered(n + Len(s), t)
<1>. DEFINE x == Numbered(n, s)
            y == Numbered(n + Len(s), t)
            z == Numbered(n, s \o t)
            u == s \o t
<1>1. /\ n + Len(s) \in Nat /\ u \in Seq(Frames(m)) /\ Len(u) = Len(s) + Len(t)
      /\ Len(s) \in Nat /\ Len(t) \in Nat
      /\ \A i \in 1..Len(s) : u[i] = s[i]
      /\ \A i \in 1..Len(t) : u[i + Len(s)] = t[i]
  OBVIOUS
<1>. HIDE DEF u
<1>2. /\ x \in Seq(Frames(m)) /\ Len(x) = Len(s)
      /\ \A i \in 1..Len(s) : x[i] = Number(s[i], n + i - 1)
  BY NumberedIs
<1>3. /\ y \in Seq(Frames(m)) /\ Len(y) = Len(t)
      /\ \A i \in 1..Len(t) : y[i] = Number(t[i], n + Len(s) + i - 1)
  BY <1>1, NumberedIs
<1>4. /\ z \in Seq(Frames(m)) /\ Len(z) = Len(s) + Len(t)
      /\ \A i \in 1..(Len(s) + Len(t)) : z[i] = Number(u[i], n + i - 1)
  BY <1>1, NumberedIs, ZenonT(60) DEF u
<1>. HIDE DEF x, y, z
<1>5. /\ x \o y \in Seq(Frames(m)) /\ Len(x \o y) = Len(s) + Len(t)
      /\ \A i \in 1..Len(s) : (x \o y)[i] = x[i]
      /\ \A i \in 1..Len(t) : (x \o y)[i + Len(s)] = y[i]
  <2>1. /\ x \o y \in Seq(Frames(m)) /\ Len(x \o y) = Len(x) + Len(y)
        /\ \A i \in 1..Len(x) : (x \o y)[i] = x[i]
        /\ \A i \in 1..Len(y) : (x \o y)[i + Len(x)] = y[i]
    <3>1. x \in Seq(Frames(m)) /\ y \in Seq(Frames(m))
      BY <1>2, <1>3
    <3>. QED
      BY <3>1, JoinIs
  <2>. QED
    BY <1>2, <1>3, <2>1
<1>6. ASSUME NEW i \in 1..(Len(s) + Len(t)) PROVE z[i] = (x \o y)[i]
  <2>1. CASE i \in 1..Len(s)
    BY <1>1, <1>2, <1>4, <1>5, <2>1
  <2>2. CASE i \notin 1..Len(s)
    <3>. DEFINE j == i - Len(s)
    <3>1. j \in 1..Len(t) /\ j + Len(s) = i /\ n + Len(s) + j - 1 = n + i - 1
      BY <1>1, <2>2
    <3>. HIDE DEF j
    <3>. QED
      BY <1>1, <1>3, <1>4, <1>5, <3>1
  <2>. QED
    BY <2>1, <2>2
<1>7. z = x \o y
  BY <1>4, <1>5, <1>6, SameSeq
<1>. QED
  BY <1>7 DEF x, y, z, u

\* An adapter is the record of its fields.
LEMMA AdapterIs ==
    ASSUME NEW m, NEW a \in Adapters(m)
    PROVE  a = [started |-> a.started, seq |-> a.seq, open |-> a.open, closed |-> a.closed,
                tools |-> a.tools, next |-> a.next, finish |-> a.finish, out |-> a.out]
BY DEF Adapters

\* Events emitted together are emitted one after the other.
LEMMA EmitMore ==
    ASSUME NEW m \in Nat, NEW a \in Adapters(m), NEW s \in Seq(Frames(m)), NEW t \in Seq(Frames(m))
    PROVE  Stream!Emit(a, s \o t) = Stream!Emit(Stream!Emit(a, s), t)
<1>. DEFINE b == Stream!Emit(a, s)
            c == Stream!Emit(b, t)
            u == s \o t
            d == Stream!Emit(a, u)
<1>1. a.seq \in Nat /\ a.out \in Seq(Frames(m)) /\ u \in Seq(Frames(m)) /\ a.seq + Len(s) \in Nat
  BY DEF Adapters
<1>2. /\ b \in Adapters(m)
      /\ b.started = a.started /\ b.open = a.open /\ b.closed = a.closed
      /\ b.tools = a.tools /\ b.next = a.next /\ b.finish = a.finish
      /\ b.seq = a.seq + Len(s) /\ b.out = a.out \o Numbered(a.seq, s)
  BY EmitIs
<1>3. b \in Adapters(m)
  BY <1>2
<1>. HIDE DEF b, u
<1>4. /\ c \in Adapters(m)
      /\ c.started = b.started /\ c.open = b.open /\ c.closed = b.closed
      /\ c.tools = b.tools /\ c.next = b.next /\ c.finish = b.finish
      /\ c.seq = b.seq + Len(t) /\ c.out = b.out \o Numbered(b.seq, t)
  BY <1>3, EmitIs
<1>5. /\ d \in Adapters(m)
      /\ d.started = a.started /\ d.open = a.open /\ d.closed = a.closed
      /\ d.tools = a.tools /\ d.next = a.next /\ d.finish = a.finish
      /\ d.seq = a.seq + Len(u) /\ d.out = a.out \o Numbered(a.seq, u)
  BY <1>1, EmitIs, ZenonT(60)
<1>. HIDE DEF c, d
<1>6. d.seq = c.seq
  BY <1>1, <1>2, <1>4, <1>5 DEF u
<1>7. d.out = c.out
  <2>1. Numbered(a.seq, u) = Numbered(a.seq, s) \o Numbered(a.seq + Len(s), t)
    BY <1>1, NumberedOn DEF u
  <2>2. Numbered(a.seq, s) \in Seq(Frames(m)) /\ Numbered(a.seq + Len(s), t) \in Seq(Frames(m))
    BY <1>1, NumberedIs
  <2>. DEFINE f == Numbered(a.seq, s)
              g == Numbered(a.seq + Len(s), t)
  <2>3. a.out \o (f \o g) = (a.out \o f) \o g
    <3>1. f \in Seq(Frames(m)) /\ g \in Seq(Frames(m)) /\ a.out \in Seq(Frames(m))
      BY <1>1, <2>2
    <3>. HIDE DEF f, g
    <3>2. \A x, y, z \in Seq(Frames(m)) : x \o (y \o z) = (x \o y) \o z
      BY JoinAgain, SMTT(30)
    <3>. QED
      BY <3>1, <3>2, ZenonT(60)
  <2>. QED
    BY <1>1, <1>2, <1>4, <1>5, <2>1, <2>3
<1>8. d = c
  <2>1. d = [started |-> d.started, seq |-> d.seq, open |-> d.open, closed |-> d.closed,
             tools |-> d.tools, next |-> d.next, finish |-> d.finish, out |-> d.out]
    BY <1>5, AdapterIs
  <2>2. c = [started |-> c.started, seq |-> c.seq, open |-> c.open, closed |-> c.closed,
             tools |-> c.tools, next |-> c.next, finish |-> c.finish, out |-> c.out]
    BY <1>4, AdapterIs
  <2>. QED
    BY <1>2, <1>4, <1>5, <1>6, <1>7, <2>1, <2>2
<1>. QED
  BY <1>8 DEF b, c, d, u

\* The reader r, led by what the adapter has put out, is at q, and clear.
Feeds(m, w, r, a, q) ==
    a \in Adapters(m) /\ Leads(w, r, a.out, q) /\ Clear(q) /\ Expects(w, q, a.seq)

\* A frame its reader follows takes the reader of the adapter with it.
LEMMA EmitFeeds ==
    ASSUME NEW m \in Nat, NEW w, NEW r, NEW a, NEW q, Feeds(m, w, r, a, q), NEW e \in Frames(m),
           e.type \notin Stream!Terminals,
           ~Stream!Follow(q, Number(e, a.seq)).lost
    PROVE  \E q2 : /\ Feeds(m, w, r, Stream!Emit(a, << e >>), q2)
                   /\ q2.items = Stream!Follow(q, Number(e, a.seq)).items
<1>. DEFINE x == Number(e, a.seq)
            b == Stream!Emit(a, << e >>)
            q2 == Reads(w, q, x)
<1>1. a \in Adapters(m) /\ a.out \in Seq(Frames(m)) /\ Clear(q) /\ a.seq \in Nat
  BY DEF Feeds, Adapters
<1>2. /\ b.out = Append(a.out, x) /\ b.seq = a.seq + 1 /\ b \in Adapters(m)
  BY <1>1, EmitOne
<1>3. x \in Frames(m) /\ x.type = e.type /\ x.seq = a.seq
  BY <1>1, NumberIs
<1>. HIDE DEF x, b
<1>4. ~Stream!Follow(q, x).lost
  BY DEF x
<1>5. Clear(q2) /\ Expects(w, q2, x.seq + 1) /\ q2.items = Stream!Follow(q, x).items
  <2>1. Expects(w, q, x.seq) /\ x.type \notin Stream!Terminals
    BY <1>3 DEF Feeds
  <2>. QED
    BY <1>1, <1>3, <1>4, <2>1, ReadsOn
<1>6. Leads(w, r, b.out, q2)
  <2>1. Leads(w, r, a.out, q)
    BY DEF Feeds
  <2>. QED
    BY <1>1, <1>2, <1>3, <2>1, LeadsOn
<1>. HIDE DEF q2
<1>7. Feeds(m, w, r, b, q2)
  BY <1>2, <1>3, <1>5, <1>6 DEF Feeds
<1>. QED
  BY <1>5, <1>7 DEF b, x

\* Who an adapter feeds has lost nothing and waits for the next number.
LEMMA FeedsAre ==
    ASSUME NEW m, NEW w, NEW r, NEW a, NEW q, Feeds(m, w, r, a, q)
    PROVE  /\ a \in Adapters(m) /\ q \in Readers /\ ~q.lost /\ q.items \in Seq(Shapes)
           /\ Clear(q) /\ Expects(w, q, a.seq)
BY DEF Feeds, Clear, Readers

\* The number of an event is nothing that is followed.
LEMMA NumberKeeps ==
    ASSUME NEW m \in Nat, NEW w, NEW r, NEW a, NEW q, Feeds(m, w, r, a, q), NEW e \in Frames(m)
    PROVE  LET x == Number(e, a.seq)
           IN  /\ x \in Frames(m) /\ x.type = e.type /\ x.index = e.index /\ x.kind = e.kind
               /\ x.body = e.body
               /\ Stands(q.items, e) => Stands(q.items, x)
<1>1. a.seq \in Nat
  BY DEF Feeds, Adapters
<1>2. \A n \in Nat : LET x == Number(e, n)
                     IN  /\ x \in Frames(m) /\ x.type = e.type /\ x.index = e.index
                         /\ x.kind = e.kind /\ x.body = e.body
  BY NumberIs
<1>. QED
  BY <1>1, <1>2 DEF Stands

\* Emitting the start of the next item gives the reader that item.
LEMMA EmitAdded ==
    ASSUME NEW m \in Nat, NEW w, NEW r, NEW a, NEW q, Feeds(m, w, r, a, q),
           NEW item, item.index \in Nat, item.index = Len(q.items), item.kind \in Kinds,
           NEW b, b = Stream!Emit(a, << Stream!Event("item.added", item, << >>) >>)
    PROVE  \E q2 : /\ Feeds(m, w, r, b, q2)
                   /\ q2.items = Append(q.items, Fresh(item.kind, << >>))
<1>1. PICK none \in Seq(Nat) : none = << >>
  <2>1. << >> \in Seq(Nat)
    OBVIOUS
  <2>. QED
    BY <2>1, Zenon
<1>. DEFINE e == Stream!Event("item.added", item, none)
            x == Number(e, a.seq)
<1>2. e \in Frames(m) /\ e.type = "item.added" /\ e.index = item.index /\ e.kind = item.kind
  <2>1. "item.added" \in Types /\ "item.added" # "delta" /\ "item.added" # "chunk"
    BY DEF Types
  <2>. QED
    BY <2>1, EventIsFrame
<1>3. b = Stream!Emit(a, << e >>)
  BY <1>1
<1>. HIDE DEF e
<1>4. x \in Frames(m) /\ x.type = e.type /\ x.index = e.index /\ x.kind = e.kind
  BY <1>2, NumberKeeps
<1>. HIDE DEF x
<1>5. /\ ~Stream!Follow(q, x).lost
      /\ Stream!Follow(q, x).items = Append(q.items, Fresh(x.kind, << >>))
  BY <1>2, <1>4, FeedsAre, FollowAdded
<1>6. e.type \notin Stream!Terminals
  BY <1>2 DEF Stream!Terminals
<1>7. \E q2 : Feeds(m, w, r, b, q2) /\ q2.items = Stream!Follow(q, x).items
  <2>1. e \in Frames(m) /\ ~Stream!Follow(q, Number(e, a.seq)).lost
    BY <1>2, <1>5 DEF x
  <2>2. \E q2 : /\ Feeds(m, w, r, Stream!Emit(a, << e >>), q2)
                 /\ q2.items = Stream!Follow(q, Number(e, a.seq)).items
    BY <1>6, <2>1, EmitFeeds
  <2>. QED
    BY <1>3, <2>2 DEF x
<1>. QED
  BY <1>2, <1>4, <1>5, <1>7

\* Emitting a piece of an open item grows it for the reader.
LEMMA EmitDelta ==
    ASSUME NEW m \in Nat, NEW w, NEW r, NEW a, NEW q, Feeds(m, w, r, a, q),
           NEW item, item.index \in Nat, item.kind \in Kinds, Stands(q.items, item),
           NEW piece \in Seq(Nat), piece # << >> => m > 0,
           NEW b, b = Stream!Emit(a, << Stream!Event("delta", item, piece) >>),
           NEW k, k = item.index + 1
    PROVE  \E q2 : /\ Feeds(m, w, r, b, q2)
                   /\ q2.items = Put(q.items, k, Fresh(item.kind, q.items[k].whole \o piece))
<1>. DEFINE e == Stream!Event("delta", item, piece)
            x == Number(e, a.seq)
<1>1. e \in Frames(m) /\ e.type = "delta" /\ e.index = item.index /\ e.kind = item.kind
      /\ e.body = piece
  <2>1. "delta" \in Types /\ "delta" # "chunk"
    BY DEF Types
  <2>. QED
    BY <2>1, EventIsFrame
<1>2. Stands(q.items, e)
  BY <1>1 DEF Stands
<1>. HIDE DEF e
<1>3. /\ x \in Frames(m) /\ x.type = e.type /\ x.index = e.index /\ x.kind = e.kind
      /\ x.body = e.body /\ Stands(q.items, x)
  BY <1>1, <1>2, NumberKeeps
<1>4. k = x.index + 1 /\ q \in Readers /\ ~q.lost /\ x.type = "delta"
  BY <1>1, <1>3, FeedsAre
<1>. HIDE DEF x
<1>5. /\ ~Stream!Follow(q, x).lost
      /\ Stream!Follow(q, x).items = Put(q.items, k, Fresh(x.kind, q.items[k].whole \o x.body))
  BY <1>3, <1>4, FollowDelta
<1>6. e.type \notin Stream!Terminals
  BY <1>1 DEF Stream!Terminals
<1>7. \E q2 : Feeds(m, w, r, b, q2) /\ q2.items = Stream!Follow(q, x).items
  BY <1>1, <1>5, <1>6, EmitFeeds DEF e, x
<1>. QED
  BY <1>1, <1>3, <1>5, <1>7

\* Emitting the end of an open item shuts it for the reader.
LEMMA EmitDone ==
    ASSUME NEW m \in Nat, NEW w, NEW r, NEW a, NEW q, Feeds(m, w, r, a, q),
           NEW item, item.index \in Nat, item.kind \in Kinds, Stands(q.items, item),
           NEW k, k = item.index + 1,
           NEW body \in Seq(Nat), body \in {<< >>, q.items[k].whole},
           NEW b, b = Stream!Emit(a, << Stream!Event("item.done", item, body) >>)
    PROVE  \E q2 : /\ Feeds(m, w, r, b, q2)
                   /\ q2.items = Put(q.items, k, Shut(item.kind, q.items[k].whole))
<1>. DEFINE e == Stream!Event("item.done", item, body)
            x == Number(e, a.seq)
<1>1. e \in Frames(m) /\ e.type = "item.done" /\ e.index = item.index /\ e.kind = item.kind
      /\ e.body = body
  <2>1. "item.done" \in Types /\ "item.done" # "chunk" /\ "item.done" # "delta"
    BY DEF Types
  <2>. QED
    BY <2>1, EventIsFrame
<1>2. Stands(q.items, e)
  BY <1>1 DEF Stands
<1>. HIDE DEF e
<1>3. /\ x \in Frames(m) /\ x.type = e.type /\ x.index = e.index /\ x.kind = e.kind
      /\ x.body = e.body /\ Stands(q.items, x)
  BY <1>1, <1>2, NumberKeeps
<1>4. k = x.index + 1 /\ q \in Readers /\ ~q.lost /\ x.type = "item.done"
      /\ x.body \in {<< >>, q.items[k].whole}
  BY <1>1, <1>3, FeedsAre
<1>. HIDE DEF x
<1>5. /\ ~Stream!Follow(q, x).lost
      /\ Stream!Follow(q, x).items = Put(q.items, k, Shut(x.kind, q.items[k].whole))
  BY <1>3, <1>4, FollowDone
<1>6. e.type \notin Stream!Terminals
  BY <1>1 DEF Stream!Terminals
<1>7. \E q2 : Feeds(m, w, r, b, q2) /\ q2.items = Stream!Follow(q, x).items
  BY <1>1, <1>5, <1>6, EmitFeeds DEF e, x
<1>. QED
  BY <1>1, <1>3, <1>5, <1>7

\* The events that change nothing of what the reader has put together.
LEMMA EmitInner ==
    ASSUME NEW m \in Nat, NEW w, NEW r, NEW a, NEW q, Feeds(m, w, r, a, q),
           NEW e \in Frames(m),
           \/ e.type \in {"part.added", "part.done", "content.done"} /\ Stands(q.items, e)
           \/ e.type \in {"created", "in_progress", "message_delta"}
    PROVE  \E q2 : Feeds(m, w, r, Stream!Emit(a, << e >>), q2) /\ q2.items = q.items
<1>. DEFINE x == Number(e, a.seq)
<1>1. x.type = e.type /\ (Stands(q.items, e) => Stands(q.items, x))
  BY NumberKeeps
<1>. HIDE DEF x
<1>2. Stream!Follow(q, x) = q
  BY <1>1, FollowInner
<1>3. ~Stream!Follow(q, x).lost
  BY <1>2, FeedsAre
<1>4. e.type \notin Stream!Terminals
  BY DEF Stream!Terminals
<1>5. \E q2 : Feeds(m, w, r, Stream!Emit(a, << e >>), q2) /\ q2.items = Stream!Follow(q, x).items
  BY <1>3, <1>4, EmitFeeds DEF x
<1>. QED
  BY <1>2, <1>5

-----------------------------------------------------------------------------
(* The reader has what the adapter says it has opened, and nothing else    *)
(* is open.                                                                *)

Opened(a) == a.open # Stream!Closed
Held(items, t) == t.kind = "call" /\ Stands(items, t) /\ items[t.index + 1].whole = t.whole
Distinct(tools) ==
    \A i, j \in DOMAIN tools :
       i # j => tools[i].call # tools[j].call /\ tools[i].index # tools[j].index

\* A Responses adapter counts the item that is open and knows what is in it; a Messages
\* adapter counts a block when it closes it.
Mirrors(w, items, a) ==
    /\ Len(items) = a.next + (IF w = "messages" /\ Opened(a) THEN 1 ELSE 0)
    /\ Opened(a) => /\ Stands(items, a.open) /\ a.open.kind \in {"text", "reasoning"}
                    /\ w = "responses" => items[a.open.index + 1].whole = a.open.whole
                    /\ w = "messages" => a.open.index = a.next
    /\ \A i \in DOMAIN a.tools : Held(items, a.tools[i])
    /\ Distinct(a.tools)

Faithful(m, w, r, a) == \E q : Feeds(m, w, r, a, q) /\ Mirrors(w, q.items, a)

\* What an emission leaves alone.
Same(a, b) ==
    /\ b.open = a.open /\ b.next = a.next /\ b.tools = a.tools
    /\ b.closed = a.closed /\ b.started = a.started /\ b.finish = a.finish

\* Emitting a frame changes what the adapter has sent, and nothing else it keeps.
LEMMA EmitSame ==
    ASSUME NEW m \in Nat, NEW a \in Adapters(m), NEW e \in Frames(m)
    PROVE  /\ Same(a, Stream!Emit(a, << e >>))
           /\ Stream!Emit(a, << e >>) \in Adapters(m)
<1>1. << e >> \in Seq(Frames(m))
  OBVIOUS
<1>. QED
  BY <1>1, EmitIs, ZenonT(60) DEF Same

\* An adapter that keeps the same mirrors the same items.
LEMMA MirrorsSame ==
    ASSUME NEW w, NEW items, NEW a, NEW b, Same(a, b), Mirrors(w, items, a)
    PROVE  Mirrors(w, items, b)
BY DEF Same, Mirrors, Opened

\* An adapter that has sent the same feeds the same reader.
LEMMA FeedsLike ==
    ASSUME NEW m, NEW w, NEW r, NEW a, NEW q, Feeds(m, w, r, a, q),
           NEW b \in Adapters(m), b.out = a.out, b.seq = a.seq
    PROVE  Feeds(m, w, r, b, q)
BY DEF Feeds

\* Two elements are one and one.
LEMMA TwoAreOneAndOne ==
    ASSUME NEW S, NEW a \in S, NEW b \in S
    PROVE  << a >> \o << b >> = << a, b >>
<1>. DEFINE s == << a >> \o << b >>
            t == << a, b >>
<1>1. s \in Seq(S) /\ t \in Seq(S) /\ Len(s) = 2 /\ Len(t) = 2
  OBVIOUS
<1>2. s[1] = a /\ s[2] = b /\ t[1] = a /\ t[2] = b
  OBVIOUS
<1>. HIDE DEF s, t
<1>3. s = t
  BY <1>1, <1>2
<1>. QED
  BY <1>3 DEF s, t

\* Three elements are two and one.
LEMMA ThreeAreTwoAndOne ==
    ASSUME NEW S, NEW a \in S, NEW b \in S, NEW c \in S
    PROVE  << a, b >> \o << c >> = << a, b, c >>
<1>. DEFINE s == << a, b >> \o << c >>
            t == << a, b, c >>
<1>1. s \in Seq(S) /\ t \in Seq(S) /\ Len(s) = 3 /\ Len(t) = 3
  OBVIOUS
<1>2. s[1] = a /\ s[2] = b /\ s[3] = c /\ t[1] = a /\ t[2] = b /\ t[3] = c
  OBVIOUS
<1>. HIDE DEF s, t
<1>3. s = t
  BY <1>1, <1>2
<1>. QED
  BY <1>3 DEF s, t

\* Two events, and three, one after the other.
LEMMA EmitTwo ==
    ASSUME NEW m \in Nat, NEW a \in Adapters(m), NEW e \in Frames(m), NEW f \in Frames(m)
    PROVE  Stream!Emit(a, << e, f >>) = Stream!Emit(Stream!Emit(a, << e >>), << f >>)
<1>0. << e >> \in Seq(Frames(m)) /\ << f >> \in Seq(Frames(m))
  OBVIOUS
<1>1. << e >> \o << f >> = << e, f >>
  BY TwoAreOneAndOne, Zenon
<1>. DEFINE s == << e >>
            t == << f >>
<1>. HIDE DEF s, t
<1>2. Stream!Emit(a, s \o t) = Stream!Emit(Stream!Emit(a, s), t)
  BY <1>0, EmitMore DEF s, t
<1>. QED
  BY <1>1, <1>2, Zenon DEF s, t

\* Emitting three frames is emitting each in its turn.
LEMMA EmitThree ==
    ASSUME NEW m \in Nat, NEW a \in Adapters(m), NEW e \in Frames(m), NEW f \in Frames(m),
           NEW g \in Frames(m)
    PROVE  Stream!Emit(a, << e, f, g >>)
             = Stream!Emit(Stream!Emit(Stream!Emit(a, << e >>), << f >>), << g >>)
<1>0. << e, f >> \in Seq(Frames(m)) /\ << g >> \in Seq(Frames(m))
  OBVIOUS
<1>1. << e, f >> \o << g >> = << e, f, g >>
  BY ThreeAreTwoAndOne, Zenon
<1>. DEFINE s == << e, f >>
            t == << g >>
<1>. HIDE DEF s, t
<1>2. Stream!Emit(a, s \o t) = Stream!Emit(Stream!Emit(a, s), t)
  BY <1>0, EmitMore DEF s, t
<1>3. Stream!Emit(a, s) = Stream!Emit(Stream!Emit(a, << e >>), << f >>)
  BY EmitTwo DEF s
<1>. QED
  BY <1>1, <1>2, <1>3, Zenon DEF s, t

-----------------------------------------------------------------------------
(* What the reader has, one event on.                                      *)

\* An item put in a place is there, and the rest stay.
LEMMA PutAt ==
    \A old \in Seq(Shapes) : \A k \in DOMAIN old : \A x \in Shapes : \A new :
       new = Put(old, k, x) =>
          /\ Len(new) = Len(old) /\ new[k] = x /\ DOMAIN new = DOMAIN old
          /\ \A i \in DOMAIN old : i # k => new[i] = old[i]
BY PutIs

\* An item of the reader has a kind, and a text.
LEMMA ShapeHas ==
    \A items \in Seq(Shapes) : \A k \in DOMAIN items :
       items[k] \in Shapes /\ items[k].kind \in Kinds /\ items[k].whole \in Seq(Nat)
<1>1. \A items \in Seq(Shapes) : \A k \in DOMAIN items : items[k] \in Shapes
  OBVIOUS
<1>2. \A x \in Shapes : x.kind \in Kinds /\ x.whole \in Seq(Nat)
  BY DEF Shapes
<1>. QED
  BY <1>1, <1>2

\* An item just opened is open, one just shut is not, and both have their kind and text.
LEMMA ShapesAre ==
    ASSUME NEW kind \in Kinds, NEW whole \in Seq(Nat)
    PROVE  /\ Fresh(kind, whole) \in Shapes
           /\ Fresh(kind, whole).kind = kind /\ Fresh(kind, whole).whole = whole
           /\ Fresh(kind, whole).open
           /\ Shut(kind, whole) \in Shapes
           /\ Shut(kind, whole).kind = kind /\ Shut(kind, whole).whole = whole
           /\ ~Shut(kind, whole).open
BY DEF Fresh, Shut, Shapes

\* A tool call keeps its item when another item changes.
LEMMA PutElsewhere ==
    ASSUME NEW items \in Seq(Shapes), NEW k \in DOMAIN items, NEW x \in Shapes,
           NEW t, Held(items, t), t.index + 1 # k
    PROVE  Held(Put(items, k, x), t)
<1>1. /\ DOMAIN Put(items, k, x) = DOMAIN items
      /\ \A i \in DOMAIN items : i # k => Put(items, k, x)[i] = items[i]
  BY PutIs
<1>. QED
  BY <1>1 DEF Held, Stands

\* A new item comes last and each tool call keeps its own.
LEMMA AppendKeeps ==
    ASSUME NEW items \in Seq(Shapes), NEW x \in Shapes
    PROVE  /\ Append(items, x) \in Seq(Shapes) /\ Len(Append(items, x)) = Len(items) + 1
           /\ Len(items) + 1 \in DOMAIN Append(items, x)
           /\ Append(items, x)[Len(items) + 1] = x
           /\ \A t : Held(items, t) => Held(Append(items, x), t)
<1>1. /\ Append(items, x) \in Seq(Shapes) /\ Len(Append(items, x)) = Len(items) + 1
      /\ Append(items, x)[Len(items) + 1] = x
      /\ \A i \in DOMAIN items : i \in DOMAIN Append(items, x) /\ Append(items, x)[i] = items[i]
      /\ Len(items) + 1 \in DOMAIN Append(items, x)
  OBVIOUS
<1>. QED
  BY <1>1 DEF Held, Stands

\* The item that is open is none of the calls.
LEMMA OpenApart ==
    ASSUME NEW items, NEW o, Stands(items, o), o.kind \in {"text", "reasoning"},
           NEW t, Held(items, t)
    PROVE  t.index + 1 # o.index + 1
BY DEF Held, Stands

\* The parts of an adapter and their types.
LEMMA TypedAdapter ==
    ASSUME NEW m, NEW a \in Adapters(m)
    PROVE  /\ a.open \in Items /\ a.open.index \in Nat /\ a.open.kind \in Kinds
           /\ a.open.whole \in Seq(Nat)
           /\ a.next \in Nat /\ a.tools \in Seq(Tools) /\ a.closed \in Seq(Items)
           /\ a.seq \in Nat /\ a.finish \in Stream!Finishes /\ a.started \in BOOLEAN
           /\ \A i \in DOMAIN a.tools :
                /\ a.tools[i] \in Tools /\ a.tools[i].index \in Nat /\ a.tools[i].call \in Nat
                /\ a.tools[i].kind \in Kinds /\ a.tools[i].whole \in Seq(Nat)
<1>1. /\ a.open \in Items /\ a.tools \in Seq(Tools) /\ a.next \in Nat /\ a.closed \in Seq(Items)
      /\ a.seq \in Nat /\ a.finish \in Stream!Finishes /\ a.started \in BOOLEAN
  BY DEF Adapters
<1>2. \A t \in Tools : t.index \in Nat /\ t.call \in Nat /\ t.kind \in Kinds /\ t.whole \in Seq(Nat)
  BY DEF Tools
<1>3. \A t \in Items : t.index \in Nat /\ t.kind \in Kinds /\ t.whole \in Seq(Nat)
  BY DEF Items
<1>. QED
  BY <1>1, <1>2, <1>3

\* An event that changes nothing.
LEMMA InnerSound ==
    ASSUME NEW m \in Nat, NEW w, NEW r, NEW a, NEW q, Feeds(m, w, r, a, q), Mirrors(w, q.items, a),
           NEW e \in Frames(m),
           \/ e.type \in {"part.added", "part.done", "content.done"} /\ Stands(q.items, e)
           \/ e.type \in {"created", "in_progress", "message_delta"},
           NEW b, b = Stream!Emit(a, << e >>)
    PROVE  /\ Same(a, b)
           /\ \E q2 : Feeds(m, w, r, b, q2) /\ q2.items = q.items /\ Mirrors(w, q2.items, b)
<1>1. a \in Adapters(m)
  BY FeedsAre
<1>2. Same(a, b)
  BY <1>1, EmitSame
<1>3. PICK q2 : Feeds(m, w, r, b, q2) /\ q2.items = q.items
  BY EmitInner
<1>4. Mirrors(w, q2.items, b)
  BY <1>2, <1>3, MirrorsSame
<1>. QED
  BY <1>2, <1>3, <1>4

\* A frame with nothing in it is a frame.
LEMMA PlainIsFrame ==
    ASSUME NEW m \in Nat, NEW type \in Types, type # "delta", type # "chunk"
    PROVE  Stream!Plain(type) \in Frames(m) /\ Stream!Plain(type).type = type
<1>. DEFINE c == Stream!Closed
<1>1. PICK none \in Seq(Nat) : none = << >>
  <2>1. << >> \in Seq(Nat)
    OBVIOUS
  <2>. QED
    BY <2>1, Zenon
<1>2. c.index \in Nat /\ c.kind \in Kinds
  BY DEF Stream!Closed, Kinds
<1>. HIDE DEF c
<1>3. Stream!Event(type, c, none) \in Frames(m) /\ Stream!Event(type, c, none).type = type
  BY <1>2, EventIsFrame
<1>4. Stream!Plain(type) = Stream!Event(type, c, none)
  BY <1>1 DEF c, Stream!Plain
<1>. QED
  BY <1>3, <1>4

-----------------------------------------------------------------------------
(* The operations of the adapters.                                         *)

\* Frames that are about no item keep the adapter faithful.
LEMMA EmitPlains ==
    ASSUME NEW m \in Nat, NEW w, NEW r, NEW a, Faithful(m, w, r, a),
           NEW e \in Frames(m), e.type \in {"created", "in_progress", "message_delta"}
    PROVE  Faithful(m, w, r, Stream!Emit(a, << e >>)) /\ Same(a, Stream!Emit(a, << e >>))
BY InnerSound DEF Faithful

\* Noting that the stream has begun changes nothing its reader sees.
LEMMA Begins ==
    ASSUME NEW m \in Nat, NEW w, NEW r, NEW a, Faithful(m, w, r, a),
           NEW b, b = [a EXCEPT !.started = TRUE]
    PROVE  Faithful(m, w, r, b) /\ b.open = a.open
<1>1. PICK q : Feeds(m, w, r, a, q) /\ Mirrors(w, q.items, a)
  BY DEF Faithful
<1>2. a \in Adapters(m)
  BY <1>1, FeedsAre
<1>3. /\ b \in Adapters(m) /\ b.out = a.out /\ b.seq = a.seq
      /\ b.open = a.open /\ b.next = a.next /\ b.tools = a.tools
  BY <1>2 DEF Adapters
<1>4. Feeds(m, w, r, b, q)
  BY <1>1, <1>3, FeedsLike
<1>5. Mirrors(w, q.items, b)
  BY <1>1, <1>3 DEF Mirrors, Opened
<1>. QED
  BY <1>3, <1>4, <1>5 DEF Faithful

\* Noting why the stream ends changes nothing its reader sees.
LEMMA Finishes ==
    ASSUME NEW m \in Nat, NEW w, NEW r, NEW a, Faithful(m, w, r, a),
           NEW x \in Stream!Finishes, NEW b, b = [a EXCEPT !.finish = x]
    PROVE  Faithful(m, w, r, b) /\ b.open = a.open
<1>1. PICK q : Feeds(m, w, r, a, q) /\ Mirrors(w, q.items, a)
  BY DEF Faithful
<1>2. a \in Adapters(m)
  BY <1>1, FeedsAre
<1>3. /\ b \in Adapters(m) /\ b.out = a.out /\ b.seq = a.seq
      /\ b.open = a.open /\ b.next = a.next /\ b.tools = a.tools
  BY <1>2 DEF Adapters
<1>4. Feeds(m, w, r, b, q)
  BY <1>1, <1>3, FeedsLike
<1>5. Mirrors(w, q.items, b)
  BY <1>1, <1>3 DEF Mirrors, Opened
<1>. QED
  BY <1>3, <1>4, <1>5 DEF Faithful

\* A faithful adapter is an adapter.
LEMMA FaithfulIsTyped ==
    ASSUME NEW m \in Nat, NEW w, NEW r, NEW a, Faithful(m, w, r, a)
    PROVE  a \in Adapters(m)
BY FeedsAre DEF Faithful

\* The opening of a Responses stream keeps the adapter faithful.
LEMMA StartsResponse ==
    ASSUME NEW m \in Nat, NEW w, NEW r, NEW a, Faithful(m, w, r, a)
    PROVE  Faithful(m, w, r, Stream!StartResponse(a))
<1>1. CASE a.started
  BY <1>1 DEF Stream!StartResponse
<1>2. CASE ~a.started
  <2>. DEFINE b == [a EXCEPT !.started = TRUE]
              e == Stream!Plain("created")
              f == Stream!Plain("in_progress")
  <2>1. Stream!StartResponse(a) = Stream!Emit(b, << e, f >>)
    BY <1>2 DEF Stream!StartResponse
  <2>2. Faithful(m, w, r, b)
    BY Begins
  <2>3. e \in Frames(m) /\ e.type = "created" /\ f \in Frames(m) /\ f.type = "in_progress"
    <3>1. "created" \in Types /\ "in_progress" \in Types
      BY DEF Types
    <3>. QED
      BY <3>1, PlainIsFrame
  <2>. HIDE DEF b, e, f
  <2>4. Faithful(m, w, r, Stream!Emit(b, << e >>))
    BY <2>2, <2>3, EmitPlains
  <2>5. Faithful(m, w, r, Stream!Emit(Stream!Emit(b, << e >>), << f >>))
    BY <2>3, <2>4, EmitPlains
  <2>6. b \in Adapters(m)
    BY <2>2, FaithfulIsTyped
  <2>. QED
    BY <2>1, <2>3, <2>5, <2>6, EmitTwo
<1>. QED
  BY <1>1, <1>2

\* The opening of a Messages stream keeps the adapter faithful.
LEMMA StartsMessage ==
    ASSUME NEW m \in Nat, NEW w, NEW r, NEW a, Faithful(m, w, r, a), NEW estimate \in Nat
    PROVE  Faithful(m, w, r, Stream!StartMessage(a, estimate))
<1>1. CASE a.started
  BY <1>1 DEF Stream!StartMessage
<1>2. CASE ~a.started
  <2>. DEFINE b == [a EXCEPT !.started = TRUE]
              p == Stream!Plain("created")
              u == Stream!Usage(estimate, 0)
              e == [p EXCEPT !.usage = u]
  <2>1. Stream!StartMessage(a, estimate) = Stream!Emit(b, << e >>)
    BY <1>2, Zenon DEF Stream!StartMessage
  <2>2. Faithful(m, w, r, b)
    BY Begins
  <2>3. p \in Frames(m) /\ p.type = "created"
    <3>1. "created" \in Types
      BY DEF Types
    <3>. QED
      BY <3>1, PlainIsFrame
  <2>4. u \in Stream!Usages
    BY DEF Stream!Usage, Stream!Usages
  <2>. HIDE DEF b, p, u
  <2>5. e \in Frames(m) /\ e.type = "created"
    BY <2>3, <2>4 DEF Frames, Events, Spoken
  <2>. HIDE DEF e
  <2>6. Faithful(m, w, r, Stream!Emit(b, << e >>))
    BY <2>2, <2>5, EmitPlains
  <2>. QED
    BY <2>1, <2>6
<1>. QED
  BY <1>1, <1>2

\* What closing the item that is open leaves of what the reader has.
LEMMA ClosedMirrors ==
    ASSUME NEW m \in Nat, NEW w \in {"responses", "messages"}, NEW r, NEW a, NEW q,
           Feeds(m, w, r, a, q), Mirrors(w, q.items, a), Opened(a),
           NEW k, k = a.open.index + 1,
           NEW items, items = Put(q.items, k, Shut(a.open.kind, q.items[k].whole)),
           NEW b, ~Opened(b), b.tools = a.tools,
           b.next = IF w = "messages" THEN a.next + 1 ELSE a.next
    PROVE  Mirrors(w, items, b)
<1>1. q.items \in Seq(Shapes) /\ k \in DOMAIN q.items /\ a \in Adapters(m)
  BY FeedsAre DEF Mirrors, Stands
<1>2. q.items[k] \in Shapes /\ a.open.kind \in Kinds
  BY <1>1, TypedAdapter
<1>3. Shut(a.open.kind, q.items[k].whole) \in Shapes
  <2>1. q.items[k].whole \in Seq(Nat)
    BY <1>2 DEF Shapes
  <2>. QED
    BY <1>2, <2>1, ShapesAre
<1>4. Len(items) = Len(q.items)
  <2>. DEFINE x == Shut(a.open.kind, q.items[k].whole)
  <2>1. x \in Shapes /\ items = Put(q.items, k, x)
    BY <1>3
  <2>. HIDE DEF x
  <2>. QED
    BY <1>1, <2>1, PutIs
<1>5. ASSUME NEW i \in DOMAIN a.tools PROVE Held(items, a.tools[i])
  <2>1. Held(q.items, a.tools[i])
    BY DEF Mirrors
  <2>2. a.tools[i].index + 1 # k
    BY <2>1, OpenApart DEF Mirrors
  <2>. QED
    BY <1>1, <1>3, <2>1, <2>2, PutElsewhere
<1>6. Len(items) = b.next
  <2>1. a.next \in Nat
    BY <1>1, TypedAdapter
  <2>. QED
    <3>1. Len(q.items) = a.next + (IF w = "messages" /\ Opened(a) THEN 1 ELSE 0)
      BY DEF Mirrors
    <3>. QED
      BY <1>4, <2>1, <3>1
<1>7. b.next \in Nat /\ b.next = b.next + 0
  BY <1>1, TypedAdapter
<1>. QED
  BY <1>5, <1>6, <1>7 DEF Mirrors

\* Closing the open item of a Responses stream keeps the adapter faithful.
LEMMA ClosesItem ==
    ASSUME NEW m \in Nat, NEW r, NEW a, Faithful(m, "responses", r, a),
           NEW b, b = Stream!CloseItem(a)
    PROVE  /\ Faithful(m, "responses", r, b)
           /\ ~Opened(b) /\ b.tools = a.tools /\ b.next = a.next
<1>1. PICK q : Feeds(m, "responses", r, a, q) /\ Mirrors("responses", q.items, a)
  BY DEF Faithful
<1>2. a \in Adapters(m)
  BY <1>1, FeedsAre
<1>3. CASE ~Opened(a)
  BY <1>3 DEF Stream!CloseItem, Opened
<1>4. CASE Opened(a)
  <2>. DEFINE w == "responses"
              item == a.open
              k == item.index + 1
              c == [a EXCEPT !.open = Stream!Closed, !.closed = Append(@, item)]
              e == Stream!Event("content.done", item, item.whole)
              f == Stream!Event("part.done", item, item.whole)
              g == Stream!Event("item.done", item, item.whole)
  <2>1. /\ item \in Items /\ item.index \in Nat /\ item.kind \in Kinds /\ item.whole \in Seq(Nat)
        /\ a.closed \in Seq(Items)
    BY <1>2, TypedAdapter
  <2>2. /\ c \in Adapters(m) /\ c.out = a.out /\ c.seq = a.seq
        /\ c.open = Stream!Closed /\ c.next = a.next /\ c.tools = a.tools
    <3>1. Stream!Closed \in Items
      <4>1. << >> \in Seq(Nat) /\ "none" \in Kinds
        BY DEF Kinds
      <4>. QED
        BY <4>1 DEF Stream!Closed, Items
    <3>2. Append(a.closed, item) \in Seq(Items)
      BY <2>1
    <3>3. c = [a EXCEPT !.open = Stream!Closed, !.closed = Append(a.closed, item)]
      BY Zenon
    <3>. DEFINE new == Append(a.closed, item)
                cl == Stream!Closed
    <3>. HIDE DEF new, cl, item, c
    <3>. QED
      BY <1>2, <3>1, <3>2, <3>3 DEF Adapters
  <2>3. /\ e \in Frames(m) /\ e.type = "content.done" /\ e.index = item.index /\ e.kind = item.kind
        /\ f \in Frames(m) /\ f.type = "part.done" /\ f.index = item.index /\ f.kind = item.kind
        /\ g \in Frames(m)
    <3>1. "content.done" \in Types /\ "part.done" \in Types /\ "item.done" \in Types
      BY DEF Types
    <3>. QED
      BY <2>1, <3>1, EventIsFrame
  <2>4. b = IF item.kind = "text" THEN Stream!Emit(c, << e, f, g >>)
                                  ELSE Stream!Emit(c, << e, g >>)
    <3>1. << e >> \o << f >> = << e, f >> /\ << e, f >> \o << g >> = << e, f, g >>
          /\ << e >> \o << g >> = << e, g >> /\ << e >> \o << >> = << e >>
      <4>1. << e >> \o << >> = << e >>
        <5>. HIDE DEF e
        <5>. QED
          BY <2>3
      <4>. QED
        BY <2>3, <4>1, TwoAreOneAndOne, ThreeAreTwoAndOne, Zenon
    <3>2. b = Stream!Emit(c, << e >> \o (IF item.kind = "text" THEN << f >> ELSE << >>) \o << g >>)
      BY <1>4, Zenon DEF Stream!CloseItem, Opened
    <3>. HIDE DEF e, f, g, c, item
    <3>. QED
      BY <3>1, <3>2
  <2>5. Stands(q.items, item) /\ q.items[k].whole = item.whole
    BY <1>1, <1>4 DEF Mirrors
  <2>6. Feeds(m, w, r, c, q)
    BY <1>1, <2>2, FeedsLike
  <2>7. Stands(q.items, e) /\ Stands(q.items, f)
    BY <2>3, <2>5 DEF Stands
  <2>. HIDE DEF c, e, f
  <2>. DEFINE c1 == Stream!Emit(c, << e >>)
              c2 == IF item.kind = "text" THEN Stream!Emit(c1, << f >>) ELSE c1
  <2>8. Same(c, c1) /\ \E q2 : Feeds(m, w, r, c1, q2) /\ q2.items = q.items
    BY <2>2, <2>3, <2>6, <2>7, EmitInner, EmitSame
  <2>9. Same(c, c2) /\ \E q2 : Feeds(m, w, r, c2, q2) /\ q2.items = q.items
    <3>1. PICK q2 : Feeds(m, w, r, c1, q2) /\ q2.items = q.items
      BY <2>8
    <3>. HIDE DEF c1
    <3>2. CASE item.kind = "text"
      <4>1. c1 \in Adapters(m)
        BY <3>1, FeedsAre
      <4>2. Same(c1, Stream!Emit(c1, << f >>))
        BY <2>3, <4>1, EmitSame
      <4>3. \E q3 : Feeds(m, w, r, Stream!Emit(c1, << f >>), q3) /\ q3.items = q2.items
        <5>1. Stands(q2.items, f) /\ f.type \in {"part.added", "part.done", "content.done"}
          BY <2>3, <2>7, <3>1
        <5>. QED
          BY <2>3, <3>1, <5>1, EmitInner
      <4>. QED
        BY <2>8, <3>1, <3>2, <4>2, <4>3 DEF Same
    <3>3. CASE item.kind # "text"
      BY <2>8, <3>1, <3>3
    <3>. QED
      BY <3>2, <3>3
  <2>10. PICK q2 : Feeds(m, w, r, c2, q2) /\ q2.items = q.items
    BY <2>9
  <2>11. c2 \in Adapters(m)
    BY <2>10, FeedsAre
  <2>12. b = Stream!Emit(c2, << g >>)
    <3>1. CASE item.kind = "text"
      BY <2>2, <2>3, <2>4, <3>1, EmitThree
    <3>2. CASE item.kind # "text"
      BY <2>2, <2>3, <2>4, <3>2, EmitTwo
    <3>. QED
      BY <3>1, <3>2
  <2>. HIDE DEF c1, c2
  <2>13. PICK q3 : /\ Feeds(m, w, r, b, q3)
                   /\ q3.items = Put(q2.items, k, Shut(item.kind, q2.items[k].whole))
    <3>1. item.whole \in {<< >>, q2.items[k].whole} /\ Stands(q2.items, item)
      BY <2>5, <2>10
    <3>2. b = Stream!Emit(c2, << Stream!Event("item.done", item, item.whole) >>)
      BY <2>12
    <3>3. item.index \in Nat /\ item.kind \in Kinds /\ item.whole \in Seq(Nat) /\ k = item.index + 1
      BY <2>1
    <3>. HIDE DEF item, g, k
    <3>. QED
      BY <2>10, <3>1, <3>2, <3>3, EmitDone
  <2>14. Same(c2, b)
    BY <2>3, <2>11, <2>12, EmitSame
  <2>15. ~Opened(b) /\ b.tools = a.tools /\ b.next = a.next
    BY <2>2, <2>9, <2>14 DEF Same, Opened
  <2>16. Mirrors(w, q3.items, b)
    BY <1>1, <1>4, <2>10, <2>13, <2>15, ClosedMirrors
  <2>. QED
    BY <2>13, <2>15, <2>16 DEF Faithful
<1>. QED
  BY <1>3, <1>4

\* What a new item leaves of what the reader has.
LEMMA OpenedMirrors ==
    ASSUME NEW m \in Nat, NEW w \in {"responses", "messages"}, NEW r, NEW a, NEW q,
           Feeds(m, w, r, a, q), Mirrors(w, q.items, a), ~Opened(a),
           NEW kind \in {"text", "reasoning"},
           NEW items, items = Append(q.items, Fresh(kind, << >>)),
           NEW b, b.open = [index |-> a.next, kind |-> kind, whole |-> << >>], b.tools = a.tools,
           b.next = IF w = "messages" THEN a.next ELSE a.next + 1
    PROVE  Mirrors(w, items, b) /\ Opened(b)
<1>1. q.items \in Seq(Shapes) /\ a \in Adapters(m) /\ a.next \in Nat
  BY FeedsAre, TypedAdapter
<1>. DEFINE x == Fresh(kind, << >>)
<1>2. x \in Shapes /\ x.kind = kind /\ x.whole = << >> /\ x.open
  <2>1. << >> \in Seq(Nat) /\ kind \in Kinds
    BY DEF Kinds
  <2>. QED
    BY <2>1, ShapesAre, ZenonT(80)
<1>. HIDE DEF x
<1>3. Len(q.items) = a.next
  BY <1>1 DEF Mirrors
<1>4. /\ Len(items) = a.next + 1 /\ a.next + 1 \in DOMAIN items /\ items[a.next + 1] = x
      /\ \A t : Held(q.items, t) => Held(items, t)
  <2>1. items = Append(q.items, x)
    BY DEF x
  <2>. QED
    BY <1>1, <1>2, <1>3, <2>1, AppendKeeps
<1>5. b.open.index = a.next /\ b.open.kind = kind /\ b.open.whole = << >>
  OBVIOUS
<1>6. Opened(b)
  <2>1. Stream!Closed.kind = "none"
    BY DEF Stream!Closed
  <2>. QED
    BY <1>5, <2>1 DEF Opened
<1>7. Stands(items, b.open) /\ items[b.open.index + 1].whole = b.open.whole
  BY <1>2, <1>4, <1>5 DEF Stands
<1>8. Len(items) = b.next + (IF w = "messages" /\ Opened(b) THEN 1 ELSE 0)
  BY <1>1, <1>4, <1>6
<1>9. \A i \in DOMAIN b.tools : Held(items, b.tools[i])
  BY <1>4 DEF Mirrors
<1>10. Distinct(b.tools)
  BY DEF Mirrors
<1>11. w = "messages" => b.open.index = b.next
  BY <1>5
<1>. QED
  BY <1>5, <1>6, <1>7, <1>8, <1>9, <1>10, <1>11 DEF Mirrors

\* What a change of the item that is open leaves of what the reader has.
LEMMA GrownAt ==
    ASSUME NEW m \in Nat, NEW w \in {"responses", "messages"}, NEW r, NEW a, NEW q,
           Feeds(m, w, r, a, q), Mirrors(w, q.items, a), Opened(a),
           NEW k, k = a.open.index + 1,
           NEW x \in Shapes, x.kind = a.open.kind, x.open,
           NEW items, items = Put(q.items, k, x),
           NEW b, b.tools = a.tools, b.next = a.next,
           b.open.index = a.open.index, b.open.kind = a.open.kind,
           w = "responses" => b.open.whole = x.whole
    PROVE  Mirrors(w, items, b) /\ Opened(b)
<1>1. q.items \in Seq(Shapes) /\ k \in DOMAIN q.items /\ a \in Adapters(m) /\ a.next \in Nat
  BY FeedsAre, TypedAdapter DEF Mirrors, Stands
<1>4. Len(items) = Len(q.items) /\ items[k] = x /\ DOMAIN items = DOMAIN q.items
  <2>1. PICK old : old = q.items
    BY Zenon
  <2>2. old \in Seq(Shapes) /\ k \in DOMAIN old /\ x \in Shapes /\ items = Put(old, k, x)
    BY <1>1, <2>1, Zenon
  <2>3. Len(items) = Len(old) /\ items[k] = x /\ DOMAIN items = DOMAIN old
    BY <2>2, PutAt
  <2>. QED
    BY <2>1, <2>3, Zenon
<1>5. ASSUME NEW i \in DOMAIN a.tools PROVE Held(items, a.tools[i])
  <2>1. Held(q.items, a.tools[i])
    BY DEF Mirrors
  <2>2. a.tools[i].index + 1 # k
    BY <2>1, OpenApart DEF Mirrors
  <2>. QED
    BY <1>1, <2>1, <2>2, PutElsewhere
<1>6. Opened(b)
  <2>1. Stream!Closed.kind = "none"
    BY DEF Stream!Closed
  <2>2. b.open.kind \in {"text", "reasoning"}
    BY DEF Mirrors
  <2>. QED
    BY <2>1, <2>2 DEF Opened
<1>7. Stands(items, b.open)
  BY <1>1, <1>4 DEF Stands
<1>8. w = "responses" => items[b.open.index + 1].whole = b.open.whole
  <2>. QED
    BY <1>4
<1>9. Len(items) = b.next + (IF w = "messages" /\ Opened(b) THEN 1 ELSE 0)
  <2>1. Len(q.items) = a.next + (IF w = "messages" /\ Opened(a) THEN 1 ELSE 0)
    BY DEF Mirrors
  <2>. QED
    BY <1>1, <1>4, <1>6, <2>1
<1>10. /\ Distinct(b.tools) /\ (w = "messages" => b.open.index = b.next)
       /\ b.open.kind \in {"text", "reasoning"}
  BY DEF Mirrors
<1>. QED
  BY <1>5, <1>6, <1>7, <1>8, <1>9, <1>10 DEF Mirrors

\* What a piece of the item that is open leaves of it.
LEMMA GrownMirrors ==
    ASSUME NEW m \in Nat, NEW w \in {"responses", "messages"}, NEW r, NEW a, NEW q,
           Feeds(m, w, r, a, q), Mirrors(w, q.items, a), Opened(a),
           NEW piece \in Seq(Nat),
           NEW k, k = a.open.index + 1,
           NEW items, items = Put(q.items, k, Fresh(a.open.kind, q.items[k].whole \o piece)),
           NEW b, b.tools = a.tools, b.next = a.next,
           b.open.index = a.open.index, b.open.kind = a.open.kind,
           w = "responses" => b.open.whole = a.open.whole \o piece
    PROVE  Mirrors(w, items, b) /\ Opened(b)
<1>1. q.items \in Seq(Shapes) /\ k \in DOMAIN q.items /\ a \in Adapters(m)
  BY FeedsAre, SMTT(30) DEF Mirrors, Stands
<1>2. PICK kind, whole, x :
        /\ kind = a.open.kind /\ whole = q.items[k].whole \o piece /\ x = Fresh(kind, whole)
  OBVIOUS
<1>3. kind \in Kinds /\ whole \in Seq(Nat)
  <2>1. PICK old : old = q.items[k].whole
    BY Zenon
  <2>2. whole \in Seq(Nat)
    <3>1. old \in Seq(Nat)
      BY <1>1, <2>1, ShapeHas, ZenonT(60)
    <3>2. whole = old \o piece
      BY <1>2, <2>1, Zenon
    <3>. QED
      BY <3>1, <3>2, JoinIs, ZenonT(60)
  <2>3. kind \in Kinds
    BY <1>1, <1>2, TypedAdapter, ZenonT(60)
  <2>. QED
    BY <2>2, <2>3
<1>4. x \in Shapes /\ x.kind = kind /\ x.whole = whole /\ x.open
  BY <1>2, <1>3, ShapesAre, ZenonT(60)
<1>5. items = Put(q.items, k, x)
  BY <1>2, ZenonT(60)
<1>6. w = "responses" => b.open.whole = x.whole
  BY <1>2, <1>4, ZenonT(60) DEF Mirrors
<1>. QED
  BY <1>2, <1>4, <1>5, <1>6, GrownAt, ZenonT(60)

\* Opening an item of a Responses stream keeps the adapter faithful.
LEMMA OpensItem ==
    ASSUME NEW m \in Nat, NEW r, NEW a, Faithful(m, "responses", r, a), ~Opened(a),
           NEW kind \in {"text", "reasoning"},
           NEW b, b = Stream!OpenItem(a, kind)
    PROVE  Faithful(m, "responses", r, b) /\ Opened(b) /\ b.open.kind = kind
<1>. DEFINE w == "responses"
            item == [index |-> a.next, kind |-> kind, whole |-> << >>]
            c == [a EXCEPT !.open = item, !.next = @ + 1]
            e == Stream!Event("item.added", item, << >>)
            f == Stream!Event("part.added", item, << >>)
<1>1. PICK q : Feeds(m, w, r, a, q) /\ Mirrors(w, q.items, a)
  BY DEF Faithful
<1>2. a \in Adapters(m) /\ a.next \in Nat /\ q.items \in Seq(Shapes)
  BY <1>1, FeedsAre, TypedAdapter
<1>3. PICK none \in Seq(Nat) : none = << >>
  <2>1. << >> \in Seq(Nat)
    OBVIOUS
  <2>. QED
    BY <2>1, Zenon
<1>4. kind \in Kinds
  BY DEF Kinds
<1>5. item \in Items /\ item.index = a.next /\ item.kind = kind
  BY <1>2, <1>3, <1>4 DEF Items
<1>6. /\ c \in Adapters(m) /\ c.out = a.out /\ c.seq = a.seq
      /\ c.open = item /\ c.next = a.next + 1 /\ c.tools = a.tools
  <2>1. c = [a EXCEPT !.open = item, !.next = a.next + 1]
    BY Zenon
  <2>2. PICK n \in Nat : n = a.next + 1
    BY <1>2
  <2>3. c = [a EXCEPT !.open = item, !.next = n]
    BY <2>1, <2>2, Zenon
  <2>. HIDE DEF item, c
  <2>4. /\ c \in Adapters(m) /\ c.out = a.out /\ c.seq = a.seq
        /\ c.open = item /\ c.next = n /\ c.tools = a.tools
    BY <1>2, <1>5, <2>3 DEF Adapters
  <2>. QED
    BY <2>2, <2>4
<1>7. /\ e \in Frames(m) /\ f \in Frames(m) /\ f.type = "part.added" /\ f.index = item.index
      /\ f.kind = item.kind
  <2>1. "item.added" \in Types /\ "part.added" \in Types
    BY DEF Types
  <2>2. e = Stream!Event("item.added", item, none) /\ f = Stream!Event("part.added", item, none)
    BY <1>3
  <2>. HIDE DEF item, e, f
  <2>. QED
    BY <1>2, <1>4, <1>5, <2>1, <2>2, EventIsFrame
<1>8. b = Stream!Emit(c, << e >> \o (IF kind = "text" THEN << f >> ELSE << >>))
  BY Zenon DEF Stream!OpenItem
<1>9. Feeds(m, w, r, c, q)
  BY <1>1, <1>6, FeedsLike
<1>10. Len(q.items) = a.next
  BY <1>1, <1>2 DEF Mirrors
<1>. DEFINE c1 == Stream!Emit(c, << e >>)
<1>11. PICK q1 : Feeds(m, w, r, c1, q1) /\ q1.items = Append(q.items, Fresh(kind, << >>))
  <2>. HIDE DEF c, item
  <2>. QED
    BY <1>2, <1>4, <1>5, <1>9, <1>10, EmitAdded, SMTT(30)
<1>12. Same(c, c1) /\ c1 \in Adapters(m)
  <2>. HIDE DEF c, e
  <2>. QED
    BY <1>6, <1>7, EmitSame
<1>13. Mirrors(w, q1.items, c1) /\ Opened(c1)
  <2>1. c1.open = item /\ c1.tools = a.tools /\ c1.next = a.next + 1
    BY <1>6, <1>12 DEF Same
  <2>. HIDE DEF c1
  <2>. QED
    BY <1>1, <1>11, <2>1, OpenedMirrors
<1>14. c1.open.kind = kind /\ Stands(q1.items, c1.open) /\ c1.open = item
  BY <1>5, <1>6, <1>12, <1>13 DEF Same, Mirrors
<1>. HIDE DEF c, e, f, c1, item
<1>15. CASE kind # "text"
  <2>1. << e >> \o << >> = << e >>
    BY <1>7
  <2>2. b = c1
    BY <1>8, <1>15, <2>1 DEF c1
  <2>. QED
    BY <1>11, <1>13, <1>14, <2>2 DEF Faithful
<1>16. CASE kind = "text"
  <2>1. << e >> \o << f >> = << e, f >>
    BY <1>7, TwoAreOneAndOne, Zenon
  <2>2. b = Stream!Emit(c1, << f >>)
    BY <1>6, <1>7, <1>8, <1>16, <2>1, EmitTwo DEF c1
  <2>3. Stands(q1.items, f) /\ f.type \in {"part.added", "part.done", "content.done"}
    BY <1>7, <1>14 DEF Stands
  <2>4. /\ Same(c1, b)
        /\ \E q2 : Feeds(m, w, r, b, q2) /\ q2.items = q1.items /\ Mirrors(w, q2.items, b)
    <3>1. Feeds(m, w, r, c1, q1) /\ Mirrors(w, q1.items, c1) /\ f \in Frames(m)
      BY <1>7, <1>11, <1>13
    <3>. HIDE DEF w
    <3>. QED
      BY <2>2, <2>3, <3>1, InnerSound
  <2>. QED
    BY <1>13, <1>14, <2>4 DEF Faithful, Same, Opened
<1>. QED
  BY <1>15, <1>16

\* A piece of text or thought of a Responses stream, in its own item, keeps the adapter faithful.
LEMMA AppendsPiece ==
    ASSUME NEW m \in Nat, NEW r, NEW a, Faithful(m, "responses", r, a),
           NEW kind \in {"text", "reasoning"}, NEW piece \in Seq(Nat), piece # << >> => m > 0
    PROVE  Faithful(m, "responses", r, Stream!AppendPiece(a, kind, piece))
<1>. DEFINE w == "responses"
            b == IF a.open.kind = kind THEN a ELSE Stream!OpenItem(Stream!CloseItem(a), kind)
            c == [b EXCEPT !.open.whole = @ \o piece]
            d == Stream!Emit(c, << Stream!Event("delta", b.open, piece) >>)
<1>1. CASE piece = << >>
  BY <1>1 DEF Stream!AppendPiece
<1>2. CASE piece # << >>
  <2>1. Stream!AppendPiece(a, kind, piece) = d
    BY <1>2, Zenon DEF Stream!AppendPiece
  <2>2. Faithful(m, w, r, b) /\ Opened(b) /\ b.open.kind = kind
    <3>1. CASE a.open.kind = kind
      <4>1. Stream!Closed.kind = "none"
        BY DEF Stream!Closed
      <4>. QED
        BY <3>1, <4>1 DEF Opened
    <3>2. CASE a.open.kind # kind
      <4>1. Faithful(m, w, r, Stream!CloseItem(a)) /\ ~Opened(Stream!CloseItem(a))
        BY ClosesItem
      <4>. QED
        BY <3>2, <4>1, OpensItem
    <3>. QED
      BY <3>1, <3>2
  <2>. HIDE DEF b
  <2>3. PICK q : Feeds(m, w, r, b, q) /\ Mirrors(w, q.items, b)
    BY <2>2 DEF Faithful
  <2>4. b \in Adapters(m)
    BY <2>3, FeedsAre
  <2>5. /\ b.open \in Items /\ b.open.index \in Nat /\ b.open.kind \in Kinds
        /\ b.open.whole \in Seq(Nat)
    BY <2>4, TypedAdapter
  <2>. DEFINE k == b.open.index + 1
              o == [b.open EXCEPT !.whole = b.open.whole \o piece]
  <2>6. o \in Items /\ o.index = b.open.index /\ o.kind = b.open.kind
        /\ o.whole = b.open.whole \o piece
    <3>1. b.open.whole \o piece \in Seq(Nat)
      BY <2>5
    <3>2. \A i \in Items, x \in Seq(Nat) :
             LET j == [i EXCEPT !.whole = x]
             IN  j \in Items /\ j.index = i.index /\ j.kind = i.kind /\ j.whole = x
      BY DEF Items
    <3>. QED
      BY <2>5, <3>1, <3>2
  <2>7. /\ c \in Adapters(m) /\ c.out = b.out /\ c.seq = b.seq
        /\ c.open = o /\ c.next = b.next /\ c.tools = b.tools
    <3>1. c = [b EXCEPT !.open = o]
      BY Zenon
    <3>. HIDE DEF o, c
    <3>. QED
      BY <2>4, <2>6, <3>1 DEF Adapters
  <2>. HIDE DEF o, c
  <2>8. Feeds(m, w, r, c, q)
    BY <2>3, <2>7, FeedsLike
  <2>9. Stands(q.items, b.open)
    BY <2>2, <2>3 DEF Mirrors
  <2>10. PICK q2 : /\ Feeds(m, w, r, d, q2)
                   /\ q2.items = Put(q.items, k, Fresh(b.open.kind, q.items[k].whole \o piece))
    <3>1. k = b.open.index + 1 /\ d = Stream!Emit(c, << Stream!Event("delta", b.open, piece) >>)
          /\ m > 0
      BY <1>2
    <3>. HIDE DEF k, d, w
    <3>. QED
      BY <2>5, <2>8, <2>9, <3>1, EmitDelta
  <2>11. Same(c, d)
    <3>1. "delta" \in Types /\ "delta" # "chunk"
      BY DEF Types
    <3>. DEFINE e == Stream!Event("delta", b.open, piece)
    <3>2. e \in Frames(m)
      BY <2>5, <3>1, EventIsFrame
    <3>. HIDE DEF e
    <3>3. Same(c, Stream!Emit(c, << e >>))
      BY <2>7, <3>2, EmitSame
    <3>. QED
      BY <3>3 DEF e
  <2>. HIDE DEF d
  <2>12. Mirrors(w, q2.items, d)
    <3>1. /\ d.tools = b.tools /\ d.next = b.next /\ d.open.index = b.open.index
          /\ d.open.kind = b.open.kind /\ d.open.whole = b.open.whole \o piece
      BY <2>6, <2>7, <2>11 DEF Same
    <3>2. k = b.open.index + 1
      OBVIOUS
    <3>. HIDE DEF k
    <3>. QED
      BY <2>2, <2>3, <2>10, <3>1, <3>2, GrownMirrors
  <2>. QED
    BY <2>1, <2>10, <2>12 DEF Faithful
<1>. QED
  BY <1>1, <1>2

\* Closing a block counts it.
LEMMA ClosesBlock ==
    ASSUME NEW m \in Nat, NEW r, NEW a, Faithful(m, "messages", r, a),
           NEW b, b = Stream!CloseBlock(a)
    PROVE  /\ Faithful(m, "messages", r, b)
           /\ ~Opened(b) /\ b.tools = a.tools
<1>1. PICK q : Feeds(m, "messages", r, a, q) /\ Mirrors("messages", q.items, a)
  BY DEF Faithful
<1>2. a \in Adapters(m)
  BY <1>1, FeedsAre
<1>3. CASE ~Opened(a)
  BY <1>3 DEF Stream!CloseBlock, Opened
<1>4. CASE Opened(a)
  <2>. DEFINE w == "messages"
              item == a.open
              k == item.index + 1
              c == [a EXCEPT !.open = Stream!Closed, !.next = @ + 1]
              none == << >>
              g == Stream!Event("item.done", item, none)
  <2>1. /\ item \in Items /\ item.index \in Nat /\ item.kind \in Kinds
        /\ a.next \in Nat /\ none \in Seq(Nat)
    BY <1>2, TypedAdapter
  <2>2. /\ c \in Adapters(m) /\ c.out = a.out /\ c.seq = a.seq
        /\ c.open = Stream!Closed /\ c.next = a.next + 1 /\ c.tools = a.tools
    <3>1. Stream!Closed \in Items
      <4>1. << >> \in Seq(Nat) /\ "none" \in Kinds
        BY DEF Kinds
      <4>. QED
        BY <4>1 DEF Stream!Closed, Items
    <3>2. PICK n \in Nat : n = a.next + 1
      BY <2>1
    <3>3. c = [a EXCEPT !.open = Stream!Closed, !.next = n]
      BY <3>2, Zenon
    <3>. DEFINE cl == Stream!Closed
    <3>. HIDE DEF cl, item, c
    <3>4. /\ c \in Adapters(m) /\ c.out = a.out /\ c.seq = a.seq
          /\ c.open = cl /\ c.next = n /\ c.tools = a.tools
      BY <1>2, <3>1, <3>3 DEF Adapters, cl
    <3>. QED
      BY <3>2, <3>4 DEF cl
  <2>3. g \in Frames(m)
    <3>1. "item.done" \in Types
      BY DEF Types
    <3>. HIDE DEF item, none
    <3>. QED
      BY <2>1, <3>1, EventIsFrame
  <2>4. b = Stream!Emit(c, << g >>)
    BY <1>4, Zenon DEF Stream!CloseBlock, Opened
  <2>5. Stands(q.items, item)
    BY <1>1, <1>4 DEF Mirrors
  <2>6. Feeds(m, w, r, c, q)
    BY <1>1, <2>2, FeedsLike
  <2>. HIDE DEF c
  <2>7. PICK q3 : /\ Feeds(m, w, r, b, q3)
                  /\ q3.items = Put(q.items, k, Shut(item.kind, q.items[k].whole))
    <3>1. none \in {<< >>, q.items[k].whole}
      OBVIOUS
    <3>2. b = Stream!Emit(c, << Stream!Event("item.done", item, none) >>)
      BY <2>4
    <3>3. k = item.index + 1
      OBVIOUS
    <3>. HIDE DEF item, g, k, none, w
    <3>. QED
      BY <2>1, <2>5, <2>6, <3>1, <3>2, <3>3, EmitDone
  <2>8. Same(c, b)
    <3>. HIDE DEF g
    <3>. QED
      BY <2>2, <2>3, <2>4, EmitSame
  <2>9. ~Opened(b) /\ b.tools = a.tools /\ b.next = a.next + 1
    BY <2>2, <2>8 DEF Same, Opened
  <2>10. Mirrors(w, q3.items, b)
    BY <1>1, <1>4, <2>7, <2>9, ClosedMirrors
  <2>. QED
    BY <2>7, <2>9, <2>10 DEF Faithful
<1>. QED
  BY <1>3, <1>4

\* Opening a block leaves it to be counted.
LEMMA OpensBlock ==
    ASSUME NEW m \in Nat, NEW r, NEW a, Faithful(m, "messages", r, a), ~Opened(a),
           NEW kind \in {"text", "reasoning"},
           NEW item, item = [index |-> a.next, kind |-> kind, whole |-> << >>],
           NEW b, b = Stream!Emit([a EXCEPT !.open = item],
                                  << Stream!Event("item.added", item, << >>) >>)
    PROVE  Faithful(m, "messages", r, b) /\ Opened(b) /\ b.open.kind = kind
<1>. DEFINE w == "messages"
            c == [a EXCEPT !.open = item]
            e == Stream!Event("item.added", item, << >>)
<1>1. PICK q : Feeds(m, w, r, a, q) /\ Mirrors(w, q.items, a)
  BY DEF Faithful
<1>2. a \in Adapters(m) /\ a.next \in Nat /\ q.items \in Seq(Shapes)
  BY <1>1, FeedsAre, TypedAdapter
<1>3. PICK none \in Seq(Nat) : none = << >>
  <2>1. << >> \in Seq(Nat)
    OBVIOUS
  <2>. QED
    BY <2>1, Zenon
<1>4. kind \in Kinds
  BY DEF Kinds
<1>5. item \in Items /\ item.index = a.next /\ item.kind = kind
  BY <1>2, <1>3, <1>4 DEF Items
<1>6. /\ c \in Adapters(m) /\ c.out = a.out /\ c.seq = a.seq
      /\ c.open = item /\ c.next = a.next /\ c.tools = a.tools
  BY <1>2, <1>5 DEF Adapters
<1>7. e \in Frames(m)
  <2>1. "item.added" \in Types
    BY DEF Types
  <2>2. e = Stream!Event("item.added", item, none)
    BY <1>3
  <2>. HIDE DEF e
  <2>. QED
    BY <1>2, <1>4, <1>5, <2>1, <2>2, EventIsFrame
<1>8. b = Stream!Emit(c, << e >>)
  OBVIOUS
<1>. HIDE DEF c
<1>9. Feeds(m, w, r, c, q)
  BY <1>1, <1>6, FeedsLike
<1>10. Len(q.items) = a.next
  BY <1>1, <1>2 DEF Mirrors
<1>11. PICK q1 : Feeds(m, w, r, b, q1) /\ q1.items = Append(q.items, Fresh(kind, << >>))
  BY <1>2, <1>4, <1>5, <1>8, <1>9, <1>10, EmitAdded, SMTT(30)
<1>12. Same(c, b)
  <2>. HIDE DEF e
  <2>. QED
    BY <1>6, <1>7, <1>8, EmitSame
<1>13. b.open = item /\ b.tools = a.tools /\ b.next = a.next
  BY <1>6, <1>12 DEF Same
<1>14. Mirrors(w, q1.items, b) /\ Opened(b)
  <2>1. /\ b.open = [index |-> a.next, kind |-> kind, whole |-> << >>] /\ b.tools = a.tools
        /\ b.next = IF w = "messages" THEN a.next ELSE a.next + 1
    BY <1>13
  <2>2. w \in {"responses", "messages"}
    OBVIOUS
  <2>. HIDE DEF w, e
  <2>. QED
    BY <1>1, <1>11, <2>1, <2>2, OpenedMirrors, ZenonT(60)
<1>. QED
  BY <1>5, <1>11, <1>13, <1>14 DEF Faithful

\* A piece of text or thought of a Messages stream, in its own block, keeps the adapter faithful.
LEMMA SwitchesTo ==
    ASSUME NEW m \in Nat, NEW r, NEW a, Faithful(m, "messages", r, a),
           NEW kind \in {"text", "reasoning"}, NEW piece \in Seq(Nat), piece # << >> => m > 0
    PROVE  Faithful(m, "messages", r, Stream!SwitchTo(a, kind, piece))
<1>. DEFINE w == "messages"
            s == Stream!CloseBlock(a)
            block == [index |-> s.next, kind |-> kind, whole |-> << >>]
            t == Stream!Emit([s EXCEPT !.open = block],
                             << Stream!Event("item.added", block, << >>) >>)
            b == IF a.open.kind = kind THEN a ELSE t
            d == Stream!Emit(b, << Stream!Event("delta", b.open, piece) >>)
<1>1. CASE piece = << >>
  BY <1>1 DEF Stream!SwitchTo
<1>2. CASE piece # << >>
  <2>1. Stream!SwitchTo(a, kind, piece) = d
    BY <1>2, Zenon DEF Stream!SwitchTo
  <2>2. Faithful(m, w, r, b) /\ Opened(b) /\ b.open.kind = kind
    <3>1. CASE a.open.kind = kind
      <4>1. Stream!Closed.kind = "none"
        BY DEF Stream!Closed
      <4>. QED
        BY <3>1, <4>1 DEF Opened
    <3>2. CASE a.open.kind # kind
      <4>1. Faithful(m, w, r, s) /\ ~Opened(s)
        BY ClosesBlock
      <4>2. b = t
        BY <3>2
      <4>. HIDE DEF s, b
      <4>. QED
        BY <4>1, <4>2, OpensBlock
    <3>. QED
      BY <3>1, <3>2
  <2>. HIDE DEF b
  <2>3. PICK q : Feeds(m, w, r, b, q) /\ Mirrors(w, q.items, b)
    BY <2>2 DEF Faithful
  <2>4. b \in Adapters(m)
    BY <2>3, FeedsAre
  <2>5. /\ b.open \in Items /\ b.open.index \in Nat /\ b.open.kind \in Kinds
    BY <2>4, TypedAdapter
  <2>. DEFINE k == b.open.index + 1
  <2>9. Stands(q.items, b.open)
    BY <2>2, <2>3 DEF Mirrors
  <2>10. PICK q2 : /\ Feeds(m, w, r, d, q2)
                   /\ q2.items = Put(q.items, k, Fresh(b.open.kind, q.items[k].whole \o piece))
    <3>1. k = b.open.index + 1 /\ d = Stream!Emit(b, << Stream!Event("delta", b.open, piece) >>)
          /\ m > 0
      BY <1>2
    <3>. HIDE DEF k, d, w
    <3>. QED
      BY <2>3, <2>5, <2>9, <3>1, EmitDelta
  <2>11. Same(b, d)
    <3>1. "delta" \in Types /\ "delta" # "chunk"
      BY DEF Types
    <3>. DEFINE e == Stream!Event("delta", b.open, piece)
    <3>2. e \in Frames(m)
      BY <2>5, <3>1, EventIsFrame
    <3>. HIDE DEF e
    <3>3. Same(b, Stream!Emit(b, << e >>))
      BY <2>4, <3>2, EmitSame
    <3>. QED
      BY <3>3 DEF e
  <2>. HIDE DEF d
  <2>12. Mirrors(w, q2.items, d)
    <3>1. /\ d.tools = b.tools /\ d.next = b.next /\ d.open.index = b.open.index
          /\ d.open.kind = b.open.kind /\ w # "responses"
      BY <2>11 DEF Same
    <3>2. k = b.open.index + 1 /\ w \in {"responses", "messages"}
      OBVIOUS
    <3>. HIDE DEF k, w
    <3>. QED
      BY <2>2, <2>3, <2>10, <3>1, <3>2, GrownMirrors
  <2>. QED
    BY <2>1, <2>10, <2>12 DEF Faithful
<1>. QED
  BY <1>1, <1>2

-----------------------------------------------------------------------------
(* The calls.                                                              *)

\* What a new call leaves of what the reader has.
LEMMA AddedMirrors ==
    ASSUME NEW m \in Nat, NEW w \in {"responses", "messages"}, NEW r, NEW a, NEW q,
           Feeds(m, w, r, a, q), Mirrors(w, q.items, a), ~Opened(a),
           NEW call, call.index \in Nat, ~Stream!Known(a, call),
           NEW t \in Tools, t.call = call.index, t.index = a.next, t.kind = "call",
           t.whole = << >>,
           NEW items, items = Append(q.items, Fresh("call", << >>)),
           NEW b, ~Opened(b), b.tools = Append(a.tools, t), b.next = a.next + 1
    PROVE  Mirrors(w, items, b) /\ Stream!Known(b, call)
<1>1. q.items \in Seq(Shapes) /\ a \in Adapters(m) /\ a.next \in Nat /\ a.tools \in Seq(Tools)
  BY FeedsAre, TypedAdapter
<1>. DEFINE x == Fresh("call", << >>)
            n == Len(a.tools)
<1>2. x \in Shapes /\ x.kind = "call" /\ x.whole = << >> /\ x.open
  <2>1. << >> \in Seq(Nat) /\ "call" \in Kinds
    BY DEF Kinds
  <2>. QED
    BY <2>1, ShapesAre
<1>3. items = Append(q.items, x)
  OBVIOUS
<1>. HIDE DEF x
<1>4. Len(q.items) = a.next
  BY <1>1 DEF Mirrors
<1>5. /\ Len(items) = a.next + 1 /\ a.next + 1 \in DOMAIN items /\ items[a.next + 1] = x
      /\ \A s : Held(q.items, s) => Held(items, s)
  BY <1>1, <1>2, <1>3, <1>4, AppendKeeps
<1>6. Held(items, t)
  BY <1>2, <1>5 DEF Held, Stands
<1>7. /\ n \in Nat /\ DOMAIN a.tools = 1..n /\ DOMAIN b.tools = 1..(n + 1) /\ b.tools[n + 1] = t
      /\ \A i \in 1..n : b.tools[i] = a.tools[i]
  BY <1>1
<1>8. \A i \in DOMAIN a.tools : Held(q.items, a.tools[i]) /\ a.tools[i].index < a.next
  <2>1. ASSUME NEW i \in DOMAIN a.tools PROVE Held(q.items, a.tools[i]) /\ a.tools[i].index < a.next
    <3>1. Held(q.items, a.tools[i])
      BY DEF Mirrors
    <3>2. a.tools[i].index \in Nat /\ a.tools[i].index + 1 \in 1..a.next
      BY <1>1, <1>4, <3>1, TypedAdapter, SMTT(30) DEF Held, Stands
    <3>. QED
      BY <1>1, <3>1, <3>2
  <2>. QED
    BY <2>1
<1>9. \A i \in DOMAIN a.tools : a.tools[i].call # call.index
  BY DEF Stream!Known, Stream!ToSet
<1>10. \A i \in DOMAIN b.tools : Held(items, b.tools[i])
  BY <1>5, <1>6, <1>7, <1>8
<1>11. Distinct(b.tools)
  <2>1. \A i, j \in DOMAIN a.tools :
          i # j => a.tools[i].call # a.tools[j].call /\ a.tools[i].index # a.tools[j].index
    BY DEF Mirrors, Distinct
  <2>2. \A i \in 1..n : a.tools[i].index # t.index /\ a.tools[i].call # t.call
    <3>1. ASSUME NEW i \in 1..n
          PROVE  a.tools[i].index # t.index /\ a.tools[i].call # t.call
      <4>1. i \in DOMAIN a.tools
        BY <1>7
      <4>2. a.tools[i].index \in Nat
        BY <1>1, <4>1, TypedAdapter
      <4>. QED
        BY <1>1, <1>8, <1>9, <4>1, <4>2
    <3>. QED
      BY <3>1
  <2>3. ASSUME NEW i \in DOMAIN b.tools, NEW j \in DOMAIN b.tools, i # j
        PROVE  b.tools[i].call # b.tools[j].call /\ b.tools[i].index # b.tools[j].index
    <3>1. CASE i = n + 1
      <4>1. j \in 1..n
        BY <1>7, <2>3, <3>1
      <4>. QED
        BY <1>7, <2>2, <3>1, <4>1
    <3>2. CASE j = n + 1
      <4>1. i \in 1..n
        BY <1>7, <2>3, <3>2
      <4>. QED
        BY <1>7, <2>2, <3>2, <4>1
    <3>3. CASE i # n + 1 /\ j # n + 1
      <4>1. i \in 1..n /\ j \in 1..n
        BY <1>7, <3>3
      <4>. QED
        BY <1>7, <2>1, <2>3, <4>1
    <3>. QED
      BY <3>1, <3>2, <3>3
  <2>. QED
    BY <2>3 DEF Distinct
<1>12. Stream!Known(b, call)
  <2>1. n + 1 \in DOMAIN b.tools /\ b.tools[n + 1].call = call.index
    BY <1>7
  <2>. QED
    BY <2>1 DEF Stream!Known, Stream!ToSet
<1>13. Len(items) = b.next + 0 /\ b.next \in Nat
  BY <1>1, <1>5
<1>. QED
  BY <1>10, <1>11, <1>12, <1>13 DEF Mirrors

\* The start of a tool call keeps the adapter faithful.
LEMMA AddsTool ==
    ASSUME NEW m \in Nat, NEW w \in {"responses", "messages"}, NEW r, NEW a, Faithful(m, w, r, a),
           ~Opened(a), NEW call, call.index \in Nat, ~Stream!Known(a, call),
           NEW c, c = Stream!NewTool(a, call),
           NEW b, b = Stream!Emit(c, << Stream!Event("item.added", Stream!Last(c.tools), << >>) >>)
    PROVE  Faithful(m, w, r, b) /\ ~Opened(b) /\ Stream!Known(b, call)
<1>. DEFINE t == [call |-> call.index, index |-> a.next, kind |-> "call", whole |-> << >>]
            e == Stream!Event("item.added", t, << >>)
<1>1. PICK q : Feeds(m, w, r, a, q) /\ Mirrors(w, q.items, a)
  BY DEF Faithful
<1>2. /\ a \in Adapters(m) /\ a.next \in Nat /\ q.items \in Seq(Shapes) /\ a.tools \in Seq(Tools)
  BY <1>1, FeedsAre, TypedAdapter
<1>3. PICK none \in Seq(Nat) : none = << >>
  <2>1. << >> \in Seq(Nat)
    OBVIOUS
  <2>. QED
    BY <2>1, Zenon
<1>4. "call" \in Kinds
  BY DEF Kinds
<1>5. t \in Tools /\ t.index = a.next /\ t.kind = "call" /\ t.call = call.index /\ t.whole = << >>
  BY <1>2, <1>3, <1>4 DEF Tools
<1>6. /\ c \in Adapters(m) /\ c.out = a.out /\ c.seq = a.seq /\ c.open = a.open
      /\ c.next = a.next + 1 /\ c.tools = Append(a.tools, t)
  <2>1. c = [a EXCEPT !.tools = Append(a.tools, t), !.next = a.next + 1]
    BY Zenon DEF Stream!NewTool
  <2>2. PICK n \in Nat : n = a.next + 1
    BY <1>2
  <2>3. PICK new \in Seq(Tools) : new = Append(a.tools, t)
    <3>. HIDE DEF t
    <3>1. Append(a.tools, t) \in Seq(Tools)
      BY <1>2, <1>5
    <3>. QED
      BY <3>1, Zenon
  <2>4. c = [a EXCEPT !.tools = new, !.next = n]
    BY <2>1, <2>2, <2>3, Zenon
  <2>. HIDE DEF t
  <2>5. /\ c \in Adapters(m) /\ c.out = a.out /\ c.seq = a.seq /\ c.open = a.open
        /\ c.next = n /\ c.tools = new
    BY <1>2, <2>4 DEF Adapters
  <2>. QED
    BY <2>2, <2>3, <2>5
<1>7. e \in Frames(m)
  <2>1. "item.added" \in Types
    BY DEF Types
  <2>2. e = Stream!Event("item.added", t, none)
    BY <1>3
  <2>. HIDE DEF e, t
  <2>. QED
    BY <1>2, <1>4, <1>5, <2>1, <2>2, EventIsFrame
<1>8. b = Stream!Emit(c, << Stream!Event("item.added", t, << >>) >>)
  <2>1. Stream!Last(c.tools) = t
    <3>. HIDE DEF t
    <3>1. Append(a.tools, t)[Len(Append(a.tools, t))] = t
      BY <1>2, <1>5
    <3>. QED
      BY <1>6, <3>1 DEF Stream!Last
  <2>. QED
    BY <2>1, Zenon
<1>9. Feeds(m, w, r, c, q)
  BY <1>1, <1>6, FeedsLike
<1>10. Len(q.items) = a.next
  BY <1>1, <1>2 DEF Mirrors
<1>. HIDE DEF t
<1>11. PICK q1 : Feeds(m, w, r, b, q1) /\ q1.items = Append(q.items, Fresh("call", << >>))
  <2>1. t.kind \in Kinds /\ t.index \in Nat /\ t.index = Len(q.items)
    BY <1>2, <1>4, <1>5, <1>10
  <2>2. \E q1 : Feeds(m, w, r, b, q1) /\ q1.items = Append(q.items, Fresh(t.kind, << >>))
    BY <1>8, <1>9, <2>1, EmitAdded
  <2>. QED
    BY <1>5, <2>2
<1>12. Same(c, b)
  <2>1. b = Stream!Emit(c, << e >>)
    BY <1>8
  <2>. HIDE DEF e
  <2>. QED
    BY <1>6, <1>7, <2>1, EmitSame
<1>13. b.open = a.open /\ b.tools = Append(a.tools, t) /\ b.next = a.next + 1 /\ ~Opened(b)
  BY <1>6, <1>12 DEF Same, Opened
<1>14. Mirrors(w, q1.items, b) /\ Stream!Known(b, call)
  BY <1>1, <1>5, <1>11, <1>13, AddedMirrors, ZenonT(60)
<1>. QED
  BY <1>11, <1>13, <1>14 DEF Faithful

\* One call changed.
Changed(tools, i, t) == [tools EXCEPT ![i] = t]

\* What a change of a call leaves of what the reader has.
LEMMA ChangedAt ==
    ASSUME NEW m \in Nat, NEW w \in {"responses", "messages"}, NEW r, NEW a, NEW q,
           Feeds(m, w, r, a, q), Mirrors(w, q.items, a),
           NEW i \in DOMAIN a.tools,
           NEW k, k = a.tools[i].index + 1,
           NEW x \in Shapes, x.kind = a.tools[i].kind, x.open,
           NEW items, items = Put(q.items, k, x),
           NEW t, t.call = a.tools[i].call, t.index = a.tools[i].index,
           t.kind = a.tools[i].kind, t.whole = x.whole,
           NEW b, b.open = a.open, b.next = a.next, b.tools = Changed(a.tools, i, t)
    PROVE  Mirrors(w, items, b)
<1>1. /\ q.items \in Seq(Shapes) /\ a \in Adapters(m) /\ a.next \in Nat /\ a.tools \in Seq(Tools)
      /\ Held(q.items, a.tools[i])
  BY FeedsAre, TypedAdapter DEF Mirrors
<1>2. k \in DOMAIN q.items
  BY <1>1 DEF Held, Stands
<1>3. x.kind = t.kind /\ x.whole = t.whole
  OBVIOUS
<1>5. /\ Len(items) = Len(q.items) /\ items[k] = x /\ DOMAIN items = DOMAIN q.items
      /\ \A j \in DOMAIN q.items : j # k => items[j] = q.items[j]
  <2>1. PICK old : old = q.items
    BY Zenon
  <2>2. old \in Seq(Shapes) /\ k \in DOMAIN old /\ x \in Shapes /\ items = Put(old, k, x)
    BY <1>1, <1>2, <2>1, Zenon
  <2>3. /\ Len(items) = Len(old) /\ items[k] = x /\ DOMAIN items = DOMAIN old
        /\ \A j \in DOMAIN old : j # k => items[j] = old[j]
    BY <2>2, PutAt
  <2>. QED
    BY <2>1, <2>3, Zenon
<1>6. /\ DOMAIN b.tools = DOMAIN a.tools /\ b.tools[i] = t
      /\ \A j \in DOMAIN a.tools : j # i => b.tools[j] = a.tools[j]
  BY <1>1 DEF Changed
<1>7. \A j \in DOMAIN b.tools :
         b.tools[j].call = a.tools[j].call /\ b.tools[j].index = a.tools[j].index
  BY <1>6
<1>8. Distinct(b.tools)
  <2>1. Distinct(a.tools)
    BY DEF Mirrors
  <2>. QED
    BY <1>6, <1>7, <2>1 DEF Distinct
<1>9. Held(items, t)
  <2>1. t.kind = "call" /\ t.index + 1 = k
    BY <1>1 DEF Held
  <2>2. k \in DOMAIN items
    BY <1>2, <1>5
  <2>. QED
    BY <1>3, <1>5, <2>1, <2>2 DEF Held, Stands
<1>10. ASSUME NEW j \in DOMAIN b.tools PROVE Held(items, b.tools[j])
  <2>1. CASE j = i
    BY <1>6, <1>9, <2>1
  <2>2. CASE j # i
    <3>1. Held(q.items, a.tools[j]) /\ b.tools[j] = a.tools[j] /\ j \in DOMAIN a.tools
      BY <1>6, <2>2 DEF Mirrors
    <3>2. a.tools[j].index # a.tools[i].index
      BY <2>2, <3>1 DEF Mirrors, Distinct
    <3>3. a.tools[j].index + 1 # k
      <4>1. a.tools[j].index \in Nat /\ a.tools[i].index \in Nat
        BY <1>1, <3>1, TypedAdapter
      <4>. QED
        BY <3>2, <4>1
    <3>. QED
      BY <1>1, <1>2, <3>1, <3>3, PutElsewhere
  <2>. QED
    BY <2>1, <2>2
<1>11. Opened(a) => /\ Stands(items, a.open)
                    /\ w = "responses" => items[a.open.index + 1].whole = a.open.whole
  <2>1. ASSUME Opened(a) PROVE /\ Stands(items, a.open)
                               /\ w = "responses" => items[a.open.index + 1].whole = a.open.whole
    <3>1. /\ Stands(q.items, a.open) /\ a.open.kind \in {"text", "reasoning"}
          /\ w = "responses" => q.items[a.open.index + 1].whole = a.open.whole
      BY <2>1 DEF Mirrors
    <3>2. a.open.index + 1 # k
      BY <1>1, <3>1, OpenApart
    <3>3. a.open.index + 1 \in DOMAIN q.items
      BY <3>1 DEF Stands
    <3>4. items[a.open.index + 1] = q.items[a.open.index + 1]
      BY <1>5, <3>2, <3>3
    <3>. QED
      BY <1>5, <3>1, <3>3, <3>4 DEF Stands
  <2>. QED
    BY <2>1
<1>12. /\ Len(items) = b.next + (IF w = "messages" /\ Opened(b) THEN 1 ELSE 0)
       /\ Opened(b) = Opened(a)
       /\ Opened(a) => /\ a.open.kind \in {"text", "reasoning"}
                       /\ w = "messages" => a.open.index = a.next
  BY <1>5 DEF Mirrors, Opened
<1>. QED
  BY <1>8, <1>10, <1>11, <1>12 DEF Mirrors

\* What a piece of a call's arguments leaves of what the reader has.
LEMMA ArgumentsMirror ==
    ASSUME NEW m \in Nat, NEW w \in {"responses", "messages"}, NEW r, NEW a, NEW q,
           Feeds(m, w, r, a, q), Mirrors(w, q.items, a),
           NEW i \in DOMAIN a.tools, NEW piece \in Seq(Nat),
           NEW k, k = a.tools[i].index + 1,
           NEW items,
           items = Put(q.items, k, Fresh(a.tools[i].kind, q.items[k].whole \o piece)),
           NEW t, t.call = a.tools[i].call, t.index = a.tools[i].index,
           t.kind = a.tools[i].kind, t.whole = a.tools[i].whole \o piece,
           NEW b, b.open = a.open, b.next = a.next, b.tools = Changed(a.tools, i, t)
    PROVE  Mirrors(w, items, b)
<1>1. a \in Adapters(m) /\ Held(q.items, a.tools[i])
  BY FeedsAre, ZenonT(60) DEF Mirrors
<1>2. q.items[k].whole = a.tools[i].whole
  BY <1>1, ZenonT(60) DEF Held
<1>3. PICK kind, whole, x :
        /\ kind = a.tools[i].kind /\ whole = q.items[k].whole \o piece /\ x = Fresh(kind, whole)
  BY ZenonT(30)
<1>4. kind \in Kinds /\ whole \in Seq(Nat)
  <2>1. a.tools[i].kind \in Kinds /\ a.tools[i].whole \in Seq(Nat)
    BY <1>1, TypedAdapter, ZenonT(60)
  <2>2. q.items[k].whole \in Seq(Nat)
    BY <1>2, <2>1, ZenonT(60)
  <2>3. whole \in Seq(Nat)
    <3>1. PICK old : old = q.items[k].whole
      BY Zenon
    <3>2. old \in Seq(Nat) /\ whole = old \o piece
      BY <1>3, <2>2, <3>1, Zenon
    <3>. QED
      BY <3>2, JoinIs, ZenonT(60)
  <2>. QED
    BY <1>3, <2>1, <2>3, ZenonT(60)
<1>5. x \in Shapes /\ x.kind = kind /\ x.whole = whole /\ x.open
  BY <1>3, <1>4, ShapesAre, ZenonT(60)
<1>6. items = Put(q.items, k, x) /\ t.whole = x.whole /\ x.kind = a.tools[i].kind
  BY <1>2, <1>3, <1>5, ZenonT(60)
<1>. QED
  BY <1>5, <1>6, ChangedAt, ZenonT(60)

\* Arguments of a tool call that is known keep the adapter faithful.
LEMMA AddsArguments ==
    ASSUME NEW m \in Nat, NEW w \in {"responses", "messages"}, NEW r, NEW a, Faithful(m, w, r, a),
           NEW call, call.index \in Nat, call.piece \in Seq(Nat), call.piece # << >> => m > 0,
           Stream!Known(a, call)
    PROVE  Faithful(m, w, r, Stream!AddArguments(a, call))
<1>1. CASE call.piece = << >>
  BY <1>1 DEF Stream!AddArguments
<1>2. CASE call.piece # << >>
  <2>. DEFINE i == Stream!Slot(a, call)
              t == a.tools[i]
              piece == call.piece
              u == [t EXCEPT !.whole = t.whole \o piece]
              c == [a EXCEPT !.tools = [a.tools EXCEPT ![i] = u]]
              b == Stream!Emit(c, << Stream!Event("delta", t, piece) >>)
              k == t.index + 1
  <2>1. PICK q : Feeds(m, w, r, a, q) /\ Mirrors(w, q.items, a)
    BY DEF Faithful
  <2>2. /\ a \in Adapters(m) /\ a.next \in Nat /\ q.items \in Seq(Shapes) /\ a.tools \in Seq(Tools)
    BY <2>1, FeedsAre, TypedAdapter
  <2>3. i \in DOMAIN a.tools
    BY DEF Stream!Known, Stream!Slot, Stream!ToSet
  <2>. HIDE DEF i
  <2>4. /\ t \in Tools /\ t.index \in Nat /\ t.kind \in Kinds /\ t.whole \in Seq(Nat)
        /\ Held(q.items, t) /\ piece \in Seq(Nat) /\ m > 0
    BY <1>2, <2>1, <2>2, <2>3, TypedAdapter DEF Mirrors
  <2>5. u \in Tools /\ u.call = t.call /\ u.index = t.index /\ u.kind = t.kind
        /\ u.whole = t.whole \o piece
    <3>1. t.whole \o piece \in Seq(Nat)
      BY <2>4
    <3>2. \A z \in Tools, x \in Seq(Nat) :
             LET j == [z EXCEPT !.whole = x]
             IN  j \in Tools /\ j.call = z.call /\ j.index = z.index /\ j.kind = z.kind /\ j.whole = x
      BY DEF Tools
    <3>. QED
      BY <2>4, <3>1, <3>2
  <2>6. Stream!AddArguments(a, call) = b
    BY <1>2, Zenon DEF Stream!AddArguments, i
  <2>. HIDE DEF u
  <2>7. /\ c \in Adapters(m) /\ c.out = a.out /\ c.seq = a.seq /\ c.open = a.open
        /\ c.next = a.next /\ c.tools = Changed(a.tools, i, u)
    <3>1. PICK new \in Seq(Tools) : new = Changed(a.tools, i, u)
      <4>1. Changed(a.tools, i, u) \in Seq(Tools)
        BY <2>2, <2>3, <2>5 DEF Changed
      <4>. QED
        BY <4>1, Zenon
    <3>2. c = [a EXCEPT !.tools = new]
      BY <3>1, Zenon DEF Changed
    <3>. HIDE DEF c
    <3>3. /\ c \in Adapters(m) /\ c.out = a.out /\ c.seq = a.seq /\ c.open = a.open
          /\ c.next = a.next /\ c.tools = new
      BY <2>2, <3>2 DEF Adapters
    <3>. QED
      BY <3>1, <3>3
  <2>. HIDE DEF c
  <2>8. Feeds(m, w, r, c, q)
    BY <2>1, <2>7, FeedsLike
  <2>9. Stands(q.items, t)
    BY <2>4 DEF Held
  <2>10. PICK q2 : /\ Feeds(m, w, r, b, q2)
                   /\ q2.items = Put(q.items, k, Fresh(t.kind, q.items[k].whole \o piece))
    <3>1. k = t.index + 1 /\ b = Stream!Emit(c, << Stream!Event("delta", t, piece) >>)
      OBVIOUS
    <3>. HIDE DEF k, b, t, piece
    <3>. QED
      BY <2>4, <2>8, <2>9, <3>1, EmitDelta
  <2>11. Same(c, b)
    <3>1. "delta" \in Types /\ "delta" # "chunk"
      BY DEF Types
    <3>. DEFINE e == Stream!Event("delta", t, piece)
    <3>. HIDE DEF t, piece
    <3>2. e \in Frames(m)
      BY <2>4, <3>1, EventIsFrame
    <3>. HIDE DEF e
    <3>3. Same(c, Stream!Emit(c, << e >>))
      BY <2>7, <3>2, EmitSame
    <3>. QED
      BY <3>3 DEF e
  <2>. HIDE DEF b
  <2>12. Mirrors(w, q2.items, b)
    <3>1. b.open = a.open /\ b.next = a.next /\ b.tools = Changed(a.tools, i, u)
      BY <2>7, <2>11 DEF Same
    <3>2. /\ k = a.tools[i].index + 1 /\ u.call = a.tools[i].call
          /\ u.index = a.tools[i].index
          /\ u.kind = a.tools[i].kind /\ u.whole = a.tools[i].whole \o piece
      BY <2>5
    <3>3. q2.items = Put(q.items, k, Fresh(a.tools[i].kind, q.items[k].whole \o piece))
      BY <2>10
    <3>4. piece \in Seq(Nat)
      BY <2>4
    <3>. HIDE DEF k, t, piece
    <3>. QED
      BY <2>1, <2>3, <3>1, <3>2, <3>3, <3>4, ArgumentsMirror
  <2>. QED
    BY <2>6, <2>10, <2>12 DEF Faithful
<1>. QED
  BY <1>1, <1>2

-----------------------------------------------------------------------------
(* Folds over what a chunk holds.                                          *)

\* The largest of some numbers is one of them.
LEMMA TopIn ==
    ASSUME NEW n \in Nat, NEW s \in SUBSET (1..n), s # {}
    PROVE  Top(s) \in s
<1>. DEFINE P == {k \in 0..n : \A t \in SUBSET (1..k) : t # {} => Top(t) \in t}
<1>1. 0 \in P
  <2>1. \A t \in SUBSET (1..0) : t = {}
    OBVIOUS
  <2>2. 0 \in 0..n
    OBVIOUS
  <2>. QED
    BY <2>1, <2>2
<1>2. ASSUME NEW k \in 0..(n - 1), k \in P PROVE k + 1 \in P
  <2>1. ASSUME NEW t \in SUBSET (1..(k + 1)), t # {} PROVE Top(t) \in t
    <3>1. CASE k + 1 \in t
      BY <3>1, TopIs
    <3>2. CASE k + 1 \notin t
      <4>1. t \in SUBSET (1..k)
        BY <3>2
      <4>. QED
        BY <1>2, <2>1, <4>1
    <3>. QED
      BY <3>1, <3>2
  <2>. QED
    BY <2>1
<1>3. n \in P
  <2>. HIDE DEF P
  <2>1. \A k \in 0..n : k \in P
    BY <1>1, <1>2, UpTo
  <2>. QED
    BY <2>1
<1>. QED
  BY <1>3

\* The pieces of the calls, counted call by call.
Counts(it, calls) ==
    it = [s \in SUBSET DOMAIN calls |->
            IF s = {} THEN 0 ELSE it[s \ {Top(s)}] + Len(calls[Top(s)].piece)]

\* The meter of a chunk counts its calls one after the other.
LEMMA MeterUnfolds ==
    ASSUME NEW calls
    PROVE  Stream!FoldLeft(LAMBDA n, call : n + Len(call.piece), 0, calls)
             = (CHOOSE it : Counts(it, calls))[DOMAIN calls]
BY DEF Stream!FoldLeft, Stream!MapThenFoldSet, Stream!Max, Top, Counts

\* The meter counts a call that has a piece of its arguments.
LEMMA MeterCounts ==
    ASSUME NEW calls \in Seq(Stream!Deltas),
           NEW sum, sum = (CHOOSE it : Counts(it, calls))[DOMAIN calls]
    PROVE  /\ sum \in Nat
           /\ \A j \in DOMAIN calls : calls[j].piece # << >> => sum > 0
<1>. DEFINE n == Len(calls)
            D == DOMAIN calls
            it == CHOOSE f : Counts(f, calls)
            step == [p \in Nat \X (1..n) |-> p[1] + Len(calls[p[2]].piece)]
<1>1. sum = it[D]
  OBVIOUS
<1>2. D = 1..n /\ n \in Nat
  OBVIOUS
<1>3. \A i \in 1..n : calls[i].piece \in Seq(Nat) /\ Len(calls[i].piece) \in Nat
  <2>1. ASSUME NEW i \in 1..n PROVE calls[i].piece \in Seq(Nat)
    <3>1. calls[i] \in Stream!Deltas
      OBVIOUS
    <3>. QED
      BY <3>1 DEF Stream!Deltas
  <2>. QED
    BY <2>1
<1>4. step \in [Nat \X (1..n) -> Nat]
  BY <1>3

<1>5. \E f : Counts(f, calls)
  <2>1. PICK f \in [SUBSET (1..n) -> Nat] : Unrolls(f, 1..n, step, 0)
    BY <1>2, <1>4, FoldExists
  <2>2. ASSUME NEW s \in SUBSET (1..n), s # {}
        PROVE  step[<< f[s \ {Top(s)}], Top(s) >>] = f[s \ {Top(s)}] + Len(calls[Top(s)].piece)
    <3>1. Top(s) \in 1..n
      BY <1>2, <2>2, TopIn
    <3>2. f[s \ {Top(s)}] \in Nat
      BY <2>1
    <3>. QED
      BY <3>1, <3>2
  <2>3. f = [s \in SUBSET D |->
               IF s = {} THEN 0 ELSE step[<< f[s \ {Top(s)}], Top(s) >>]]
    BY <1>2, <2>1, Zenon DEF Unrolls
  <2>. HIDE DEF step
  <2>. QED
    BY <1>2, <2>2, <2>3, ZenonT(60) DEF Counts
<1>6. Counts(it, calls)
  BY <1>5, Zenon
<1>. HIDE DEF it
<1>7. it[{}] = 0
  BY <1>6 DEF Counts
<1>8. ASSUME NEW s \in SUBSET (1..n), s # {}, it[s \ {Top(s)}] \in Nat
      PROVE  it[s] = step[<< it[s \ {Top(s)}], Top(s) >>]
  <2>1. Top(s) \in 1..n
    BY <1>2, <1>8, TopIn
  <2>2. it[s] = it[s \ {Top(s)}] + Len(calls[Top(s)].piece)
    BY <1>2, <1>6, <1>8 DEF Counts
  <2>. QED
    BY <1>8, <2>1, <2>2
<1>9. /\ \A i \in 0..n : it[1..i] \in Nat
      /\ \A i \in 1..n : it[1..i] = it[1..(i - 1)] + Len(calls[i].piece)
  <2>1. /\ \A i \in 0..n : it[1..i] \in Nat
        /\ \A i \in 1..n : it[1..i] = step[<< it[1..(i - 1)], i >>]
    <3>. DEFINE V == Nat
    <3>1. \A s \in SUBSET (1..n) : s # {} /\ it[s \ {Top(s)}] \in V
             => it[s] = step[<< it[s \ {Top(s)}], Top(s) >>]
      BY <1>8
    <3>2. step \in [V \X (1..n) -> V] /\ 0 \in V /\ n \in Nat
      BY <1>4
    <3>3. Runs(it, n, V, step, 0)
      <4>. HIDE DEF step, n, V
      <4>. QED
        BY <1>7, <3>1, Zenon DEF Runs
    <3>4. Ran(it, n, V, step)
      <4>. HIDE DEF step, n, V
      <4>. QED
        BY <3>2, <3>3, FoldRuns
    <3>. QED
      BY <3>4 DEF Ran
  <2>2. ASSUME NEW i \in 1..n PROVE it[1..i] = it[1..(i - 1)] + Len(calls[i].piece)
    <3>1. it[1..(i - 1)] \in Nat
      <4>1. i - 1 \in 0..n
        OBVIOUS
      <4>. QED
        BY <2>1, <4>1
    <3>2. it[1..i] = step[<< it[1..(i - 1)], i >>]
      BY <2>1
    <3>. QED
      BY <3>1, <3>2
  <2>. QED
    BY <2>1, <2>2
<1>10. sum \in Nat
  BY <1>1, <1>2, <1>9
<1>11. ASSUME NEW j \in DOMAIN calls, calls[j].piece # << >> PROVE sum > 0
  <2>. DEFINE ok == {k \in 0..n : k >= j => it[1..k] > 0}
  <2>1. j \in 1..n /\ Len(calls[j].piece) > 0
    BY <1>2, <1>3, <1>11
  <2>2. 0 \in ok
    BY <1>2, <2>1
  <2>3. ASSUME NEW k \in 0..(n - 1), k \in ok PROVE k + 1 \in ok
    <3>1. k + 1 \in 1..n /\ k \in 0..n /\ k + 1 \in 0..n /\ (k + 1) - 1 = k
      BY <1>2
    <3>2. it[1..(k + 1)] = it[1..k] + Len(calls[k + 1].piece) /\ it[1..k] \in Nat
      BY <1>9, <3>1
    <3>3. Len(calls[k + 1].piece) \in Nat
      BY <1>3, <3>1
    <3>. QED
      BY <2>1, <2>3, <3>1, <3>2, <3>3
  <2>4. \A k \in 0..n : k \in ok
    <3>. HIDE DEF ok
    <3>. QED
      BY <1>2, <2>2, <2>3, UpTo
  <2>. QED
    BY <1>1, <1>2, <2>1, <2>4
<1>. QED
  BY <1>10, <1>11

-----------------------------------------------------------------------------
(* The calls of a chunk, one after the other.                              *)

\* A tool call of a Responses stream, new or known, keeps the adapter faithful.
LEMMA CallItem ==
    ASSUME NEW m \in Nat, NEW r, NEW a, Faithful(m, "responses", r, a),
           NEW call, call.index \in Nat, call.piece \in Seq(Nat), call.piece # << >> => m > 0
    PROVE  Faithful(m, "responses", r, Stream!ToolCallItem(a, call))
<1>. DEFINE w == "responses"
            b == Stream!CloseItem(a)
            c == Stream!NewTool(b, call)
            d == Stream!Emit(c, << Stream!Event("item.added", Stream!Last(c.tools), << >>) >>)
            e == IF Stream!Known(a, call) THEN a ELSE d
<1>1. Stream!ToolCallItem(a, call) = Stream!AddArguments(e, call)
  BY Zenon DEF Stream!ToolCallItem
<1>2. Faithful(m, w, r, b) /\ ~Opened(b) /\ b.tools = a.tools
  BY ClosesItem
<1>. HIDE DEF b
<1>3. Stream!Known(b, call) = Stream!Known(a, call)
  BY <1>2 DEF Stream!Known
<1>4. Faithful(m, w, r, e) /\ Stream!Known(e, call)
  <2>1. CASE Stream!Known(a, call)
    BY <2>1
  <2>2. CASE ~Stream!Known(a, call)
    <3>1. e = d /\ w \in {"responses", "messages"}
      BY <2>2
    <3>. HIDE DEF e, w, c
    <3>. QED
      BY <1>2, <1>3, <2>2, <3>1, AddsTool DEF c
  <2>. QED
    BY <2>1, <2>2
<1>5. w \in {"responses", "messages"}
  OBVIOUS
<1>. HIDE DEF e
<1>. QED
  BY <1>1, <1>4, <1>5, AddsArguments

\* A tool call of a Messages stream, new or known, keeps the adapter faithful.
LEMMA CallBlock ==
    ASSUME NEW m \in Nat, NEW r, NEW a, Faithful(m, "messages", r, a),
           NEW call, call.index \in Nat, call.piece \in Seq(Nat), call.piece # << >> => m > 0
    PROVE  Faithful(m, "messages", r, Stream!ToolCallBlock(a, call))
<1>. DEFINE w == "messages"
            b == Stream!CloseBlock(a)
            c == Stream!NewTool(b, call)
            d == Stream!Emit(c, << Stream!Event("item.added", Stream!Last(c.tools), << >>) >>)
            e == IF Stream!Known(a, call) THEN a ELSE d
<1>1. Stream!ToolCallBlock(a, call) = Stream!AddArguments(e, call)
  BY Zenon DEF Stream!ToolCallBlock
<1>2. Faithful(m, w, r, b) /\ ~Opened(b) /\ b.tools = a.tools
  BY ClosesBlock
<1>. HIDE DEF b
<1>3. Stream!Known(b, call) = Stream!Known(a, call)
  BY <1>2 DEF Stream!Known
<1>4. Faithful(m, w, r, e) /\ Stream!Known(e, call)
  <2>1. CASE Stream!Known(a, call)
    BY <2>1
  <2>2. CASE ~Stream!Known(a, call)
    <3>1. e = d /\ w \in {"responses", "messages"}
      BY <2>2
    <3>. HIDE DEF e, w, c
    <3>. QED
      BY <1>2, <1>3, <2>2, <3>1, AddsTool DEF c
  <2>. QED
    BY <2>1, <2>2
<1>5. w \in {"responses", "messages"}
  OBVIOUS
<1>. HIDE DEF e
<1>. QED
  BY <1>1, <1>4, <1>5, AddsArguments

\* A call on the surface w.
Handled(w, a, call) ==
    IF w = "responses" THEN Stream!ToolCallItem(a, call) ELSE Stream!ToolCallBlock(a, call)
Handles(it, w, base, calls) ==
    it = [s \in SUBSET DOMAIN calls |->
            IF s = {} THEN base ELSE Handled(w, it[s \ {Top(s)}], calls[Top(s)])]

\* A Responses stream takes the calls of a chunk one after the other.
LEMMA ItemsUnfold ==
    ASSUME NEW base, NEW calls
    PROVE  Stream!FoldLeft(Stream!ToolCallItem, base, calls)
             = (CHOOSE it : Handles(it, "responses", base, calls))[DOMAIN calls]
BY DEF Stream!FoldLeft, Stream!MapThenFoldSet, Stream!Max, Top, Handles, Handled

\* A Messages stream takes the calls of a chunk one after the other.
LEMMA BlocksUnfold ==
    ASSUME NEW base, NEW calls
    PROVE  Stream!FoldLeft(Stream!ToolCallBlock, base, calls)
             = (CHOOSE it : Handles(it, "messages", base, calls))[DOMAIN calls]
<1>1. "messages" # "responses"
  OBVIOUS
<1>. QED
  BY <1>1 DEF Stream!FoldLeft, Stream!MapThenFoldSet, Stream!Max, Top, Handles, Handled

\* One call of a chunk keeps the adapter of either surface faithful.
LEMMA HandledSound ==
    ASSUME NEW m \in Nat, NEW w \in {"responses", "messages"}, NEW r, NEW a, Faithful(m, w, r, a),
           NEW call, call.index \in Nat, call.piece \in Seq(Nat), call.piece # << >> => m > 0
    PROVE  Faithful(m, w, r, Handled(w, a, call))
<1>1. CASE w = "responses"
  BY <1>1, CallItem DEF Handled
<1>2. CASE w = "messages"
  BY <1>2, CallBlock DEF Handled
<1>. QED
  BY <1>1, <1>2

\* All calls of a chunk keep the adapter of either surface faithful.
LEMMA HandlesSound ==
    ASSUME NEW m \in Nat, NEW w \in {"responses", "messages"}, NEW r, NEW base,
           Faithful(m, w, r, base), NEW calls \in Seq(Stream!Deltas),
           \A j \in DOMAIN calls : calls[j].piece # << >> => m > 0,
           NEW end, end = (CHOOSE it : Handles(it, w, base, calls))[DOMAIN calls]
    PROVE  Faithful(m, w, r, end)
<1>. DEFINE n == Len(calls)
            D == DOMAIN calls
            V == {x \in Adapters(m) : Faithful(m, w, r, x)}
            it == CHOOSE f : Handles(f, w, base, calls)
            step == [p \in V \X (1..n) |-> Handled(w, p[1], calls[p[2]])]
<1>1. D = 1..n /\ n \in Nat
  OBVIOUS
<1>2. \A x : x \in V <=> Faithful(m, w, r, x)
  BY FaithfulIsTyped
<1>3. ASSUME NEW x \in V, NEW i \in 1..n PROVE Handled(w, x, calls[i]) \in V
  <2>1. calls[i] \in Stream!Deltas /\ i \in DOMAIN calls
    BY <1>1
  <2>2. /\ calls[i].index \in Nat /\ calls[i].piece \in Seq(Nat)
        /\ calls[i].piece # << >> => m > 0
    BY <2>1 DEF Stream!Deltas
  <2>3. Faithful(m, w, r, x)
    BY <1>2
  <2>. HIDE DEF V
  <2>. QED
    BY <1>2, <2>2, <2>3, HandledSound
<1>4. base \in V
  BY <1>2
<1>. HIDE DEF V
<1>5. step \in [V \X (1..n) -> V]
  <2>1. ASSUME NEW p \in V \X (1..n) PROVE Handled(w, p[1], calls[p[2]]) \in V
    BY <1>3
  <2>. QED
    BY <2>1
<1>6. \E f : Handles(f, w, base, calls)
  <2>1. PICK f \in [SUBSET (1..n) -> V] : Unrolls(f, 1..n, step, base)
    BY <1>1, <1>4, <1>5, FoldExists
  <2>2. ASSUME NEW s \in SUBSET (1..n), s # {}
        PROVE  step[<< f[s \ {Top(s)}], Top(s) >>] = Handled(w, f[s \ {Top(s)}], calls[Top(s)])
    <3>1. Top(s) \in 1..n
      BY <1>1, <2>2, TopIn
    <3>2. f[s \ {Top(s)}] \in V
      BY <2>1
    <3>. QED
      BY <3>1, <3>2
  <2>3. f = [s \in SUBSET D |->
               IF s = {} THEN base ELSE step[<< f[s \ {Top(s)}], Top(s) >>]]
    BY <1>1, <2>1, Zenon DEF Unrolls
  <2>. HIDE DEF step
  <2>. QED
    BY <1>1, <2>2, <2>3, ZenonT(60) DEF Handles
<1>7. Handles(it, w, base, calls)
  BY <1>6, Zenon
<1>. HIDE DEF it
<1>8. it[{}] = base
  BY <1>7 DEF Handles
<1>9. ASSUME NEW s \in SUBSET (1..n), s # {}, it[s \ {Top(s)}] \in V
      PROVE  it[s] = step[<< it[s \ {Top(s)}], Top(s) >>]
  <2>1. Top(s) \in 1..n
    BY <1>1, <1>9, TopIn
  <2>2. it[s] = Handled(w, it[s \ {Top(s)}], calls[Top(s)])
    BY <1>1, <1>7, <1>9 DEF Handles
  <2>. QED
    BY <1>9, <2>1, <2>2
<1>10. Ran(it, n, V, step)
  <2>1. Runs(it, n, V, step, base)
    <3>1. \A s \in SUBSET (1..n) : s # {} /\ it[s \ {Top(s)}] \in V
             => it[s] = step[<< it[s \ {Top(s)}], Top(s) >>]
      BY <1>9
    <3>. HIDE DEF step, n
    <3>. QED
      BY <1>8, <3>1, Zenon DEF Runs
  <2>. HIDE DEF step, n
  <2>. QED
    BY <1>1, <1>4, <1>5, <2>1, FoldRuns
<1>11. it[1..n] \in V
  <2>1. n \in 0..n
    OBVIOUS
  <2>. HIDE DEF step, n
  <2>. QED
    BY <1>10, <2>1 DEF Ran
<1>12. end = it[1..n]
  BY <1>1 DEF it
<1>. QED
  BY <1>2, <1>11, <1>12

-----------------------------------------------------------------------------
(* A chunk.                                                                *)

Chunk(c) ==
    /\ c.thought \in Seq(Nat) /\ c.text \in Seq(Nat) /\ c.calls \in Seq(Stream!Deltas)
    /\ c.finish \in Stream!Finishes
Carries(c, m) ==
    /\ c.thought # << >> => m > 0
    /\ c.text # << >> => m > 0
    /\ \A j \in DOMAIN c.calls : c.calls[j].piece # << >> => m > 0

\* The reason a chunk gives for the end, if any, keeps the adapter faithful.
LEMMA TakesFinish ==
    ASSUME NEW m \in Nat, NEW w, NEW r, NEW a, Faithful(m, w, r, a), NEW x \in Stream!Finishes,
           NEW b, b = [a EXCEPT !.finish = IF x = "" THEN a.finish ELSE x]
    PROVE  Faithful(m, w, r, b)
<1>1. a.finish \in Stream!Finishes
  BY FaithfulIsTyped, TypedAdapter
<1>2. PICK y \in Stream!Finishes : y = IF x = "" THEN a.finish ELSE x
  BY <1>1
<1>3. b = [a EXCEPT !.finish = y]
  BY <1>2, Zenon
<1>. QED
  BY <1>3, Finishes

\* A whole chunk keeps the adapter of a Responses stream faithful.
LEMMA ResponsesChunkSound ==
    ASSUME NEW m \in Nat, NEW r, NEW a, Faithful(m, "responses", r, a),
           NEW chunk, Chunk(chunk), Carries(chunk, m)
    PROVE  Faithful(m, "responses", r, Stream!ResponsesChunk(a, chunk))
<1>. DEFINE b == Stream!StartResponse(a)
            c == [b EXCEPT !.finish = IF chunk.finish = "" THEN b.finish ELSE chunk.finish]
            d == Stream!AppendPiece(c, "reasoning", chunk.thought)
            e == Stream!AppendPiece(d, "text", chunk.text)
<1>1. Stream!ResponsesChunk(a, chunk) = Stream!FoldLeft(Stream!ToolCallItem, e, chunk.calls)
  BY Zenon DEF Stream!ResponsesChunk
<1>2. Faithful(m, "responses", r, b)
  BY StartsResponse
<1>. HIDE DEF b
<1>3. Faithful(m, "responses", r, c)
  <2>1. c = [b EXCEPT !.finish = IF chunk.finish = "" THEN b.finish ELSE chunk.finish]
    OBVIOUS
  <2>2. chunk.finish \in Stream!Finishes
    BY DEF Chunk
  <2>. HIDE DEF c
  <2>. QED
    BY <1>2, <2>1, <2>2, TakesFinish, Zenon
<1>. HIDE DEF c
<1>4. Faithful(m, "responses", r, d)
  BY <1>3, AppendsPiece DEF Chunk, Carries
<1>. HIDE DEF d
<1>5. Faithful(m, "responses", r, e)
  BY <1>4, AppendsPiece DEF Chunk, Carries
<1>. HIDE DEF e
<1>. DEFINE w == "responses"
<1>6. w \in {"responses", "messages"}
  OBVIOUS
<1>. HIDE DEF w
<1>. DEFINE end == (CHOOSE it : Handles(it, w, e, chunk.calls))[DOMAIN chunk.calls]
<1>7. Faithful(m, w, r, end)
  <2>1. Faithful(m, w, r, e)
    BY <1>5 DEF w
  <2>2. chunk.calls \in Seq(Stream!Deltas)
        /\ \A j \in DOMAIN chunk.calls : chunk.calls[j].piece # << >> => m > 0
    BY DEF Chunk, Carries
  <2>3. end = (CHOOSE it : Handles(it, w, e, chunk.calls))[DOMAIN chunk.calls]
    OBVIOUS
  <2>. HIDE DEF end
  <2>. QED
    BY <1>6, <2>1, <2>2, <2>3, HandlesSound
<1>8. Stream!ResponsesChunk(a, chunk) = end
  BY <1>1, ItemsUnfold, Zenon DEF w
<1>. HIDE DEF end
<1>. QED
  BY <1>7, <1>8 DEF w

\* A whole chunk keeps the adapter of a Messages stream faithful.
LEMMA MessageChunkSound ==
    ASSUME NEW m \in Nat, NEW r, NEW a, Faithful(m, "messages", r, a),
           NEW chunk, Chunk(chunk), Carries(chunk, m),
           NEW thinking \in BOOLEAN, NEW estimate \in Nat
    PROVE  Faithful(m, "messages", r, Stream!MessageChunk(a, chunk, thinking, estimate))
<1>. DEFINE b == Stream!StartMessage(a, estimate)
            thought == IF thinking THEN chunk.thought ELSE << >>
            c == Stream!SwitchTo(b, "reasoning", thought)
            d == Stream!SwitchTo(c, "text", chunk.text)
            e == Stream!FoldLeft(Stream!ToolCallBlock, d, chunk.calls)
            f == [e EXCEPT !.finish = IF chunk.finish = "" THEN e.finish ELSE chunk.finish]
<1>1. Stream!MessageChunk(a, chunk, thinking, estimate) = f
  BY Zenon DEF Stream!MessageChunk
<1>2. Faithful(m, "messages", r, b)
  BY StartsMessage
<1>. HIDE DEF b
<1>3. thought \in Seq(Nat) /\ (thought # << >> => m > 0)
  BY DEF Chunk, Carries
<1>. HIDE DEF thought
<1>4. Faithful(m, "messages", r, c)
  BY <1>2, <1>3, SwitchesTo
<1>. HIDE DEF c
<1>5. Faithful(m, "messages", r, d)
  BY <1>4, SwitchesTo DEF Chunk, Carries
<1>. HIDE DEF d
<1>. DEFINE w == "messages"
<1>6. w \in {"responses", "messages"}
  OBVIOUS
<1>. HIDE DEF w
<1>. DEFINE end == (CHOOSE it : Handles(it, w, d, chunk.calls))[DOMAIN chunk.calls]
<1>7. Faithful(m, w, r, end)
  <2>1. Faithful(m, w, r, d)
    BY <1>5 DEF w
  <2>2. chunk.calls \in Seq(Stream!Deltas)
        /\ \A j \in DOMAIN chunk.calls : chunk.calls[j].piece # << >> => m > 0
    BY DEF Chunk, Carries
  <2>3. end = (CHOOSE it : Handles(it, w, d, chunk.calls))[DOMAIN chunk.calls]
    OBVIOUS
  <2>. HIDE DEF end
  <2>. QED
    BY <1>6, <2>1, <2>2, <2>3, HandlesSound
<1>8. e = end
  BY BlocksUnfold, Zenon DEF w
<1>. HIDE DEF end, e
<1>9. Faithful(m, "messages", r, e)
  BY <1>7, <1>8 DEF w
<1>10. Faithful(m, "messages", r, f)
  <2>1. f = [e EXCEPT !.finish = IF chunk.finish = "" THEN e.finish ELSE chunk.finish]
    OBVIOUS
  <2>2. chunk.finish \in Stream!Finishes
    BY DEF Chunk
  <2>. HIDE DEF f
  <2>. QED
    BY <1>9, <2>1, <2>2, TakesFinish, Zenon
<1>. QED
  BY <1>1, <1>10

-----------------------------------------------------------------------------
(* The calls in the order of the backend's numbers.                        *)

\* The adapters count sets as everybody does.
LEMMA SameCardinality ==
    ASSUME NEW S
    PROVE  Stream!Cardinality(S) = Cardinality(S)
BY DEF Stream!Cardinality, Cardinality

Ahead(tools, x) == {u \in Stream!ToSet(tools) : u.call < x}

\* The calls that come before one are as many as its place says, and fewer for an earlier one.
LEMMA AheadIs ==
    ASSUME NEW tools \in Seq(Tools), Distinct(tools), NEW i \in DOMAIN tools
    PROVE  /\ IsFiniteSet(Ahead(tools, tools[i].call))
           /\ Cardinality(Ahead(tools, tools[i].call)) \in 0..(Len(tools) - 1)
           /\ \A j \in DOMAIN tools : tools[i].call < tools[j].call =>
                Cardinality(Ahead(tools, tools[i].call)) < Cardinality(Ahead(tools, tools[j].call))
<1>. DEFINE n == Len(tools)
            All == Stream!ToSet(tools)
            b(k) == Ahead(tools, tools[k].call)
<1>1. n \in Nat /\ DOMAIN tools = 1..n /\ IsFiniteSet(1..n) /\ Cardinality(1..n) = n
  <2>1. n \in Nat /\ DOMAIN tools = 1..n
    OBVIOUS
  <2>2. IsFiniteSet(1..n) /\ Cardinality(1..n) = n
    <3>. HIDE DEF n
    <3>1. /\ IsFiniteSet(1..n)
          /\ Cardinality(1..n) = IF 1 > n THEN 0 ELSE n - 1 + 1
      BY <2>1, FS_Interval
    <3>. QED
      BY <2>1, <3>1
  <2>. QED
    BY <2>1, <2>2
<1>2. \A k \in DOMAIN tools : tools[k].call \in Nat /\ tools[k] \in All
  <2>1. ASSUME NEW k \in DOMAIN tools PROVE tools[k].call \in Nat /\ tools[k] \in All
    <3>1. tools[k] \in Tools
      OBVIOUS
    <3>. QED
      BY <3>1 DEF Tools, Stream!ToSet
  <2>. QED
    BY <2>1
<1>3. IsFiniteSet(All) /\ Cardinality(All) <= n
  <2>. DEFINE f == [k \in 1..n |-> tools[k]]
              S == 1..n
  <2>1. f \in Surjection(S, All)
    BY <1>1, <1>2 DEF Surjection, Stream!ToSet
  <2>. HIDE DEF f, All
  <2>2. /\ IsFiniteSet(All)
        /\ Cardinality(All) <= Cardinality(S)
    <3>1. IsFiniteSet(S)
      BY <1>1
    <3>. HIDE DEF S
    <3>. QED
      BY <2>1, <3>1, FS_Surjection
  <2>. QED
    BY <1>1, <2>2
<1>4. ASSUME NEW k \in DOMAIN tools
      PROVE  IsFiniteSet(b(k)) /\ b(k) \subseteq All /\ tools[k] \notin b(k) /\ Cardinality(b(k)) \in Nat
  <2>1. b(k) \in SUBSET All /\ tools[k] \notin b(k)
    BY <1>2 DEF Ahead
  <2>. HIDE DEF All
  <2>2. IsFiniteSet(b(k))
    BY <1>3, <2>1, FS_Subset
  <2>. QED
    BY <2>1, <2>2, FS_CardinalityType
<1>5. ASSUME NEW k \in DOMAIN tools, NEW U, IsFiniteSet(U), tools[k] \in U, b(k) \subseteq U
      PROVE  Cardinality(b(k)) < Cardinality(U)
  <2>. DEFINE x == tools[k]
              B == b(k)
  <2>1. IsFiniteSet(B) /\ x \notin B /\ Cardinality(B) \in Nat /\ B \cup {x} \in SUBSET U
    BY <1>4, <1>5
  <2>. HIDE DEF x, B
  <2>2. Cardinality(B \cup {x}) = Cardinality(B) + 1
    BY <2>1, FS_AddElement
  <2>3. Cardinality(B \cup {x}) <= Cardinality(U)
    BY <1>5, <2>1, FS_Subset
  <2>4. Cardinality(U) \in Nat
    BY <1>5, FS_CardinalityType
  <2>5. Cardinality(B) < Cardinality(U)
    BY <2>1, <2>2, <2>3, <2>4
  <2>. QED
    BY <2>5 DEF B
<1>6. Cardinality(b(i)) < Cardinality(All)
  BY <1>2, <1>3, <1>4, <1>5
<1>7. ASSUME NEW j \in DOMAIN tools, tools[i].call < tools[j].call
      PROVE  Cardinality(b(i)) < Cardinality(b(j))
  <2>1. tools[i] \in b(j) /\ b(i) \subseteq b(j)
    <3>1. tools[i] \in b(j)
      BY <1>2, <1>7 DEF Ahead
    <3>2. ASSUME NEW u \in b(i) PROVE u \in b(j)
      <4>1. PICK k \in DOMAIN tools : u = tools[k]
        BY DEF Ahead, Stream!ToSet
      <4>2. u.call \in Nat /\ u.call < tools[i].call /\ u \in All
        BY <1>2, <4>1 DEF Ahead
      <4>3. u.call < tools[j].call
        BY <1>2, <1>7, <4>2
      <4>. QED
        BY <4>2, <4>3 DEF Ahead
    <3>. QED
      BY <3>1, <3>2
  <2>. QED
    BY <1>4, <1>5, <2>1
<1>8. Cardinality(All) \in Nat
  BY <1>3, FS_CardinalityType
<1>9. Cardinality(b(i)) \in 0..(n - 1)
  <2>1. Cardinality(b(i)) \in Nat
    BY <1>4
  <2>. HIDE DEF b, All, n
  <2>. QED
    BY <1>1, <1>3, <1>6, <1>8, <2>1
<1>. QED
  BY <1>4, <1>7, <1>9

\* The calls in the order of the backend are the calls, each once.
LEMMA ByCallIs ==
    ASSUME NEW tools \in Seq(Tools), Distinct(tools),
           NEW ts, ts = Stream!ByCall(tools)
    PROVE  /\ ts \in Seq(Tools) /\ Len(ts) = Len(tools)
           /\ \A k \in 1..Len(ts) : \E i \in DOMAIN tools : ts[k] = tools[i]
           /\ \A k, l \in 1..Len(ts) : k # l => ts[k].index # ts[l].index
<1>. DEFINE n == Len(tools)
            rank(x) == Cardinality(Ahead(tools, x))
            f == [i \in 1..n |-> rank(tools[i].call)]
<1>1. n \in Nat /\ DOMAIN tools = 1..n
  OBVIOUS
<1>2. f \in Injection(1..n, 0..(n - 1))
  <2>1. f \in [1..n -> 0..(n - 1)]
    BY <1>1, AheadIs
  <2>2. ASSUME NEW i \in 1..n, NEW j \in 1..n, f[i] = f[j] PROVE i = j
    <3>1. rank(tools[i].call) \in 0..(n - 1) /\ rank(tools[j].call) \in 0..(n - 1)
      BY <1>1, AheadIs
    <3>2. tools[i].call < tools[j].call => rank(tools[i].call) < rank(tools[j].call)
      BY <1>1, AheadIs
    <3>3. tools[j].call < tools[i].call => rank(tools[j].call) < rank(tools[i].call)
      BY <1>1, AheadIs
    <3>4. rank(tools[i].call) = rank(tools[j].call)
      BY <2>2
    <3>5. tools[i].call \in Nat /\ tools[j].call \in Nat
      <4>1. tools[i] \in Tools /\ tools[j] \in Tools
        OBVIOUS
      <4>. QED
        BY <4>1 DEF Tools
    <3>. HIDE DEF rank, n, f
    <3>6. tools[i].call = tools[j].call
      <4>. DEFINE x == tools[i].call
                  y == tools[j].call
                  u == rank(x)
                  v == rank(y)
      <4>1. x \in Nat /\ y \in Nat /\ u \in 0..(n - 1) /\ u = v /\ (x < y => u < v) /\ (y < x => v < u)
        BY <3>1, <3>2, <3>3, <3>4, <3>5
      <4>. HIDE DEF x, y, u, v
      <4>2. x = y
        BY <1>1, <4>1
      <4>. QED
        BY <4>2 DEF x, y
    <3>. QED
      BY <1>1, <3>6 DEF Distinct
  <2>. QED
    BY <2>1, <2>2 DEF Injection, IsInjective
<1>3. f \in Surjection(1..n, 0..(n - 1))
  <2>. DEFINE S == 1..n
              U == 0..(n - 1)
  <2>1. IsFiniteSet(S) /\ Cardinality(S) = n
    <3>. HIDE DEF n
    <3>1. IsFiniteSet(1..n) /\ Cardinality(1..n) = IF 1 > n THEN 0 ELSE n - 1 + 1
      BY <1>1, FS_Interval
    <3>. QED
      BY <1>1, <3>1
  <2>2. IsFiniteSet(U) /\ Cardinality(U) = n
    <3>. HIDE DEF n
    <3>1. n - 1 \in Int
      BY <1>1
    <3>2. IsFiniteSet(0..(n - 1)) /\ Cardinality(0..(n - 1)) = IF 0 > n - 1 THEN 0 ELSE (n - 1) - 0 + 1
      BY <3>1, FS_Interval
    <3>. QED
      BY <1>1, <3>2
  <2>3. f \in Injection(S, U)
    BY <1>2
  <2>. HIDE DEF S, U, f, n
  <2>4. f \in Surjection(S, U)
    BY <2>1, <2>2, <2>3, FS_Injection
  <2>. QED
    BY <2>4 DEF S, U
<1>4. ASSUME NEW k \in 1..n
      PROVE  /\ \E i \in DOMAIN tools : ts[k] = tools[i]
             /\ rank(ts[k].call) = k - 1
  <2>1. k - 1 \in 0..(n - 1)
    BY <1>1
  <2>2. PICK i \in 1..n : f[i] = k - 1
    <3>. HIDE DEF f, n
    <3>. QED
      BY <1>3, <2>1 DEF Surjection
  <2>3. tools[i] \in Stream!ToSet(tools) /\ rank(tools[i].call) = k - 1
    BY <1>1, <2>2 DEF Stream!ToSet
  <2>. DEFINE All == Stream!ToSet(tools)
              P(t) == Stream!Cardinality({u \in All : u.call < t.call}) = k - 1
  <2>4. \A t : P(t) <=> rank(t.call) = k - 1
    BY SameCardinality DEF Ahead
  <2>5. ts[k] = CHOOSE t \in All : P(t)
    BY <1>1 DEF Stream!ByCall
  <2>. HIDE DEF P, rank, f
  <2>6. ts[k] \in All /\ P(ts[k])
    BY <2>3, <2>4, <2>5
  <2>7. \E j \in DOMAIN tools : ts[k] = tools[j]
    BY <2>6 DEF Stream!ToSet
  <2>. QED
    BY <2>4, <2>6, <2>7
<1>. HIDE DEF f
<1>5. ts \in Seq(Tools) /\ Len(ts) = n
  <2>1. ts = [k \in 1..n |-> ts[k]]
    <3>1. ts = [k \in DOMAIN tools |->
                  CHOOSE t \in Stream!ToSet(tools) :
                    Stream!Cardinality({u \in Stream!ToSet(tools) : u.call < t.call}) = k - 1]
      BY Zenon DEF Stream!ByCall
    <3>2. \A d, g : g = [k \in d |-> g[k]] => \A e : e = d => g = [k \in e |-> g[k]]
      OBVIOUS
    <3>3. ts = [k \in DOMAIN tools |-> ts[k]]
      BY <3>1
    <3>. QED
      BY <1>1, <3>3
  <2>2. \A k \in 1..n : ts[k] \in Tools
    <3>1. ASSUME NEW k \in 1..n PROVE ts[k] \in Tools
      <4>1. PICK i \in DOMAIN tools : ts[k] = tools[i]
        BY <1>4
      <4>. QED
        BY <4>1
    <3>. QED
      BY <3>1
  <2>3. ts \in [1..n -> Tools]
    BY <2>1, <2>2
  <2>. HIDE DEF n
  <2>. QED
    BY <1>1, <2>3
<1>6. ASSUME NEW k \in 1..n, NEW l \in 1..n, k # l PROVE ts[k].index # ts[l].index
  <2>1. PICK i \in DOMAIN tools : ts[k] = tools[i]
    BY <1>4
  <2>2. PICK j \in DOMAIN tools : ts[l] = tools[j]
    BY <1>4
  <2>3. rank(ts[k].call) = k - 1 /\ rank(ts[l].call) = l - 1
    BY <1>4
  <2>4. k - 1 # l - 1
    BY <1>6
  <2>5. i # j
    BY <2>1, <2>2, <2>3, <2>4
  <2>. QED
    BY <2>1, <2>2, <2>5 DEF Distinct
<1>. QED
  BY <1>4, <1>5, <1>6

-----------------------------------------------------------------------------
(* The calls, closed one after the other.                                  *)

\* The reader has the calls from the i-th on.
Remain(items, ts, i) ==
    items \in Seq(Shapes) /\ \A j \in i..Len(ts) : Held(items, ts[j])
Apart(ts) == \A k, l \in 1..Len(ts) : k # l => ts[k].index # ts[l].index

\* Shutting the item of one call leaves the ones that remain open.
LEMMA ShutRemains ==
    ASSUME NEW ts \in Seq(Tools), Apart(ts), NEW items, NEW i \in 1..Len(ts), Remain(items, ts, i),
           NEW t, t = ts[i], NEW k, k = t.index + 1,
           NEW new, new = Put(items, k, Shut(t.kind, items[k].whole))
    PROVE  Remain(new, ts, i + 1)
<1>1. /\ items \in Seq(Shapes) /\ t \in Tools /\ t.index \in Nat /\ t.kind \in Kinds
      /\ t.whole \in Seq(Nat) /\ Held(items, t)
  <2>1. t \in Tools
    OBVIOUS
  <2>2. i \in i..Len(ts)
    OBVIOUS
  <2>. QED
    BY <2>1, <2>2 DEF Tools, Remain
<1>2. k \in DOMAIN items /\ items[k].whole = t.whole
  BY <1>1 DEF Held, Stands
<1>. DEFINE x == Shut(t.kind, items[k].whole)
<1>3. x \in Shapes
  BY <1>1, <1>2, ShapesAre
<1>4. new = Put(items, k, x)
  OBVIOUS
<1>. HIDE DEF x
<1>5. new \in Seq(Shapes)
  <2>. DEFINE p == Put(items, k, x)
  <2>1. p \in Seq(Shapes)
    BY <1>1, <1>2, <1>3, PutIs
  <2>. QED
    BY <1>4, <2>1
<1>6. ASSUME NEW j \in (i + 1)..Len(ts) PROVE Held(new, ts[j])
  <2>1. j \in i..Len(ts) /\ j \in 1..Len(ts) /\ j # i /\ ts[j] \in Tools
    OBVIOUS
  <2>2. Held(items, ts[j])
    BY <2>1 DEF Remain
  <2>3. ts[j].index # t.index
    BY <2>1 DEF Apart
  <2>4. ts[j].index \in Nat
    BY <2>1 DEF Tools
  <2>5. ts[j].index + 1 # k
    BY <1>1, <2>3, <2>4
  <2>. QED
    BY <1>1, <1>2, <1>3, <1>4, <2>2, <2>5, PutElsewhere
<1>. QED
  BY <1>5, <1>6 DEF Remain

\* A call of a Responses stream is closed.
Closing(b, t) == [b EXCEPT !.closed = Append(@, Stream!Whole(t))]
ClosesOne(b, t) ==
    Stream!Emit(Closing(b, t),
                << Stream!Event("content.done", t, t.whole), Stream!Event("item.done", t, t.whole) >>)

\* Closing a call emits two frames, after noting the call as closed.
LEMMA ClosesOneTyped ==
    ASSUME NEW m \in Nat, NEW a \in Adapters(m), NEW t \in Tools,
           NEW c, c = Closing(a, t),
           NEW e, e = Stream!Event("content.done", t, t.whole),
           NEW f, f = Stream!Event("item.done", t, t.whole)
    PROVE  /\ c \in Adapters(m) /\ c.out = a.out /\ c.seq = a.seq
           /\ e \in Frames(m) /\ e.type = "content.done" /\ e.index = t.index /\ e.kind = t.kind
           /\ f \in Frames(m)
           /\ ClosesOne(a, t) = Stream!Emit(Stream!Emit(c, << e >>), << f >>)
           /\ ClosesOne(a, t) \in Adapters(m)
<1>1. t.index \in Nat /\ t.kind \in Kinds /\ t.whole \in Seq(Nat) /\ a.closed \in Seq(Items)
  BY TypedAdapter DEF Tools
<1>2. Stream!Whole(t) \in Items
  BY <1>1 DEF Stream!Whole, Items
<1>3. /\ c \in Adapters(m) /\ c.out = a.out /\ c.seq = a.seq
  <2>1. PICK new \in Seq(Items) : new = Append(a.closed, Stream!Whole(t))
    <3>1. Append(a.closed, Stream!Whole(t)) \in Seq(Items)
      BY <1>1, <1>2
    <3>. QED
      BY <3>1, Zenon
  <2>2. c = [a EXCEPT !.closed = new]
    BY <2>1, Zenon DEF Closing
  <2>. QED
    BY <2>2 DEF Adapters
<1>4. /\ e \in Frames(m) /\ e.type = "content.done" /\ e.index = t.index /\ e.kind = t.kind
      /\ f \in Frames(m)
  <2>1. "content.done" \in Types /\ "item.done" \in Types
    BY DEF Types
  <2>. QED
    BY <1>1, <2>1, EventIsFrame
<1>5. ClosesOne(a, t) = Stream!Emit(c, << e, f >>)
  BY Zenon DEF ClosesOne
<1>6. ClosesOne(a, t) = Stream!Emit(Stream!Emit(c, << e >>), << f >>)
  <2>. DEFINE cc == c
  <2>1. cc \in Adapters(m) /\ ClosesOne(a, t) = Stream!Emit(cc, << e, f >>)
    BY <1>3, <1>5
  <2>2. ClosesOne(a, t) = Stream!Emit(Stream!Emit(cc, << e >>), << f >>)
    <3>. HIDE DEF cc
    <3>1. Stream!Emit(cc, << e, f >>) = Stream!Emit(Stream!Emit(cc, << e >>), << f >>)
      BY <1>4, <2>1, EmitTwo, Zenon
    <3>. QED
      BY <2>1, <3>1, Zenon
  <2>. QED
    BY <2>2, Zenon
<1>7. ClosesOne(a, t) \in Adapters(m)
  <2>1. Stream!Emit(c, << e >>) \in Adapters(m)
    BY <1>3, <1>4, EmitSame, Zenon
  <2>2. Stream!Emit(Stream!Emit(c, << e >>), << f >>) \in Adapters(m)
    BY <1>4, <2>1, EmitSame, Zenon
  <2>. QED
    BY <1>6, <2>2, Zenon
<1>. QED
  BY <1>3, <1>4, <1>6, <1>7, Zenon

\* Closing a call shuts its item for the reader.
LEMMA ClosesOneFeeds ==
    ASSUME NEW m \in Nat, NEW w, NEW r, NEW a, NEW q, Feeds(m, w, r, a, q),
           NEW t \in Tools, Held(q.items, t), NEW k, k = t.index + 1
    PROVE  \E q2 : /\ Feeds(m, w, r, ClosesOne(a, t), q2)
                   /\ q2.items = Put(q.items, k, Shut(t.kind, q.items[k].whole))
<1>1. a \in Adapters(m) /\ t.index \in Nat /\ t.kind \in Kinds /\ t.whole \in Seq(Nat)
  BY FeedsAre DEF Tools
<1>2. PICK c : c = Closing(a, t)
  BY Zenon
<1>3. PICK e, f : e = Stream!Event("content.done", t, t.whole) /\ f = Stream!Event("item.done", t, t.whole)
  BY Zenon
<1>4. /\ c \in Adapters(m) /\ c.out = a.out /\ c.seq = a.seq
      /\ e \in Frames(m) /\ e.type = "content.done" /\ e.index = t.index /\ e.kind = t.kind
      /\ f \in Frames(m)
      /\ ClosesOne(a, t) = Stream!Emit(Stream!Emit(c, << e >>), << f >>)
  BY <1>1, <1>2, <1>3, ClosesOneTyped
<1>5. Feeds(m, w, r, c, q)
  BY <1>4, FeedsLike
<1>6. Stands(q.items, t) /\ q.items[k].whole = t.whole
  BY DEF Held
<1>7. Stands(q.items, e) /\ e.type \in {"part.added", "part.done", "content.done"}
  BY <1>4, <1>6 DEF Stands
<1>8. PICK q1 : Feeds(m, w, r, Stream!Emit(c, << e >>), q1) /\ q1.items = q.items
  BY <1>4, <1>5, <1>7, EmitInner
<1>. DEFINE d == Stream!Emit(c, << e >>)
            b == Stream!Emit(d, << f >>)
<1>9. \E q2 : /\ Feeds(m, w, r, b, q2)
              /\ q2.items = Put(q1.items, k, Shut(t.kind, q1.items[k].whole))
  <2>. DEFINE whole == t.whole
  <2>1. Stands(q1.items, t) /\ whole \in {<< >>, q1.items[k].whole} /\ whole \in Seq(Nat)
    BY <1>1, <1>6, <1>8
  <2>2. b = Stream!Emit(d, << Stream!Event("item.done", t, whole) >>)
    BY <1>3
  <2>3. Feeds(m, w, r, d, q1)
    BY <1>8
  <2>. HIDE DEF d, b, whole
  <2>. QED
    BY <1>1, <2>1, <2>2, <2>3, EmitDone
<1>. QED
  BY <1>4, <1>8, <1>9

Closes(it, base, ts) ==
    it = [s \in SUBSET DOMAIN ts |->
            IF s = {} THEN base ELSE ClosesOne(it[s \ {Top(s)}], ts[Top(s)])]

\* The calls are closed one after the other.
LEMMA ToolsUnfold ==
    ASSUME NEW a, NEW ts, ts = Stream!ByCall(a.tools)
    PROVE  Stream!CloseTools(a) = (CHOOSE it : Closes(it, a, ts))[DOMAIN ts]
BY DEF Stream!CloseTools, Stream!FoldLeft, Stream!MapThenFoldSet, Stream!Max, Top, Closes,
       ClosesOne, Closing

\* Closing all calls leaves a reader that has lost nothing.
LEMMA ClosesFeeds ==
    ASSUME NEW m \in Nat, NEW w, NEW r, NEW base, NEW q0, Feeds(m, w, r, base, q0),
           NEW ts \in Seq(Tools), Apart(ts), Remain(q0.items, ts, 1),
           NEW end, end = (CHOOSE it : Closes(it, base, ts))[DOMAIN ts]
    PROVE  \E q : Feeds(m, w, r, end, q)
<1>. DEFINE n == Len(ts)
            D == DOMAIN ts
            V == Adapters(m)
            it == CHOOSE f : Closes(f, base, ts)
            step == [p \in V \X (1..n) |-> ClosesOne(p[1], ts[p[2]])]
<1>1. D = 1..n /\ n \in Nat
  OBVIOUS
<1>2. ASSUME NEW x \in V, NEW i \in 1..n PROVE ClosesOne(x, ts[i]) \in V
  <2>1. ts[i] \in Tools
    OBVIOUS
  <2>2. PICK t \in Tools : t = ts[i]
    BY <2>1, Zenon
  <2>3. ClosesOne(x, t) \in Adapters(m)
    BY ClosesOneTyped
  <2>. QED
    BY <2>2, <2>3
<1>3. base \in V
  BY FeedsAre
<1>. HIDE DEF V
<1>4. step \in [V \X (1..n) -> V]
  <2>1. ASSUME NEW p \in V \X (1..n) PROVE ClosesOne(p[1], ts[p[2]]) \in V
    BY <1>2
  <2>. QED
    BY <2>1
<1>5. \E f : Closes(f, base, ts)
  <2>1. PICK f \in [SUBSET (1..n) -> V] : Unrolls(f, 1..n, step, base)
    BY <1>1, <1>3, <1>4, FoldExists
  <2>2. ASSUME NEW s \in SUBSET (1..n), s # {}
        PROVE  step[<< f[s \ {Top(s)}], Top(s) >>] = ClosesOne(f[s \ {Top(s)}], ts[Top(s)])
    <3>1. Top(s) \in 1..n
      BY <1>1, <2>2, TopIn
    <3>2. f[s \ {Top(s)}] \in V
      BY <2>1
    <3>. QED
      BY <3>1, <3>2
  <2>3. f = [s \in SUBSET D |->
               IF s = {} THEN base ELSE step[<< f[s \ {Top(s)}], Top(s) >>]]
    BY <1>1, <2>1, Zenon DEF Unrolls
  <2>. HIDE DEF step
  <2>. QED
    BY <1>1, <2>2, <2>3, ZenonT(60) DEF Closes
<1>6. Closes(it, base, ts)
  BY <1>5, Zenon
<1>. HIDE DEF it
<1>7. it[{}] = base
  BY <1>6 DEF Closes
<1>8. ASSUME NEW s \in SUBSET (1..n), s # {}, it[s \ {Top(s)}] \in V
      PROVE  it[s] = step[<< it[s \ {Top(s)}], Top(s) >>]
  <2>1. Top(s) \in 1..n
    BY <1>1, <1>8, TopIn
  <2>2. it[s] = ClosesOne(it[s \ {Top(s)}], ts[Top(s)])
    BY <1>1, <1>6, <1>8 DEF Closes
  <2>. QED
    BY <1>8, <2>1, <2>2
<1>9. Ran(it, n, V, step)
  <2>1. Runs(it, n, V, step, base)
    <3>1. \A s \in SUBSET (1..n) : s # {} /\ it[s \ {Top(s)}] \in V
             => it[s] = step[<< it[s \ {Top(s)}], Top(s) >>]
      BY <1>8
    <3>. HIDE DEF step, n
    <3>. QED
      BY <1>7, <3>1, Zenon DEF Runs
  <2>. HIDE DEF step, n
  <2>. QED
    BY <1>1, <1>3, <1>4, <2>1, FoldRuns
<1>10. ASSUME NEW i \in 1..n PROVE it[1..i] = ClosesOne(it[1..(i - 1)], ts[i])
  <2>1. i - 1 \in 0..n
    OBVIOUS
  <2>2. it[1..(i - 1)] \in V /\ it[1..i] = step[<< it[1..(i - 1)], i >>]
    <3>. HIDE DEF n, step
    <3>. QED
      BY <1>9, <2>1 DEF Ran
  <2>. QED
    BY <2>2
<1>. HIDE DEF step
<1>. DEFINE ok == {i \in 0..n : \E q : Feeds(m, w, r, it[1..i], q) /\ Remain(q.items, ts, i + 1)}
<1>11. 0 \in ok
  <2>1. 1..0 = {} /\ 0 \in 0..n /\ 0 + 1 = 1
    OBVIOUS
  <2>. HIDE DEF n
  <2>2. Feeds(m, w, r, it[1..0], q0) /\ Remain(q0.items, ts, 0 + 1)
    BY <1>7, <2>1
  <2>. QED
    BY <2>1, <2>2
<1>12. ASSUME NEW i \in 0..(n - 1), i \in ok PROVE i + 1 \in ok
  <2>1. PICK q : Feeds(m, w, r, it[1..i], q) /\ Remain(q.items, ts, i + 1)
    BY <1>12
  <2>2. i + 1 \in 1..n /\ i + 1 \in 0..n /\ (i + 1) - 1 = i /\ i + 1 \in (i + 1)..n
    OBVIOUS
  <2>3. PICK t \in Tools : t = ts[i + 1]
    BY <2>2
  <2>4. Held(q.items, t)
    BY <2>1, <2>2, <2>3 DEF Remain
  <2>5. PICK k : k = t.index + 1
    BY Zenon
  <2>6. PICK q2 : /\ Feeds(m, w, r, ClosesOne(it[1..i], t), q2)
                  /\ q2.items = Put(q.items, k, Shut(t.kind, q.items[k].whole))
    <3>. HIDE DEF ok, n
    <3>. QED
      BY <2>1, <2>4, <2>5, ClosesOneFeeds
  <2>7. Remain(q2.items, ts, (i + 1) + 1)
    <3>1. i + 1 \in 1..Len(ts)
      BY <2>2
    <3>2. PICK j \in 1..Len(ts) : j = i + 1
      BY <3>1
    <3>3. Remain(q2.items, ts, j + 1)
      <4>1. Remain(q.items, ts, j) /\ t = ts[j]
        BY <2>1, <2>3, <3>2
      <4>. HIDE DEF ok, n
      <4>. QED
        BY <2>5, <2>6, <4>1, ShutRemains
    <3>. QED
      BY <3>2, <3>3
  <2>8. it[1..(i + 1)] = ClosesOne(it[1..i], t)
    <3>1. it[1..(i + 1)] = ClosesOne(it[1..((i + 1) - 1)], ts[i + 1])
      BY <1>10, <2>2
    <3>. QED
      BY <2>2, <2>3, <3>1
  <2>. QED
    BY <2>2, <2>6, <2>7, <2>8
<1>13. \A i \in 0..n : i \in ok
  <2>. HIDE DEF ok, n
  <2>. QED
    BY <1>1, <1>11, <1>12, UpTo
<1>14. end = it[1..n]
  BY <1>1 DEF it
<1>15. n \in ok
  <2>1. n \in 0..n
    OBVIOUS
  <2>. HIDE DEF ok, n
  <2>. QED
    BY <1>13, <2>1
<1>16. \E q : Feeds(m, w, r, it[1..n], q)
  BY <1>15
<1>. QED
  BY <1>14, <1>16

-----------------------------------------------------------------------------
(* The end of a stream.                                                    *)

\* The frames lead the reader to the end it is told of, and nothing was lost on the way.
IsOver(w, r, s, said, usage) ==
    \E q : /\ Leads(w, r, s, q) /\ q \in Readers /\ ~q.lost /\ ~q.skipped /\ ~q.late
           /\ q.said = said /\ q.usage = usage

\* The last frame of a stream loses nothing.
LEMMA FollowEnds ==
    ASSUME NEW r \in Readers, NEW e, e.type \in Stream!Terminals
    PROVE  Stream!Follow(r, e).lost = r.lost
<1>1. e.type \notin Stream!Inner /\ e.type \notin {"item.added", "delta", "item.done", "chunk"}
  BY DEF Stream!Terminals, Stream!Inner
<1>2. CASE e.type = "DONE" /\ r.said = "error"
  <2>1. Stream!Follow(r, e) = r
    BY <1>1, <1>2 DEF Stream!Follow
  <2>. QED
    BY <2>1
<1>3. CASE ~(e.type = "DONE" /\ r.said = "error")
  <2>1. Stream!Follow(r, e) = Stream!Ends(r, e)
    BY <1>1, <1>3 DEF Stream!Follow
  <2>2. Stream!Ends(r, e).lost = r.lost
    BY DEF Stream!Ends, Readers
  <2>. QED
    BY <2>1, <2>2
<1>. QED
  BY <1>2, <1>3

\* Emitting the last frame ends the stream for its reader.
LEMMA EndFeeds ==
    ASSUME NEW m \in Nat, NEW w, NEW r, NEW a, NEW q, Feeds(m, w, r, a, q),
           NEW e \in Frames(m), e.type \in Stream!Terminals
    PROVE  /\ IsOver(w, r, Stream!Emit(a, << e >>).out, e.type, e.usage)
           /\ Stream!Emit(a, << e >>) \in Adapters(m)
<1>. DEFINE n == Number(e, a.seq)
            f == Stream!Follow(q, n)
            q2 == Reads(w, q, n)
<1>1. a \in Adapters(m) /\ q \in Readers /\ Clear(q) /\ Expects(w, q, a.seq) /\ a.seq \in Nat
  BY FeedsAre, TypedAdapter
<1>2. n \in Frames(m) /\ n.type = e.type /\ n.usage = e.usage /\ n.seq = a.seq
  BY <1>1, NumberIs
<1>. HIDE DEF n
<1>3. /\ Leads(w, r, Append(a.out, n), q2)
  <2>1. a.out \in Seq(Frames(m))
    BY <1>1 DEF Adapters
  <2>2. Leads(w, r, a.out, q)
    BY DEF Feeds
  <2>. QED
    BY <1>2, <2>1, <2>2, LeadsOn
<1>4. /\ Stream!Emit(a, << e >>).out = Append(a.out, n)
      /\ Stream!Emit(a, << e >>) \in Adapters(m)
  BY <1>1, EmitOne DEF n
<1>5. /\ q2 \in Readers /\ q2.lost = f.lost /\ q2.said = f.said /\ q2.usage = f.usage
      /\ q2.skipped = (q.skipped \/ (w = "responses" /\ n.seq # q.next))
      /\ q2.late = (q.late \/ (q.said \in Stream!Terminals
                               /\ ~(q.said = "error" /\ n.type = "DONE")))
  BY <1>1, <1>2, ReadsKeep
<1>6. f.said = e.type /\ f.usage = e.usage
  <2>1. q.said # "error"
    BY <1>1 DEF Clear
  <2>. HIDE DEF f
  <2>2. /\ n.type \in Stream!Terminals /\ ~(n.type = "DONE" /\ q.said = "error")
             => f.said = n.type /\ f.usage = n.usage
    BY <1>1, <1>2, FollowKeeps DEF f
  <2>. QED
    BY <1>2, <2>1, <2>2
<1>7. f.lost = q.lost
  BY <1>1, <1>2, FollowEnds
<1>8. /\ ~q.lost /\ ~q.skipped /\ ~q.late /\ q.said \notin Stream!Terminals
      /\ w = "responses" => n.seq = q.next
  BY <1>1, <1>2 DEF Clear, Stream!Terminals, Expects
<1>. HIDE DEF q2, f
<1>9. ~q2.lost /\ ~q2.skipped /\ ~q2.late /\ q2.said = e.type /\ q2.usage = e.usage
  BY <1>5, <1>6, <1>7, <1>8
<1>. QED
  BY <1>3, <1>4, <1>5, <1>9 DEF IsOver

\* The last event of a Responses stream ends it with the usage it says.
LEMMA TerminalEnds ==
    ASSUME NEW m \in Nat, NEW w, NEW r, NEW a, NEW q, Feeds(m, w, r, a, q),
           NEW type \in {"completed", "incomplete", "failed"}, NEW usage \in Stream!Usages
    PROVE  /\ IsOver(w, r, Stream!Terminal(a, type, usage).out, type, usage)
           /\ Stream!Terminal(a, type, usage) \in Adapters(m)
<1>. DEFINE p == Stream!Plain(type)
            body == Stream!Output(a)
            e == [p EXCEPT !.body = body, !.usage = usage]
<1>1. a \in Adapters(m) /\ a.closed \in Seq(Items)
  BY FeedsAre, TypedAdapter
<1>2. type \in Types /\ type \in Stream!Terminals /\ type # "delta" /\ type # "chunk"
  BY DEF Types, Stream!Terminals
<1>3. p \in Frames(m) /\ p.type = type
  BY <1>2, PlainIsFrame
<1>4. body \in Bodies
  BY <1>1, BodiesAre
<1>5. Stream!Terminal(a, type, usage) = Stream!Emit(a, << e >>)
  BY Zenon DEF Stream!Terminal
<1>. HIDE DEF p, body
<1>6. e \in Frames(m) /\ e.type = type /\ e.usage = usage
  BY <1>2, <1>3, <1>4 DEF Frames, Events, Spoken
<1>. HIDE DEF e
<1>. QED
  BY <1>2, <1>5, <1>6, EndFeeds

\* A Responses stream that ends by itself ends for its reader with the usage it is charged.
LEMMA FinishesResponse ==
    ASSUME NEW m \in Nat, NEW r, NEW a, Faithful(m, "responses", r, a),
           NEW usage \in Stream!Usages, NEW b, b = Stream!FinishResponse(a, usage)
    PROVE  /\ b \in Adapters(m)
           /\ \E said \in {"completed", "incomplete"} : IsOver("responses", r, b.out, said, usage)
<1>. DEFINE w == "responses"
            c == Stream!CloseItem(Stream!StartResponse(a))
            ts == Stream!ByCall(c.tools)
            d == Stream!CloseTools(c)
            type == IF d.finish \in Stream!Incomplete THEN "incomplete" ELSE "completed"
<1>1. b = Stream!Terminal(d, type, usage)
  BY Zenon DEF Stream!FinishResponse
<1>2. Faithful(m, w, r, c)
  BY StartsResponse, ClosesItem
<1>. HIDE DEF c
<1>3. PICK q : Feeds(m, w, r, c, q) /\ Mirrors(w, q.items, c)
  BY <1>2 DEF Faithful
<1>4. c \in Adapters(m) /\ c.tools \in Seq(Tools) /\ q.items \in Seq(Shapes)
  BY <1>3, FeedsAre, TypedAdapter
<1>5. Distinct(c.tools) /\ \A i \in DOMAIN c.tools : Held(q.items, c.tools[i])
  BY <1>3 DEF Mirrors
<1>6. /\ ts \in Seq(Tools) /\ Len(ts) = Len(c.tools)
      /\ \A k \in 1..Len(ts) : \E i \in DOMAIN c.tools : ts[k] = c.tools[i]
      /\ Apart(ts)
  <2>. DEFINE tools == c.tools
  <2>1. tools \in Seq(Tools) /\ Distinct(tools) /\ ts = Stream!ByCall(tools)
    BY <1>4, <1>5
  <2>2. /\ ts \in Seq(Tools) /\ Len(ts) = Len(tools)
        /\ \A k \in 1..Len(ts) : \E i \in DOMAIN tools : ts[k] = tools[i]
        /\ Apart(ts)
    <3>. HIDE DEF ts, tools
    <3>. QED
      BY <2>1, ByCallIs DEF Apart
  <2>. QED
    BY <2>2
<1>. HIDE DEF ts
<1>7. Remain(q.items, ts, 1)
  <2>1. ASSUME NEW j \in 1..Len(ts) PROVE Held(q.items, ts[j])
    BY <1>5, <1>6
  <2>. QED
    BY <1>4, <2>1 DEF Remain
<1>8. PICK q2 : Feeds(m, w, r, d, q2)
  <2>. DEFINE end == (CHOOSE it : Closes(it, c, ts))[DOMAIN ts]
  <2>1. d = end
    BY ToolsUnfold DEF ts
  <2>2. end = (CHOOSE it : Closes(it, c, ts))[DOMAIN ts]
    OBVIOUS
  <2>. HIDE DEF end, d, w
  <2>3. \E q2 : Feeds(m, w, r, end, q2)
    BY <1>3, <1>6, <1>7, <2>2, ClosesFeeds
  <2>. QED
    BY <2>1, <2>3
<1>9. type \in {"completed", "incomplete"} /\ type \in {"completed", "incomplete", "failed"}
  OBVIOUS
<1>. HIDE DEF d, type
<1>. QED
  BY <1>1, <1>8, <1>9, TerminalEnds

\* A Responses stream that fails ends for its reader as failed, with the usage it is charged.
LEMMA FailsResponse ==
    ASSUME NEW m \in Nat, NEW r, NEW a, Faithful(m, "responses", r, a),
           NEW usage \in Stream!Usages, NEW b, b = Stream!FailResponse(a, usage)
    PROVE  b \in Adapters(m) /\ IsOver("responses", r, b.out, "failed", usage)
<1>. DEFINE c == Stream!StartResponse(a)
<1>1. b = Stream!Terminal(c, "failed", usage)
  BY DEF Stream!FailResponse
<1>2. Faithful(m, "responses", r, c)
  BY StartsResponse
<1>. HIDE DEF c
<1>3. PICK q : Feeds(m, "responses", r, c, q)
  BY <1>2 DEF Faithful
<1>. QED
  BY <1>1, <1>3, TerminalEnds

\* The first i blocks of calls are told to be done.
Stopped(t) == Stream!Event("item.done", t, << >>)
Stops(ts, i) == [k \in 1..i |-> Stopped(ts[k])]

\* The end of a block is a frame.
LEMMA StopIsFrame ==
    ASSUME NEW m \in Nat, NEW t \in Tools
    PROVE  Stopped(t) \in Frames(m)
<1>1. t.index \in Nat /\ t.kind \in Kinds
  BY DEF Tools
<1>2. "item.done" \in Types /\ << >> \in Seq(Nat)
  BY DEF Types
<1>3. PICK none \in Seq(Nat) : none = << >>
  BY <1>2, Zenon
<1>4. Stopped(t) = Stream!Event("item.done", t, none)
  BY <1>3 DEF Stopped
<1>. QED
  BY <1>1, <1>2, <1>4, EventIsFrame

\* The ends of some blocks and of one more are the ends of all of these.
LEMMA StopsOn ==
    ASSUME NEW m \in Nat, NEW ts \in Seq(Tools), NEW i \in 0..(Len(ts) - 1)
    PROVE  /\ Stops(ts, i) \in Seq(Frames(m)) /\ Stops(ts, i + 1) \in Seq(Frames(m))
           /\ Stops(ts, i + 1) = Stops(ts, i) \o << Stopped(ts[i + 1]) >>
<1>. DEFINE F == Frames(m)
            x == Stops(ts, i)
            y == Stops(ts, i + 1)
            e == Stopped(ts[i + 1])
<1>1. \A k \in 1..Len(ts) : Stopped(ts[k]) \in F
  BY StopIsFrame
<1>. HIDE DEF F
<1>2. x \in Seq(F) /\ Len(x) = i /\ \A k \in 1..i : x[k] = Stopped(ts[k])
  BY <1>1 DEF Stops
<1>3. y \in Seq(F) /\ Len(y) = i + 1 /\ \A k \in 1..(i + 1) : y[k] = Stopped(ts[k])
  BY <1>1 DEF Stops
<1>4. e \in F
  BY <1>1
<1>. HIDE DEF x, y, e
<1>5. x \o << e >> = Append(x, e)
  BY <1>2, <1>4, JoinIsOne
<1>6. y = Append(x, e)
  <2>. DEFINE z == Append(x, e)
  <2>1. z \in Seq(F) /\ Len(z) = i + 1
    BY <1>2, <1>4
  <2>2. ASSUME NEW k \in 1..Len(y) PROVE y[k] = z[k]
    <3>1. CASE k = i + 1
      BY <1>2, <1>3, <1>4, <3>1 DEF e
    <3>2. CASE k # i + 1
      <4>1. k \in 1..i
        BY <1>3, <3>2
      <4>2. z[k] = x[k]
        BY <1>2, <1>4, <4>1
      <4>. QED
        BY <1>2, <1>3, <4>1, <4>2
    <3>. QED
      BY <3>1, <3>2
  <2>3. y \in Seq(F) /\ z \in Seq(F) /\ Len(y) = Len(z) /\ \A k \in 1..Len(y) : y[k] = z[k]
    BY <1>3, <2>1, <2>2
  <2>. HIDE DEF z
  <2>4. y = z
    BY <2>3, SameSeq
  <2>. QED
    BY <2>4 DEF z
<1>. QED
  BY <1>2, <1>3, <1>5, <1>6 DEF x, y, e, F

\* Ending all blocks of calls leaves a reader that has lost nothing.
LEMMA StopsFeed ==
    ASSUME NEW m \in Nat, NEW w, NEW r, NEW a, NEW q0, Feeds(m, w, r, a, q0),
           NEW ts \in Seq(Tools), Apart(ts), Remain(q0.items, ts, 1)
    PROVE  \E q : Feeds(m, w, r, Stream!Emit(a, Stops(ts, Len(ts))), q)
<1>. DEFINE n == Len(ts)
            b(i) == Stream!Emit(a, Stops(ts, i))
            ok == {i \in 0..n : \E q : Feeds(m, w, r, b(i), q) /\ Remain(q.items, ts, i + 1)}
<1>1. n \in Nat /\ a \in Adapters(m) /\ a.seq \in Nat
  BY FeedsAre, TypedAdapter
<1>2. 0 \in ok
  <2>1. Stops(ts, 0) = << >>
    BY DEF Stops
  <2>2. PICK s \in Seq(Frames(m)) : s = << >>
    <3>1. << >> \in Seq(Frames(m))
      OBVIOUS
    <3>. QED
      BY <3>1, Zenon
  <2>3. PICK c : c = Stream!Emit(a, s)
    BY Zenon
  <2>4. c \in Adapters(m) /\ c.seq = a.seq + Len(s) /\ c.out = a.out \o Numbered(a.seq, s)
    BY <1>1, <2>2, <2>3, EmitIs, ZenonT(60)
  <2>5. c.seq = a.seq /\ c.out = a.out
    <3>1. Numbered(a.seq, s) = << >>
      BY <2>2 DEF Numbered
    <3>2. a.out \in Seq(Frames(m))
      BY <1>1 DEF Adapters
    <3>3. a.out \o << >> = a.out
      BY <3>2
    <3>4. Len(s) = 0 /\ a.seq + 0 = a.seq
      BY <1>1, <2>2
    <3>. QED
      BY <2>4, <3>1, <3>3, <3>4
  <2>6. Feeds(m, w, r, c, q0)
    BY <2>4, <2>5, FeedsLike
  <2>7. b(0) = c
    BY <2>1, <2>2, <2>3
  <2>8. 0 \in 0..n /\ 0 + 1 = 1
    BY <1>1
  <2>. HIDE DEF n, b
  <2>. QED
    BY <2>6, <2>7, <2>8
<1>3. ASSUME NEW i \in 0..(n - 1), i \in ok PROVE i + 1 \in ok
  <2>1. PICK q : Feeds(m, w, r, b(i), q) /\ Remain(q.items, ts, i + 1)
    BY <1>3
  <2>2. i + 1 \in 1..n /\ i + 1 \in 0..n /\ i + 1 \in (i + 1)..n
    BY <1>1
  <2>3. PICK t \in Tools : t = ts[i + 1]
    BY <2>2
  <2>4. Held(q.items, t)
    BY <2>1, <2>2, <2>3 DEF Remain
  <2>5. PICK k : k = t.index + 1
    BY Zenon
  <2>6. /\ Stops(ts, i) \in Seq(Frames(m)) /\ Stopped(t) \in Frames(m)
        /\ Stops(ts, i + 1) = Stops(ts, i) \o << Stopped(t) >>
    BY <2>3, StopsOn, StopIsFrame
  <2>7. b(i + 1) = Stream!Emit(b(i), << Stopped(t) >>)
    <3>. DEFINE x == Stops(ts, i)
                y == << Stopped(t) >>
    <3>1. x \in Seq(Frames(m)) /\ y \in Seq(Frames(m)) /\ Stops(ts, i + 1) = x \o y
      BY <2>6
    <3>. HIDE DEF x, y
    <3>2. Stream!Emit(a, x \o y) = Stream!Emit(Stream!Emit(a, x), y)
      BY <1>1, <3>1, EmitMore
    <3>. QED
      BY <3>1, <3>2 DEF x, y
  <2>. HIDE DEF b
  <2>8. PICK q2 : /\ Feeds(m, w, r, b(i + 1), q2)
                  /\ q2.items = Put(q.items, k, Shut(t.kind, q.items[k].whole))
    <3>1. t.index \in Nat /\ t.kind \in Kinds
      BY DEF Tools
    <3>2. PICK none \in Seq(Nat) : none = << >>
      <4>1. << >> \in Seq(Nat)
        OBVIOUS
      <4>. QED
        BY <4>1, Zenon
    <3>3. b(i + 1) = Stream!Emit(b(i), << Stream!Event("item.done", t, none) >>)
      BY <2>7, <3>2 DEF Stopped
    <3>4. Stands(q.items, t) /\ none \in {<< >>, q.items[k].whole}
      BY <2>4, <3>2 DEF Held
    <3>. HIDE DEF ok, n
    <3>. QED
      BY <2>1, <2>5, <3>1, <3>3, <3>4, EmitDone
  <2>9. Remain(q2.items, ts, (i + 1) + 1)
    <3>1. i + 1 \in 1..Len(ts)
      BY <2>2
    <3>2. PICK j \in 1..Len(ts) : j = i + 1
      BY <3>1
    <3>3. Remain(q2.items, ts, j + 1)
      <4>1. Remain(q.items, ts, j) /\ t = ts[j]
        BY <2>1, <2>3, <3>2
      <4>. HIDE DEF ok, n
      <4>. QED
        BY <2>5, <2>8, <4>1, ShutRemains
    <3>. QED
      BY <3>2, <3>3
  <2>. HIDE DEF n
  <2>. QED
    BY <2>2, <2>8, <2>9
<1>4. n \in ok
  <2>1. n \in 0..n
    BY <1>1
  <2>2. \A i \in 0..n : i \in ok
    <3>. HIDE DEF ok, n
    <3>. QED
      BY <1>1, <1>2, <1>3, UpTo
  <2>. HIDE DEF ok, n
  <2>. QED
    BY <2>1, <2>2
<1>. QED
  BY <1>4

\* A Messages stream that ends by itself ends for its reader with the usage it is charged.
LEMMA FinishesMessage ==
    ASSUME NEW m \in Nat, NEW r, NEW a, Faithful(m, "messages", r, a),
           NEW usage \in Stream!Usages, NEW estimate \in Nat,
           NEW b, b = Stream!FinishMessage(a, usage, estimate)
    PROVE  b \in Adapters(m) /\ IsOver("messages", r, b.out, "message_stop", usage)
<1>. DEFINE w == "messages"
            c == Stream!CloseBlock(Stream!StartMessage(a, estimate))
            ts == c.tools
            stops == Stops(ts, Len(ts))
            p == Stream!Plain("message_delta")
            body == << IF c.finish = "" THEN "stop" ELSE c.finish >>
            e == [p EXCEPT !.usage = usage, !.body = body]
            s == Stream!Plain("message_stop")
            f == [s EXCEPT !.usage = usage]
<1>1. Faithful(m, w, r, c)
  BY StartsMessage, ClosesBlock
<1>. HIDE DEF c
<1>2. PICK q : Feeds(m, w, r, c, q) /\ Mirrors(w, q.items, c)
  BY <1>1 DEF Faithful
<1>3. /\ c \in Adapters(m) /\ ts \in Seq(Tools) /\ q.items \in Seq(Shapes)
      /\ c.finish \in Stream!Finishes
  BY <1>2, FeedsAre, TypedAdapter
<1>4. Distinct(ts) /\ \A i \in DOMAIN ts : Held(q.items, ts[i])
  BY <1>2 DEF Mirrors
<1>5. Apart(ts) /\ Remain(q.items, ts, 1)
  <2>1. DOMAIN ts = 1..Len(ts)
    BY <1>3
  <2>. QED
    BY <1>3, <1>4, <2>1 DEF Apart, Distinct, Remain
<1>6. b = Stream!Emit(c, stops \o << e, f >>)
  <2>1. DOMAIN ts = 1..Len(ts)
    BY <1>3
  <2>2. [i \in DOMAIN ts |-> Stream!Event("item.done", ts[i], << >>)] = stops
    BY <2>1 DEF Stops, Stopped
  <2>3. b = Stream!Emit(c, [i \in DOMAIN ts |-> Stream!Event("item.done", ts[i], << >>)]
                           \o << e, f >>)
    BY Zenon DEF Stream!FinishMessage, c
  <2>. QED
    BY <2>2, <2>3, Zenon
<1>7. stops \in Seq(Frames(m))
  <2>. DEFINE F == Frames(m)
  <2>1. \A k \in 1..Len(ts) : Stopped(ts[k]) \in F
    BY <1>3, StopIsFrame
  <2>2. Len(ts) \in Nat
    BY <1>3
  <2>. HIDE DEF F
  <2>3. stops \in Seq(F)
    BY <2>1, <2>2 DEF Stops
  <2>. QED
    BY <2>3 DEF F
<1>8. e \in Frames(m) /\ e.type = "message_delta" /\ f \in Frames(m) /\ f.type = "message_stop"
      /\ f.usage = usage
  <2>1. "message_delta" \in Types /\ "message_stop" \in Types
    BY DEF Types, Stream!Terminals
  <2>2. p \in Frames(m) /\ p.type = "message_delta" /\ s \in Frames(m) /\ s.type = "message_stop"
    BY <2>1, PlainIsFrame
  <2>3. body \in Bodies
    <3>1. body \in Seq(Stream!Finishes)
      <4>. DEFINE F == Stream!Finishes
                  x == IF c.finish = "" THEN "stop" ELSE c.finish
      <4>1. "stop" \in F
        BY DEF Stream!Finishes
      <4>2. x \in F
        BY <1>3, <4>1
      <4>. HIDE DEF F, x
      <4>3. << x >> \in Seq(F)
        BY <4>2
      <4>. QED
        BY <4>3 DEF F, x
    <3>. QED
      BY <3>1, BodiesAre
  <2>. HIDE DEF p, s, body
  <2>. QED
    BY <2>2, <2>3 DEF Frames, Events, Spoken
<1>. HIDE DEF stops, e, f
<1>. DEFINE d == Stream!Emit(c, stops)
<1>9. PICK q1 : Feeds(m, w, r, d, q1)
  <2>. HIDE DEF w
  <2>. QED
    BY <1>2, <1>3, <1>5, StopsFeed DEF stops
<1>10. b = Stream!Emit(Stream!Emit(d, << e >>), << f >>)
  <2>. DEFINE y == << e, f >>
  <2>1. y \in Seq(Frames(m))
    BY <1>8
  <2>. HIDE DEF y
  <2>2. b = Stream!Emit(Stream!Emit(c, stops), y)
    BY <1>3, <1>6, <1>7, <2>1, EmitMore DEF y
  <2>3. d \in Adapters(m)
    BY <1>9, FeedsAre
  <2>. HIDE DEF d
  <2>4. Stream!Emit(d, << e, f >>) = Stream!Emit(Stream!Emit(d, << e >>), << f >>)
    BY <1>8, <2>3, EmitTwo
  <2>. QED
    BY <2>2, <2>4 DEF d, y
<1>. HIDE DEF d
<1>11. PICK q2 : Feeds(m, w, r, Stream!Emit(d, << e >>), q2)
  BY <1>8, <1>9, EmitInner
<1>12. f.type \in Stream!Terminals
  BY <1>8 DEF Stream!Terminals
<1>. QED
  BY <1>8, <1>10, <1>11, <1>12, EndFeeds

-----------------------------------------------------------------------------
(* What holds of a stream at every step.                                   *)

\* More pieces counted, more frames are possible.
LEMMA Widens ==
    ASSUME NEW m \in Nat, NEW m2 \in Nat, m <= m2
    PROVE  /\ Frames(m) \subseteq Frames(m2)
           /\ \A a \in Adapters(m) : a.out = << >> => a \in Adapters(m2)
<1>1. Frames(m) \subseteq Frames(m2)
  <2>1. m > 0 => m2 > 0
    OBVIOUS
  <2>. QED
    BY <2>1 DEF Frames
<1>2. ASSUME NEW a \in Adapters(m), a.out = << >> PROVE a \in Adapters(m2)
  <2>1. << >> \in Seq(Frames(m2))
    OBVIOUS
  <2>2. a.out \in Seq(Frames(m2))
    BY <1>2, <2>1
  <2>. QED
    BY <2>2 DEF Adapters
<1>. QED
  BY <1>1, <1>2

\* Of a reader that has not been told of an end too much: it is where the frames lead, or it
\* was told of nothing yet, or of an error.
LEMMA Midway ==
    ASSUME NEW m \in Nat, NEW w, NEW r, NEW s \in Seq(Frames(m)), NEW q, Leads(w, r, s, q), ~q.late,
           r.said \in Stream!Terminals \cup {"nothing"}
    PROVE  r = q \/ r.said = "nothing" \/ (r.said = "error" /\ q.said = "error")
<1>1. CASE s = << >>
  <2>1. r \in Readers
    BY LeadsKeep
  <2>. QED
    BY <1>1, <2>1, LeadsNowhere
<1>2. CASE s # << >>
  <2>1. /\ r.said = "error" => q.late \/ q.said = "error"
        /\ s # << >> /\ r.said \in Stream!Terminals => r.said = "error" \/ q.late
    BY LeadsKeep
  <2>. QED
    BY <1>2, <2>1
<1>. QED
  BY <1>1, <1>2

\* A native backend and the reader its events have led so far.
Theirs(t, w, q) ==
    /\ q \in Readers /\ ~q.lost /\ ~q.skipped /\ ~q.late
    /\ t \in {"nothing", "created", "item.added", "delta", "item.done", "last", "message_stop"}
    /\ q.said = IF t = "last" /\ w = "responses" THEN "completed"
                ELSE IF t = "message_stop" THEN "message_stop" ELSE "nothing"
    /\ t \in {"nothing", "created"} => q.items = << >>
    /\ t \in {"item.added", "delta"} => \E x \in Seq(Nat) : q.items = << Fresh("text", x) >>

\* What the caller was told of the end is what is written of it.
Told(r) ==
    /\ r.said \in Stream!Complete /\ ~surface.native => r.usage = Stream!UsageNow
    /\ r.said = "failed" => r.usage = Stream!UsageNow
    /\ r.said \in Stream!Complete \cup {"DONE"} => outcome # "error" \/ surface.native
    /\ r.said \in {"failed", "error"} => outcome = "error"

\* What is known of the parts that the adapter does not keep.
Basics ==
    /\ surface \in Surfaces
    /\ relayed \in Nat
    /\ given.chunks \in Nat /\ {"chunks", "usage"} \subseteq DOMAIN given
    /\ reported \in Stream!Usages /\ given.usage = reported
    /\ reported.given \/ reported = Stream!None
    /\ final \in BOOLEAN /\ (~surface.native => final)

\* The parts that are made of frames are, and nothing is read before it is counted.
Shapely ==
    /\ adapter \in Adapters(relayed) /\ adapter.out = << >>
    /\ frames \in Seq(Frames(relayed))
    /\ reader \in Readers /\ reader.said \in Stream!Terminals \cup {"nothing"}
    /\ Heard(reader.items) => relayed > 0

\* The reader has been told nothing it could not place, and nothing that is not charged.
Kept ==
    /\ ~reader.lost /\ ~reader.skipped
    /\ reader.late => surface.native /\ outcome = "error"
    /\ Told(reader)

\* The frames on the way lead the reader of a stream that is read to one that has what the
\* adapter has put out.
Translating ==
    \E q : /\ Leads(surface.api, reader, frames, q) /\ Clear(q)
           /\ Expects(surface.api, q, adapter.seq)
           /\ Mirrors(surface.api, q.items, adapter)
\* A stream that is passed on chunk by chunk.
Chatting == \E q : Leads(surface.api, reader, frames, q) /\ Clear(q)
\* A stream that is passed on as it comes.
Passing ==
    /\ adapter.seq = 0
    /\ \E q : /\ Leads(surface.api, reader, frames, q) /\ Theirs(theirs, surface.api, q)
              /\ Expects(surface.api, q, adapter.next)
Reaching ==
    IF surface.native THEN Passing
    ELSE IF surface.api = "chat" THEN Chatting ELSE Translating

\* The frames on the way lead the reader of a stream that is closed to its end.
Said == IF stage = "closing" THEN Stream!Complete \cup {"DONE"} ELSE {"failed", "error"}
Ending ==
    \E q : /\ Leads(surface.api, reader, frames, q) /\ ~q.lost /\ ~q.skipped
           /\ q.late => surface.native
           /\ q.said \in Said
           /\ q.said \notin {"DONE", "error"} => q.usage = Stream!UsageNow

Phases ==
    /\ stage \in {"reading", "closing", "failing", "over", "done"}
    /\ outcome \in {"success", "error", "aborted"}
    /\ row = IF stage = "done" THEN Stream!UsageNow ELSE Stream!None
    /\ stage = "reading" => outcome = "success" /\ Reaching
    /\ stage = "closing" => outcome = "success" /\ IF surface.native THEN frames = << >> ELSE Ending
    /\ stage = "failing" => outcome = "error" /\ Ending /\ (surface.native => Len(frames) <= 1)
    /\ stage \in {"over", "done"} =>
         /\ frames = << >>
         /\ outcome = "success" /\ ~surface.native => reader.said \in Stream!Complete \cup {"DONE"}

StreamInv == Basics /\ Shapely /\ Kept /\ Phases

\* What a stream is settled with.
LEMMA UsageIs ==
    ASSUME Basics
    PROVE  /\ Stream!UsageNow \in Stream!Usages /\ Stream!UsageNow.given
           /\ Stream!UsageNow # Stream!None
           /\ relayed > 0 => Stream!UsageNow.completion > 0
           /\ given.usage.completion > 0 /\ final
                => Stream!UsageNow.completion = given.usage.completion
           /\ ~final => Stream!UsageNow.completion = relayed
<1>. DEFINE u == Stream!UsageNow
            rep == Stream!Reported
<1>1. Estimate \in Nat
  BY StreamsAssumption DEF Stream!StreamsKnown
<1>2. /\ rep.given \in BOOLEAN /\ rep.prompt \in Nat /\ rep.completion \in Nat
      /\ final => rep = reported
      /\ ~final => rep.completion = 0
  BY DEF Stream!Reported, Basics, Stream!Usages
<1>3. u = IF rep.given /\ rep.prompt + rep.completion > 0
          THEN Stream!Usage(rep.prompt,
                            IF rep.completion > 0 \/ relayed = 0 THEN rep.completion ELSE relayed)
          ELSE Stream!Usage(Estimate, relayed)
  BY DEF Stream!UsageNow, Stream!ResolveUsage
<1>4. relayed \in Nat
  BY DEF Basics
<1>. HIDE DEF u, rep
<1>5. /\ u = [prompt |-> u.prompt, completion |-> u.completion, given |-> TRUE]
      /\ u.prompt \in Nat /\ u.completion \in Nat
      /\ u.completion = IF rep.given /\ rep.prompt + rep.completion > 0
                        THEN IF rep.completion > 0 \/ relayed = 0 THEN rep.completion ELSE relayed
                        ELSE relayed
  <2>1. CASE rep.given /\ rep.prompt + rep.completion > 0
    BY <1>2, <1>3, <1>4, <2>1 DEF Stream!Usage
  <2>2. CASE ~(rep.given /\ rep.prompt + rep.completion > 0)
    BY <1>1, <1>2, <1>3, <1>4, <2>2 DEF Stream!Usage
  <2>. QED
    BY <2>1, <2>2
<1>6. u \in Stream!Usages /\ u.given /\ u # Stream!None
  <2>1. PICK p \in Nat, c \in Nat : u = [prompt |-> p, completion |-> c, given |-> TRUE]
    BY <1>5
  <2>2. [prompt |-> p, completion |-> c, given |-> TRUE] \in Stream!Usages
    BY DEF Stream!Usages
  <2>3. u.given
    BY <2>1
  <2>. QED
    BY <2>1, <2>2, <2>3 DEF Stream!None
<1>7. relayed > 0 => u.completion > 0
  BY <1>2, <1>4, <1>5
<1>8. given.usage.completion > 0 /\ final => u.completion = given.usage.completion
  <2>1. ASSUME given.usage.completion > 0, final PROVE u.completion = given.usage.completion
    <3>1. rep = given.usage
      BY <1>2, <2>1 DEF Basics
    <3>2. rep.given
      <4>1. rep # Stream!None
        BY <2>1, <3>1 DEF Stream!None
      <4>. QED
        BY <3>1, <4>1 DEF Basics
    <3>3. rep.completion > 0 /\ rep.prompt + rep.completion > 0
      BY <1>2, <2>1, <3>1
    <3>. QED
      BY <1>5, <3>1, <3>2, <3>3
  <2>. QED
    BY <2>1
<1>9. ~final => u.completion = relayed
  BY <1>2, <1>4, <1>5
<1>. QED
  BY <1>6, <1>7, <1>8, <1>9 DEF u

-----------------------------------------------------------------------------
(* The beginning.                                                          *)

\* A reader that has read nothing, and an adapter that has put out nothing.
LEMMA NewAre ==
    ASSUME NEW m \in Nat
    PROVE  /\ Stream!NewReader \in Readers /\ Clear(Stream!NewReader)
           /\ Stream!NewReader.items = << >> /\ Stream!NewReader.next = 0
           /\ Stream!NewReader.said = "nothing" /\ ~Stream!NewReader.late
           /\ Stream!New \in Adapters(m)
           /\ Stream!New.out = << >> /\ Stream!New.seq = 0 /\ Stream!New.next = 0
           /\ Stream!New.tools = << >> /\ Stream!New.open = Stream!Closed
<1>1. << >> \in Bodies
  <2>1. << >> \in Seq(Nat)
    OBVIOUS
  <2>. QED
    BY <2>1, BodiesAre
<1>2. Stream!None \in Stream!Usages
  BY DEF Stream!None, Stream!Usages
<1>3. Stream!NewReader \in Readers
  <2>1. << >> \in Seq(Shapes)
    OBVIOUS
  <2>. QED
    BY <1>1, <1>2, <2>1 DEF Stream!NewReader, Readers
<1>4. /\ ~Stream!NewReader.lost /\ ~Stream!NewReader.skipped /\ ~Stream!NewReader.late
      /\ Stream!NewReader.items = << >> /\ Stream!NewReader.next = 0
      /\ Stream!NewReader.said = "nothing"
  BY DEF Stream!NewReader
<1>5. Stream!New \in Adapters(m)
  <2>1. << >> \in Seq(Items) /\ << >> \in Seq(Tools) /\ << >> \in Seq(Frames(m))
    OBVIOUS
  <2>2. Stream!Closed \in Items
    <3>1. << >> \in Seq(Nat)
      OBVIOUS
    <3>. QED
      BY <3>1 DEF Stream!Closed, Items, Kinds
  <2>3. "" \in Stream!Finishes
    BY DEF Stream!Finishes
  <2>. QED
    BY <2>1, <2>2, <2>3 DEF Stream!New, Adapters
<1>6. /\ Stream!New.out = << >> /\ Stream!New.seq = 0 /\ Stream!New.next = 0
      /\ Stream!New.tools = << >> /\ Stream!New.open = Stream!Closed
  BY DEF Stream!New
<1>. QED
  BY <1>3, <1>4, <1>5, <1>6 DEF Clear

\* StreamInv holds at the start.
LEMMA StreamBegins == InitBoth => StreamInv
<1>. SUFFICES ASSUME InitBoth PROVE StreamInv
  OBVIOUS
<1>1. /\ surface \in Surfaces /\ adapter = Stream!New /\ frames = << >> /\ stage = "reading"
      /\ outcome = "success" /\ reported = Stream!None
      /\ final = (surface.api # "messages" \/ ~surface.native)
      /\ relayed = 0 /\ row = Stream!None /\ theirs = "nothing"
      /\ given.chunks = 0 /\ given.usage = Stream!None
      /\ {"chunks", "usage"} \subseteq DOMAIN given
      /\ reader = Stream!NewReader
  BY DEF InitBoth, Stream!Init
<1>2. Basics
  <2>1. Stream!None \in Stream!Usages
    BY DEF Stream!None, Stream!Usages
  <2>2. final \in BOOLEAN /\ (~surface.native => final)
    BY <1>1
  <2>3. relayed \in Nat /\ given.chunks \in Nat
    BY <1>1
  <2>4. reported \in Stream!Usages /\ given.usage = reported
    BY <1>1, <2>1
  <2>. QED
    BY <1>1, <2>2, <2>3, <2>4 DEF Basics
<1>3. Shapely
  <2>1. ~Heard(reader.items)
    BY <1>1, NewAre DEF Heard
  <2>2. adapter \in Adapters(relayed) /\ adapter.out = << >>
    BY <1>1, NewAre
  <2>3. frames \in Seq(Frames(relayed))
    BY <1>1
  <2>4. reader \in Readers /\ reader.said \in Stream!Terminals \cup {"nothing"}
    BY <1>1, NewAre
  <2>. QED
    BY <2>1, <2>2, <2>3, <2>4 DEF Shapely
<1>4. Clear(reader) /\ reader.items = << >> /\ reader.next = 0 /\ reader.said = "nothing"
  BY <1>1, NewAre
<1>5. Kept
  BY <1>4 DEF Kept, Told, Clear, Stream!Complete
<1>6. Leads(surface.api, reader, frames, reader)
  BY <1>1, <1>4, LeadsNowhere DEF Clear
<1>7. Mirrors(surface.api, reader.items, adapter)
  <2>1. Len(reader.items) = 0 /\ adapter.next = 0 /\ ~Opened(adapter) /\ adapter.tools = << >>
    BY <1>1, <1>4, NewAre DEF Opened
  <2>. QED
    BY <2>1 DEF Mirrors, Distinct
<1>8. Reaching
  <2>1. adapter.seq = 0 /\ adapter.next = 0
    BY <1>1, NewAre
  <2>2. Translating
    BY <1>4, <1>6, <1>7, <2>1 DEF Translating, Expects
  <2>3. Chatting
    BY <1>4, <1>6 DEF Chatting
  <2>4. Passing
    <3>1. Theirs(theirs, surface.api, reader)
      BY <1>1, <1>4 DEF Theirs, Clear
    <3>. QED
      BY <1>4, <1>6, <2>1, <3>1 DEF Passing, Expects
  <2>. QED
    BY <2>2, <2>3, <2>4 DEF Reaching
<1>9. Phases
  BY <1>1, <1>8 DEF Phases
<1>. QED
  BY <1>2, <1>3, <1>5, <1>9 DEF StreamInv

-----------------------------------------------------------------------------
(* The steps that hand nothing over.                                       *)

\* What is charged is settled by what was reported and counted.
LEMMA UsageStays ==
    ASSUME UNCHANGED << reported, final, relayed >>
    PROVE  Stream!UsageNow' = Stream!UsageNow
<1>1. Stream!Reported' = Stream!Reported
  BY DEF Stream!Reported
<1>. QED
  BY <1>1 DEF Stream!UsageNow, Stream!ResolveUsage

\* Basics is about five variables.
LEMMA BasicsStay ==
    ASSUME Basics, UNCHANGED << surface, reported, final, relayed, given >>
    PROVE  Basics'
BY DEF Basics

\* What a step that leaves the reader alone keeps of it, as long as an error stays one.
LEMMA KeptStays ==
    ASSUME Kept, UNCHANGED << surface, reported, final, relayed, reader >>,
           outcome' \in {outcome, "aborted"}, outcome = "error" => outcome' = "error"
    PROVE  Kept'
<1>1. Stream!UsageNow' = Stream!UsageNow
  BY UsageStays
<1>2. reader' = reader /\ surface' = surface /\ (outcome' = "error") = (outcome = "error")
  OBVIOUS
<1>3. Told(reader)'
  BY <1>1, <1>2 DEF Kept, Told
<1>. QED
  BY <1>2, <1>3 DEF Kept

\* Shapely is about four variables, and no frames are shapely.
LEMMA ShapelyStays ==
    ASSUME Shapely, UNCHANGED << adapter, relayed, reader >>, frames' \in {frames, << >>}
    PROVE  Shapely'
<1>1. << >> \in Seq(Frames(relayed))
  OBVIOUS
<1>2. frames' \in Seq(Frames(relayed))
  BY <1>1 DEF Shapely
<1>. QED
  BY <1>2 DEF Shapely

\* A caller that leaves keeps StreamInv.
LEMMA LeavingKeeps == StreamInv /\ Stream!CallerLeaves => StreamInv'
<1>. SUFFICES ASSUME StreamInv, Stream!CallerLeaves PROVE StreamInv'
  OBVIOUS
<1>1. /\ stage \in {"reading", "closing", "failing"} /\ stage' = "over" /\ frames' = << >>
      /\ outcome' = IF outcome = "success" THEN "aborted" ELSE outcome
      /\ UNCHANGED << surface, adapter, reported, final, relayed, row, given, reader >>
  BY DEF Stream!CallerLeaves
<1>2. Basics'
  BY <1>1, BasicsStay DEF StreamInv
<1>3. Shapely'
  BY <1>1, ShapelyStays DEF StreamInv
<1>4. outcome' \in {outcome, "aborted"} /\ (outcome = "error" => outcome' = "error")
  BY <1>1
<1>5. Kept'
  BY <1>1, <1>4, KeptStays DEF StreamInv
<1>6. Phases'
  <2>1. outcome' \in {"error", "aborted"}
    BY <1>1 DEF StreamInv, Phases
  <2>2. row = Stream!None
    BY <1>1 DEF StreamInv, Phases
  <2>3. stage' = "over" /\ frames' = << >> /\ row' = Stream!None /\ outcome' # "success"
    BY <1>1, <2>1, <2>2
  <2>. QED
    BY <2>1, <2>3 DEF Phases
<1>. QED
  BY <1>2, <1>3, <1>5, <1>6 DEF StreamInv

\* Handing over the last frame keeps StreamInv.
LEMMA DrainedKeeps == StreamInv /\ Stream!Drained => StreamInv'
<1>. SUFFICES ASSUME StreamInv, Stream!Drained PROVE StreamInv'
  OBVIOUS
<1>1. /\ stage \in {"closing", "failing"} /\ frames = << >> /\ stage' = "over"
      /\ UNCHANGED << surface, adapter, frames, outcome, reported, final, relayed, row, given,
                      reader >>
  BY DEF Stream!Drained
<1>2. Basics'
  BY <1>1, BasicsStay DEF StreamInv
<1>3. Shapely'
  BY <1>1, ShapelyStays DEF StreamInv
<1>4. outcome' \in {outcome, "aborted"} /\ (outcome = "error" => outcome' = "error")
  BY <1>1
<1>5. Kept'
  BY <1>1, <1>4, KeptStays DEF StreamInv
<1>6. Phases'
  <2>1. /\ row' = Stream!None /\ stage' = "over" /\ frames' = << >>
        /\ outcome' \in {"success", "error", "aborted"}
    BY <1>1 DEF StreamInv, Phases
  <2>2. ASSUME outcome' = "success", ~surface'.native
        PROVE  reader'.said \in Stream!Complete \cup {"DONE"}
    <3>1. stage = "closing" /\ ~surface.native
      BY <1>1, <2>2 DEF StreamInv, Phases
    <3>2. PICK q : Leads(surface.api, reader, frames, q) /\ q.said \in Said
      BY <3>1 DEF StreamInv, Phases, Ending
    <3>3. reader \in Readers
      BY DEF StreamInv, Shapely
    <3>4. q = reader
      BY <1>1, <3>2, <3>3, LeadsNowhere
    <3>. QED
      BY <1>1, <3>1, <3>2, <3>4 DEF Said
  <2>. QED
    BY <2>1, <2>2 DEF Phases
<1>. QED
  BY <1>2, <1>3, <1>5, <1>6 DEF StreamInv

\* Writing the usage row keeps StreamInv.
LEMMA FinalizingKeeps == StreamInv /\ Stream!Finalize => StreamInv'
<1>. SUFFICES ASSUME StreamInv, Stream!Finalize PROVE StreamInv'
  OBVIOUS
<1>1. /\ stage = "over" /\ stage' = "done" /\ row' = Stream!UsageNow
      /\ UNCHANGED << surface, adapter, frames, outcome, reported, final, relayed, given,
                      reader >>
  BY DEF Stream!Finalize
<1>2. Basics'
  BY <1>1, BasicsStay DEF StreamInv
<1>3. Shapely'
  BY <1>1, ShapelyStays DEF StreamInv
<1>4. outcome' \in {outcome, "aborted"} /\ (outcome = "error" => outcome' = "error")
  BY <1>1
<1>5. Kept'
  BY <1>1, <1>4, KeptStays DEF StreamInv
<1>6. Phases'
  <2>1. Stream!UsageNow' = Stream!UsageNow
    BY <1>1, UsageStays
  <2>. QED
    BY <1>1, <2>1 DEF StreamInv, Phases
<1>. QED
  BY <1>2, <1>3, <1>5, <1>6 DEF StreamInv

\* Standing still keeps StreamInv.
LEMMA StillKeeps == StreamInv /\ UNCHANGED relay => StreamInv'
<1>. SUFFICES ASSUME StreamInv, UNCHANGED relay PROVE StreamInv'
  OBVIOUS
<1>1. UNCHANGED << surface, adapter, frames, stage, outcome, reported, final, relayed, row,
                   theirs, given, reader >>
  BY DEF relay
<1>2. Basics'
  BY <1>1, BasicsStay DEF StreamInv
<1>3. Shapely'
  BY <1>1, ShapelyStays DEF StreamInv
<1>4. outcome' \in {outcome, "aborted"} /\ (outcome = "error" => outcome' = "error")
  BY <1>1
<1>5. Kept'
  BY <1>1, <1>4, KeptStays DEF StreamInv
<1>6. Phases'
  <2>1. Stream!UsageNow' = Stream!UsageNow
    BY <1>1, UsageStays
  <2>2. Reaching' = Reaching
    BY <1>1 DEF Reaching, Passing, Chatting, Translating
  <2>3. Ending' = Ending
    BY <1>1, <2>1 DEF Ending, Said
  <2>. QED
    BY <1>1, <2>1, <2>2, <2>3 DEF StreamInv, Phases
<1>. QED
  BY <1>2, <1>3, <1>5, <1>6 DEF StreamInv

-----------------------------------------------------------------------------
(* The next frame is handed over.                                          *)

\* The rest of the frames leads the reader that has taken the first one where they all led.
LEMMA HandedOn ==
    ASSUME relayed \in Nat, Shapely, frames # << >>, NEW r, r = Reads(surface.api, reader, Head(frames))
    PROVE  /\ Head(frames) \in Frames(relayed) /\ Tail(frames) \in Seq(Frames(relayed))
           /\ r \in Readers /\ r.said \in Stream!Terminals \cup {"nothing"}
           /\ Heard(r.items) => relayed > 0
           /\ \A q : Leads(surface.api, reader, frames, q)
                       => /\ Leads(surface.api, r, Tail(frames), q)
                          /\ r.lost => q.lost
                          /\ r.skipped => q.skipped
                          /\ r.late => q.late
<1>1. Head(frames) \in Frames(relayed) /\ Tail(frames) \in Seq(Frames(relayed))
  BY DEF Shapely
<1>2. reader \in Readers /\ reader.said \in Stream!Terminals \cup {"nothing"}
      /\ (Heard(reader.items) => relayed > 0)
  BY DEF Shapely
<1>3. PICK e : e = Head(frames)
  OBVIOUS
<1>4. PICK f : f = Stream!Follow(reader, e)
  OBVIOUS
<1>5. e \in Frames(relayed) /\ r = Reads(surface.api, reader, e)
  BY <1>1, <1>3
<1>6. r \in Readers /\ r.said = f.said
  BY <1>2, <1>4, <1>5, ReadsKeep
<1>7. f.said = reader.said \/ (e.type \in Stream!Terminals /\ f.said = e.type)
  BY <1>2, <1>4, <1>5, FollowKeeps
<1>8. r.said \in Stream!Terminals \cup {"nothing"}
  BY <1>2, <1>6, <1>7
<1>9. Heard(r.items) => relayed > 0
  <2>1. Heard(Reads(surface.api, reader, e).items) => Heard(reader.items) \/ relayed > 0
    BY <1>2, <1>5, StepKeeps
  <2>. QED
    BY <1>2, <1>5, <2>1
<1>10. ASSUME NEW q, Leads(surface.api, reader, frames, q)
       PROVE  /\ Leads(surface.api, r, Tail(frames), q)
              /\ r.lost => q.lost
              /\ r.skipped => q.skipped
              /\ r.late => q.late
  <2>1. frames \in Seq(Frames(relayed))
    BY DEF Shapely
  <2>2. Leads(surface.api, r, Tail(frames), q)
    BY <1>10, <2>1, LeadsFrom
  <2>3. (r.lost => q.lost) /\ (r.skipped => q.skipped) /\ (r.late => q.late)
    BY <1>1, <2>2, LeadsKeep
  <2>. QED
    BY <2>2, <2>3
<1>. QED
  BY <1>1, <1>6, <1>8, <1>9, <1>10

\* The next frame leaves its reader with all it had, in order, and told no more than is charged.
LEMMA ToldOn ==
    ASSUME StreamInv, frames # << >>, stage \in {"reading", "closing", "failing"},
           NEW r, r = Reads(surface.api, reader, Head(frames))
    PROVE  /\ ~r.lost /\ ~r.skipped
           /\ r.late => surface.native /\ outcome = "error"
           /\ Told(r)
<1>1. relayed \in Nat /\ Shapely
  BY DEF StreamInv, Basics
<1>2. /\ Tail(frames) \in Seq(Frames(relayed))
      /\ r \in Readers /\ r.said \in Stream!Terminals \cup {"nothing"}
      /\ \A q : Leads(surface.api, reader, frames, q)
                 => /\ Leads(surface.api, r, Tail(frames), q)
                    /\ r.lost => q.lost
                    /\ r.skipped => q.skipped
                    /\ r.late => q.late
  BY <1>1, HandedOn
<1>. DEFINE Goal == /\ ~r.lost /\ ~r.skipped
                    /\ r.late => surface.native /\ outcome = "error"
                    /\ Told(r)
<1>3. ASSUME NEW q, Leads(surface.api, reader, frames, q), ~q.late
      PROVE  r = q \/ r.said = "nothing" \/ (r.said = "error" /\ q.said = "error")
  <2>1. Leads(surface.api, r, Tail(frames), q)
    BY <1>2, <1>3
  <2>. QED
    BY <1>1, <1>2, <1>3, <2>1, Midway
<1>4. r.said = "nothing" => Told(r)
  BY DEF Told, Stream!Complete
<1>5. CASE stage = "reading"
  <2>1. outcome = "success" /\ Reaching
    BY <1>5 DEF StreamInv, Phases
  <2>2. CASE surface.native
    <3>1. PICK q : Leads(surface.api, reader, frames, q) /\ Theirs(theirs, surface.api, q)
      BY <2>1, <2>2 DEF Reaching, Passing
    <3>2. ~q.lost /\ ~q.skipped /\ ~q.late /\ q.said \in {"completed", "message_stop", "nothing"}
      BY <3>1 DEF Theirs
    <3>3. r.said \in {"completed", "message_stop", "nothing"}
      BY <1>3, <3>1, <3>2
    <3>4. Told(r)
      BY <2>1, <2>2, <3>3 DEF Told
    <3>. QED
      BY <1>2, <3>1, <3>2, <3>4
  <2>3. CASE ~surface.native
    <3>1. PICK q : Leads(surface.api, reader, frames, q) /\ Clear(q)
      BY <2>1, <2>3 DEF Reaching, Chatting, Translating
    <3>2. ~q.lost /\ ~q.skipped /\ ~q.late /\ q.said = "nothing"
      BY <3>1 DEF Clear
    <3>3. r.said = "nothing"
      BY <1>3, <3>1, <3>2
    <3>. QED
      BY <1>2, <1>4, <3>1, <3>2, <3>3
  <2>. QED
    BY <2>2, <2>3
<1>6. CASE stage = "closing"
  <2>1. outcome = "success" /\ ~surface.native /\ Ending
    BY <1>6 DEF StreamInv, Phases
  <2>2. PICK q : /\ Leads(surface.api, reader, frames, q) /\ ~q.lost /\ ~q.skipped
                 /\ q.late => surface.native
                 /\ q.said \in Said
                 /\ q.said \notin {"DONE", "error"} => q.usage = Stream!UsageNow
    BY <2>1 DEF Ending
  <2>3. q.said \in {"completed", "incomplete", "message_stop", "DONE"} /\ ~q.late
    BY <1>6, <2>1, <2>2 DEF Said, Stream!Complete
  <2>4. r = q \/ r.said = "nothing"
    BY <1>3, <2>2, <2>3
  <2>5. ASSUME r = q PROVE Told(r)
    BY <2>1, <2>2, <2>3, <2>5 DEF Told, Stream!Complete
  <2>. QED
    BY <1>2, <1>4, <2>1, <2>2, <2>3, <2>4, <2>5
<1>7. CASE stage = "failing"
  <2>1. outcome = "error" /\ Ending /\ (surface.native => Len(frames) <= 1)
    BY <1>7 DEF StreamInv, Phases
  <2>2. PICK q : /\ Leads(surface.api, reader, frames, q) /\ ~q.lost /\ ~q.skipped
                 /\ q.late => surface.native
                 /\ q.said \in Said
                 /\ q.said \notin {"DONE", "error"} => q.usage = Stream!UsageNow
    BY <2>1 DEF Ending
  <2>3. q.said \in {"failed", "error"}
    BY <1>7, <2>2 DEF Said
  <2>4. r = q \/ r.said \in {"nothing", "error"}
    <3>1. CASE surface.native
      <4>1. frames \in Seq(Frames(relayed))
        BY DEF StreamInv, Shapely
      <4>2. Tail(frames) = << >>
        BY <2>1, <3>1, <4>1
      <4>3. Leads(surface.api, r, << >>, q)
        BY <1>2, <2>2, <4>2
      <4>. QED
        BY <1>2, <4>3, LeadsNowhere
    <3>2. CASE ~surface.native
      BY <1>3, <2>2, <3>2
    <3>. QED
      BY <3>1, <3>2
  <2>5. ASSUME r = q PROVE Told(r)
    BY <2>1, <2>2, <2>3, <2>5 DEF Told, Stream!Complete
  <2>6. ASSUME r.said = "error" PROVE Told(r)
    BY <2>1, <2>6 DEF Told, Stream!Complete
  <2>. QED
    BY <1>2, <1>4, <2>1, <2>2, <2>4, <2>5, <2>6
<1>. QED
  BY <1>5, <1>6, <1>7

\* Handing over a frame keeps StreamInv.
LEMMA HandOverKeeps == StreamInv /\ Stream!HandOver => StreamInv'
<1>. SUFFICES ASSUME StreamInv, Stream!HandOver PROVE StreamInv'
  OBVIOUS
<1>1. /\ frames # << >> /\ stage \in {"reading", "closing", "failing"}
      /\ frames' = Tail(frames)
      /\ UNCHANGED << surface, adapter, stage, outcome, reported, final, relayed, row, theirs,
                      given >>
  BY DEF Stream!HandOver
<1>2. reader' = Reads(surface.api, reader, Head(frames))
  BY DEF Stream!HandOver, Stream!Read, Reads
<1>3. relayed \in Nat /\ Shapely
  BY DEF StreamInv, Basics
<1>4. /\ Tail(frames) \in Seq(Frames(relayed))
      /\ reader' \in Readers /\ reader'.said \in Stream!Terminals \cup {"nothing"}
      /\ Heard(reader'.items) => relayed > 0
      /\ \A q : Leads(surface.api, reader, frames, q) => Leads(surface.api, reader', Tail(frames), q)
  BY <1>1, <1>2, <1>3, HandedOn
<1>5. Basics'
  BY <1>1, BasicsStay DEF StreamInv
<1>6. Shapely'
  BY <1>1, <1>3, <1>4 DEF Shapely
<1>7. Stream!UsageNow' = Stream!UsageNow
  BY <1>1, UsageStays
<1>8. Kept'
  <2>1. /\ ~reader'.lost /\ ~reader'.skipped
        /\ reader'.late => surface.native /\ outcome = "error"
        /\ Told(reader')
    BY <1>1, <1>2, ToldOn
  <2>2. Told(reader)'
    BY <1>1, <1>7, <2>1 DEF Told
  <2>. QED
    BY <1>1, <2>1, <2>2 DEF Kept
<1>9. Reaching => Reaching'
  <2>1. Passing => Passing'
    BY <1>1, <1>4 DEF Passing
  <2>2. Chatting => Chatting'
    BY <1>1, <1>4 DEF Chatting
  <2>3. Translating => Translating'
    BY <1>1, <1>4 DEF Translating
  <2>. QED
    BY <1>1, <2>1, <2>2, <2>3 DEF Reaching
<1>10. Ending => Ending'
  BY <1>1, <1>4, <1>7 DEF Ending, Said
<1>11. stage = "failing" /\ surface.native => Len(frames') <= 1
  <2>1. frames \in Seq(Frames(relayed))
    BY DEF StreamInv, Shapely
  <2>. QED
    BY <1>1, <2>1 DEF StreamInv, Phases
<1>12. Phases'
  BY <1>1, <1>7, <1>9, <1>10, <1>11 DEF StreamInv, Phases
<1>. QED
  BY <1>5, <1>6, <1>8, <1>12 DEF StreamInv

-----------------------------------------------------------------------------
(* A chunk on its way to an adapter.                                       *)

\* The marks are numbers.
LEMMA MarkIs ==
    ASSUME given.chunks \in Nat, NEW pieces \in Seq(Nat)
    PROVE  Stream!Mark(pieces) \in Seq(Nat)
BY DEF Stream!Mark, Stream!Piece

\* A chunk that is marked is of what a chunk is of.
LEMMA MarkedIs ==
    ASSUME given.chunks \in Nat, NEW c \in Chunks, NEW k, k = Stream!Marked(c)
    PROVE  /\ Chunk(k) /\ k.usage \in Stream!Usages
           /\ k.usage.given \/ k.usage = Stream!None
<1>1. /\ c.thought \in Seq(Nat) /\ c.text \in Seq(Nat) /\ c.calls \in Seq(Stream!Deltas)
      /\ c.finish \in Stream!Finishes /\ c.usage \in Stream!Usages
      /\ c.usage.given \/ c.usage = Stream!None
  BY StreamsAssumption DEF Stream!StreamsKnown
<1>2. /\ k.thought = Stream!Mark(c.thought) /\ k.text = Stream!Mark(c.text)
      /\ k.finish = c.finish /\ k.usage = c.usage
      /\ k.calls = [i \in DOMAIN c.calls |->
                      [index |-> c.calls[i].index, piece |-> Stream!Mark(c.calls[i].piece)]]
  BY DEF Stream!Marked
<1>3. k.calls \in Seq(Stream!Deltas)
  <2>1. ASSUME NEW i \in DOMAIN c.calls
        PROVE  [index |-> c.calls[i].index, piece |-> Stream!Mark(c.calls[i].piece)]
                 \in Stream!Deltas
    <3>1. c.calls[i] \in Stream!Deltas
      BY <1>1
    <3>2. c.calls[i].index \in Nat /\ c.calls[i].piece \in Seq(Nat)
      BY <3>1 DEF Stream!Deltas
    <3>3. Stream!Mark(c.calls[i].piece) \in Seq(Nat)
      BY <3>2, MarkIs
    <3>. QED
      BY <3>2, <3>3 DEF Stream!Deltas
  <2>2. PICK F : F = [i \in DOMAIN c.calls |->
                        [index |-> c.calls[i].index, piece |-> Stream!Mark(c.calls[i].piece)]]
    OBVIOUS
  <2>3. PICK n \in Nat : DOMAIN c.calls = 1..n
    <3>1. \A s \in Seq(Stream!Deltas) : Len(s) \in Nat /\ DOMAIN s = 1..Len(s)
      OBVIOUS
    <3>2. PICK s : s = c.calls
      BY Zenon
    <3>3. Len(s) \in Nat /\ DOMAIN s = 1..Len(s)
      BY <1>1, <3>1, <3>2, Zenon
    <3>. QED
      BY <3>2, <3>3, Zenon
  <2>4. F \in [1..n -> Stream!Deltas]
    BY <2>1, <2>2, <2>3
  <2>. QED
    BY <1>2, <2>2, <2>4
<1>4. k.thought \in Seq(Nat) /\ k.text \in Seq(Nat)
  BY <1>1, <1>2, MarkIs
<1>. QED
  BY <1>1, <1>2, <1>3, <1>4 DEF Chunk

\* Whatever a chunk carries is counted.
LEMMA MeterIs ==
    ASSUME NEW k, Chunk(k), NEW n, n = Stream!MeterChat(k), NEW m \in Nat
    PROVE  n \in Nat /\ Carries(k, m + n)
<1>1. PICK sum : sum = (CHOOSE it : Counts(it, k.calls))[DOMAIN k.calls]
  OBVIOUS
<1>2. Stream!FoldLeft(LAMBDA x, call : x + Len(call.piece), 0, k.calls) = sum
  BY <1>1, MeterUnfolds, Zenon
<1>3. Stream!MeterChat(k) = Len(k.thought) + Len(k.text) + sum
  BY <1>2, Zenon DEF Stream!MeterChat
<1>4. sum \in Nat /\ \A j \in DOMAIN k.calls : k.calls[j].piece # << >> => sum > 0
  <2>1. k.calls \in Seq(Stream!Deltas)
    BY DEF Chunk
  <2>. QED
    BY <1>1, <2>1, MeterCounts
<1>5. k.thought \in Seq(Nat) /\ k.text \in Seq(Nat)
  BY DEF Chunk
<1>6. /\ Len(k.thought) \in Nat /\ Len(k.text) \in Nat
      /\ k.thought # << >> => Len(k.thought) > 0
      /\ k.text # << >> => Len(k.text) > 0
  BY <1>5
<1>7. n = Len(k.thought) + Len(k.text) + sum
  BY <1>3
<1>8. n \in Nat /\ (k.thought # << >> => m + n > 0) /\ (k.text # << >> => m + n > 0)
      /\ (sum > 0 => m + n > 0)
  <2>1. PICK x \in Nat, y \in Nat, z \in Nat :
           /\ n = x + y + z /\ z = sum
           /\ k.thought # << >> => x > 0
           /\ k.text # << >> => y > 0
    BY <1>4, <1>6, <1>7
  <2>. QED
    BY <2>1
<1>. QED
  BY <1>4, <1>8 DEF Carries

\* A step that is read on from.
LEMMA Onward ==
    ASSUME StreamInv, Stream!Reading, Basics', relayed <= relayed',
           adapter' \in Adapters(relayed'), adapter'.out = << >>,
           frames' \in Seq(Frames(relayed')),
           UNCHANGED << surface, stage, outcome, row, reader >>, Reaching'
    PROVE  StreamInv'
<1>1. /\ stage = "reading" /\ frames = << >> /\ outcome = "success" /\ Reaching
      /\ row = Stream!None
  BY DEF StreamInv, Phases, Stream!Reading
<1>2. reader \in Readers /\ reader.said \in Stream!Terminals \cup {"nothing"}
      /\ (Heard(reader.items) => relayed > 0)
  BY DEF StreamInv, Shapely
<1>3. relayed \in Nat /\ relayed' \in Nat
  BY DEF StreamInv, Basics
<1>4. Shapely'
  BY <1>2, <1>3 DEF Shapely
<1>5. \A q : Leads(surface.api, reader, frames, q) => q = reader
  BY <1>1, <1>2, LeadsNowhere
<1>6. ~reader.late /\ IF surface.native THEN reader.said \in {"completed", "message_stop", "nothing"}
                                        ELSE reader.said = "nothing"
  <2>1. CASE surface.native
    <3>1. Theirs(theirs, surface.api, reader)
      BY <1>1, <1>5, <2>1 DEF Reaching, Passing
    <3>. QED
      BY <2>1, <3>1 DEF Theirs
  <2>2. CASE ~surface.native
    <3>1. Clear(reader)
      BY <1>1, <1>5, <2>2 DEF Reaching, Chatting, Translating
    <3>. QED
      BY <2>2, <3>1 DEF Clear
  <2>. QED
    BY <2>1, <2>2
<1>7. Kept'
  <2>1. Told(reader)'
    BY <1>1, <1>6 DEF Told, Stream!Complete
  <2>2. ~reader.lost /\ ~reader.skipped
    BY DEF StreamInv, Kept
  <2>. QED
    BY <1>6, <2>1, <2>2 DEF Kept
<1>8. Phases'
  BY <1>1 DEF Phases
<1>. QED
  BY <1>4, <1>7, <1>8 DEF StreamInv

\* What a chunk leaves of what is counted and reported.
LEMMA BasicsTake ==
    ASSUME Basics, NEW c \in Chunks, NEW k, k = Stream!Marked(c), Stream!Give(k),
           relayed' = relayed + Stream!MeterChat(k),
           reported' = IF k.usage.given THEN k.usage ELSE reported,
           UNCHANGED << surface, final >>
    PROVE  Basics' /\ relayed <= relayed' /\ Chunk(k) /\ Carries(k, relayed')
<1>1. given.chunks \in Nat /\ relayed \in Nat
  BY DEF Basics
<1>2. /\ Chunk(k) /\ k.usage \in Stream!Usages
      /\ k.usage.given \/ k.usage = Stream!None
  BY <1>1, MarkedIs
<1>3. PICK n : n = Stream!MeterChat(k)
  OBVIOUS
<1>4. n \in Nat /\ Carries(k, relayed + n)
  BY <1>1, <1>2, <1>3, MeterIs
<1>5. relayed' = relayed + n /\ relayed' \in Nat /\ relayed <= relayed'
  BY <1>1, <1>3, <1>4
<1>6. given'.chunks = given.chunks + 1
      /\ given'.usage = IF k.usage.given THEN k.usage ELSE given.usage
  BY DEF Stream!Give
<1>8. {"chunks", "usage"} \subseteq DOMAIN given'
  <2>1. PICK a, b, d, e, f, g, h :
           given' = [chunks |-> a, thought |-> b, text |-> d, calls |-> e, finish |-> f,
                     kinds |-> g, usage |-> h]
    BY Zenon DEF Stream!Give
  <2>. QED
    BY <2>1
<1>7. Basics'
  <2>1. given.usage = reported /\ reported \in Stream!Usages
        /\ (reported.given \/ reported = Stream!None)
        /\ surface \in Surfaces /\ final \in BOOLEAN /\ (~surface.native => final)
    BY DEF Basics
  <2>2. reported' \in Stream!Usages /\ given'.usage = reported'
        /\ (reported'.given \/ reported' = Stream!None)
    BY <1>2, <1>6, <2>1
  <2>3. given'.chunks \in Nat
    BY <1>1, <1>6
  <2>. QED
    BY <1>5, <1>8, <2>1, <2>2, <2>3 DEF Basics
<1>. QED
  BY <1>2, <1>4, <1>5, <1>7

-----------------------------------------------------------------------------
(* A chunk that is translated, and one that is handed on as it is.         *)

\* The events of the call are taken off the adapter.
LEMMA TakenIs ==
    ASSUME NEW m \in Nat, NEW a \in Adapters(m), NEW b, b = Stream!Taken(a)
    PROVE  b \in Adapters(m) /\ b.out = << >> /\ b.seq = a.seq /\ Same(a, b)
<1>1. b = [started |-> a.started, seq |-> a.seq, open |-> a.open, closed |-> a.closed,
           tools |-> a.tools, next |-> a.next, finish |-> a.finish, out |-> << >>]
  <2>1. a = [started |-> a.started, seq |-> a.seq, open |-> a.open, closed |-> a.closed,
             tools |-> a.tools, next |-> a.next, finish |-> a.finish, out |-> a.out]
    BY AdapterIs
  <2>2. b = [a EXCEPT !.out = << >>]
    BY DEF Stream!Taken
  <2>. QED
    BY <2>1, <2>2
<1>2. << >> \in Seq(Frames(m))
  OBVIOUS
<1>. QED
  BY <1>1, <1>2 DEF Adapters, Same

\* What a call of the adapter that is sound leaves: frames that lead on, and an adapter they
\* mirror.
LEMMA SoundLeaves ==
    ASSUME NEW m \in Nat, NEW w, NEW r, NEW a, Faithful(m, w, r, a), NEW b, b = Stream!Taken(a)
    PROVE  /\ b \in Adapters(m) /\ b.out = << >> /\ a.out \in Seq(Frames(m))
           /\ \E q : /\ Leads(w, r, a.out, q) /\ Clear(q) /\ Expects(w, q, b.seq)
                     /\ Mirrors(w, q.items, b)
<1>1. PICK q : Feeds(m, w, r, a, q) /\ Mirrors(w, q.items, a)
  BY DEF Faithful
<1>2. a \in Adapters(m) /\ Leads(w, r, a.out, q) /\ Clear(q) /\ Expects(w, q, a.seq)
  BY <1>1 DEF Feeds
<1>3. b \in Adapters(m) /\ b.out = << >> /\ b.seq = a.seq /\ Same(a, b)
  BY <1>2, TakenIs
<1>4. Mirrors(w, q.items, b)
  BY <1>1, <1>3, MirrorsSame
<1>5. a.out \in Seq(Frames(m))
  BY <1>2 DEF Adapters
<1>. QED
  BY <1>2, <1>3, <1>4, <1>5

\* The adapter of a stream that is read, once more has been counted.
LEMMA ReadIsSound ==
    ASSUME StreamInv, Stream!Reading, ~surface.native, surface.api # "chat",
           NEW m \in Nat, relayed <= m
    PROVE  Faithful(m, surface.api, reader, adapter)
<1>1. stage = "reading" /\ frames = << >> /\ Translating
  BY DEF StreamInv, Phases, Stream!Reading, Reaching
<1>2. relayed \in Nat /\ adapter \in Adapters(relayed) /\ adapter.out = << >>
  BY DEF StreamInv, Basics, Shapely
<1>3. adapter \in Adapters(m)
  BY <1>2, Widens
<1>4. PICK q : /\ Leads(surface.api, reader, frames, q) /\ Clear(q)
               /\ Expects(surface.api, q, adapter.seq)
               /\ Mirrors(surface.api, q.items, adapter)
  BY <1>1 DEF Translating
<1>5. Feeds(m, surface.api, reader, adapter, q)
  BY <1>1, <1>2, <1>3, <1>4 DEF Feeds
<1>. QED
  BY <1>4, <1>5 DEF Faithful

\* A chunk that is translated keeps StreamInv.
LEMMA TranslatedKeeps == StreamInv /\ Stream!TranslatedChunk => StreamInv'
<1>. SUFFICES ASSUME StreamInv, Stream!TranslatedChunk PROVE StreamInv'
  OBVIOUS
<1>1. /\ ~surface.native /\ surface.api # "chat" /\ Stream!Reading
      /\ UNCHANGED << surface, stage, outcome, final, row, theirs, reader >>
  BY DEF Stream!TranslatedChunk, Stream!Translates
<1>2a. PICK c \in Chunks :
        /\ Stream!Give(Stream!Marked(c))
        /\ relayed' = relayed + Stream!MeterChat(Stream!Marked(c))
        /\ reported' = IF Stream!Marked(c).usage.given THEN Stream!Marked(c).usage ELSE reported
        /\ adapter' = Stream!Taken(Stream!HandleChunk(Stream!Marked(c)))
        /\ frames' = Stream!HandleChunk(Stream!Marked(c)).out
  BY DEF Stream!TranslatedChunk
<1>2b. PICK k : k = Stream!Marked(c)
  OBVIOUS
<1>2c. PICK a : a = Stream!HandleChunk(k)
  OBVIOUS
<1>2. /\ k = Stream!Marked(c) /\ a = Stream!HandleChunk(k)
      /\ Stream!Give(k)
      /\ relayed' = relayed + Stream!MeterChat(k)
      /\ reported' = IF k.usage.given THEN k.usage ELSE reported
      /\ adapter' = Stream!Taken(a)
      /\ frames' = a.out
  BY <1>2a, <1>2b, <1>2c
<1>3. Basics
  BY DEF StreamInv
<1>4. Basics' /\ relayed <= relayed' /\ Chunk(k) /\ Carries(k, relayed')
  BY <1>1, <1>2, <1>3, BasicsTake
<1>5. relayed' \in Nat
  BY <1>4 DEF Basics
<1>6. Faithful(relayed', surface.api, reader, adapter)
  BY <1>1, <1>4, <1>5, ReadIsSound
<1>7. /\ surface \in Surfaces /\ surface.api \in {"messages", "responses"}
      /\ surface.thinking \in BOOLEAN /\ Estimate \in Nat
  BY <1>1, StreamsAssumption DEF StreamInv, Basics, Stream!StreamsKnown
<1>8. Faithful(relayed', surface.api, reader, a)
  <2>1. CASE surface.api = "responses"
    <3>1. a = Stream!ResponsesChunk(adapter, k)
      BY <1>2, <2>1 DEF Stream!HandleChunk
    <3>2. Faithful(relayed', "responses", reader, adapter)
      BY <1>6, <2>1
    <3>3. Faithful(relayed', "responses", reader, Stream!ResponsesChunk(adapter, k))
      BY <1>4, <1>5, <3>2, ResponsesChunkSound
    <3>. QED
      BY <2>1, <3>1, <3>3
  <2>2. CASE surface.api = "messages"
    <3>1. a = Stream!MessageChunk(adapter, k, surface.thinking, Estimate)
      BY <1>2, <2>2 DEF Stream!HandleChunk
    <3>2. Faithful(relayed', "messages", reader, adapter)
      BY <1>6, <2>2
    <3>3. Faithful(relayed', "messages", reader,
                Stream!MessageChunk(adapter, k, surface.thinking, Estimate))
      BY <1>4, <1>5, <1>7, <3>2, MessageChunkSound
    <3>. QED
      BY <2>2, <3>1, <3>3
  <2>. QED
    BY <1>7, <2>1, <2>2
<1>9. /\ adapter' \in Adapters(relayed') /\ adapter'.out = << >>
      /\ frames' \in Seq(Frames(relayed'))
      /\ \E q : /\ Leads(surface.api, reader, frames', q) /\ Clear(q)
                /\ Expects(surface.api, q, adapter'.seq)
                /\ Mirrors(surface.api, q.items, adapter')
  <2>1. PICK b : b = Stream!Taken(a)
    OBVIOUS
  <2>2. /\ b \in Adapters(relayed') /\ b.out = << >> /\ a.out \in Seq(Frames(relayed'))
        /\ \E q : /\ Leads(surface.api, reader, a.out, q) /\ Clear(q)
                  /\ Expects(surface.api, q, b.seq)
                  /\ Mirrors(surface.api, q.items, b)
    BY <1>5, <1>8, <2>1, SoundLeaves
  <2>3. adapter' = b /\ frames' = a.out
    BY <1>2, <2>1
  <2>. QED
    BY <2>2, <2>3
<1>10. Reaching'
  BY <1>1, <1>9 DEF Reaching, Translating
<1>. QED
  BY <1>1, <1>4, <1>9, <1>10, Onward

\* A chunk handed on is one frame that the reader of a chat can take.
LEMMA ChatFrameIs ==
    ASSUME NEW k, Chunk(k), NEW m \in Nat, Carries(k, m), k.usage \in Stream!Usages,
           NEW s, s = Stream!ChatFrames(k)
    PROVE  \/ s = << >>
           \/ \E e \in Frames(m) : s = << e >> /\ e.type = "chunk"
<1>. DEFINE p == Stream!Plain("chunk")
            e == [p EXCEPT !.body = k.text, !.usage = k.usage]
<1>1. k.text \in Seq(Nat) /\ (k.text # << >> => m > 0) /\ k.text \in Bodies
  BY BodiesAre DEF Chunk, Carries
<1>2. p \in Events /\ p.type = "chunk"
  <2>1. p = [type |-> "chunk", index |-> 0, kind |-> "none", body |-> << >>,
             usage |-> Stream!None, seq |-> 0]
    BY DEF Stream!Plain, Stream!Event, Stream!Closed
  <2>2. << >> \in Bodies
    <3>1. << >> \in Seq(Nat)
      OBVIOUS
    <3>. QED
      BY <3>1, BodiesAre
  <2>3. Stream!None \in Stream!Usages
    BY DEF Stream!None, Stream!Usages
  <2>. QED
    BY <2>1, <2>2, <2>3 DEF Events, Types, Kinds
<1>3. s = << >> \/ s = << e >>
  BY Zenon DEF Stream!ChatFrames
<1>. HIDE DEF p
<1>4. e \in Frames(m) /\ e.type = "chunk"
  BY <1>1, <1>2 DEF Frames, Events, Spoken
<1>. HIDE DEF e
<1>. QED
  BY <1>3, <1>4

\* The reader of a chat that reads a chunk is as clear as it was.
LEMMA ChunkReads ==
    ASSUME NEW m \in Nat, NEW r, Clear(r), NEW e \in Frames(m), e.type = "chunk"
    PROVE  Clear(Reads("chat", r, e))
<1>1. e.type \notin Stream!Terminals /\ e.type \notin Stream!Inner
  BY DEF Stream!Terminals, Stream!Inner
<1>2. Stream!Follow(r, e) = Stream!Reprints(r, e)
  BY <1>1 DEF Stream!Follow
<1>3. Stream!Reprints(r, e).lost = r.lost
  <2>1. r \in Readers
    BY DEF Clear
  <2>. QED
    BY <2>1 DEF Stream!Reprints, Readers
<1>4. ~Stream!Follow(r, e).lost
  BY <1>2, <1>3 DEF Clear
<1>5. Expects("chat", r, e.seq)
  BY DEF Expects
<1>. QED
  BY <1>1, <1>4, <1>5, ReadsOn

\* A chunk that is passed on to a caller of chat completions keeps StreamInv.
LEMMA ChatKeeps == StreamInv /\ Stream!ChatChunk => StreamInv'
<1>. SUFFICES ASSUME StreamInv, Stream!ChatChunk PROVE StreamInv'
  OBVIOUS
<1>1. /\ surface.api = "chat" /\ Stream!Reading
      /\ UNCHANGED << surface, adapter, stage, outcome, final, row, theirs, reader >>
  BY DEF Stream!ChatChunk
<1>2a. PICK c \in Chunks :
        /\ Stream!Give(Stream!Marked(c))
        /\ relayed' = relayed + Stream!MeterChat(Stream!Marked(c))
        /\ reported' = IF Stream!Marked(c).usage.given THEN Stream!Marked(c).usage ELSE reported
        /\ frames' = Stream!ChatFrames(Stream!Marked(c))
  BY DEF Stream!ChatChunk
<1>2b. PICK k : k = Stream!Marked(c)
  OBVIOUS
<1>2. /\ k = Stream!Marked(c)
      /\ Stream!Give(k)
      /\ relayed' = relayed + Stream!MeterChat(k)
      /\ reported' = IF k.usage.given THEN k.usage ELSE reported
      /\ frames' = Stream!ChatFrames(k)
  BY <1>2a, <1>2b
<1>3. Basics
  BY DEF StreamInv
<1>4. Basics' /\ relayed <= relayed' /\ Chunk(k) /\ Carries(k, relayed')
  BY <1>1, <1>2, <1>3, BasicsTake
<1>5. relayed' \in Nat /\ relayed \in Nat
  BY <1>3, <1>4 DEF Basics
<1>6. ~surface.native
  BY <1>1, <1>3, StreamsAssumption DEF Basics, Stream!StreamsKnown
<1>7. k.usage \in Stream!Usages
  BY <1>2, <1>3, MarkedIs DEF Basics
<1>8. stage = "reading" /\ frames = << >> /\ Chatting
  BY <1>1, <1>6 DEF StreamInv, Phases, Stream!Reading, Reaching
<1>9. Clear(reader)
  BY <1>8, LeadsNowhere DEF Chatting, StreamInv, Shapely
<1>10. reader \in Readers
  BY <1>9 DEF Clear
<1>11. \/ frames' = << >>
       \/ \E e \in Frames(relayed') : frames' = << e >> /\ e.type = "chunk"
  BY <1>2, <1>4, <1>5, <1>7, ChatFrameIs
<1>12. frames' \in Seq(Frames(relayed')) /\ \E q : Leads("chat", reader, frames', q) /\ Clear(q)
  <2>1. CASE frames' = << >>
    <3>1. Leads("chat", reader, << >>, reader)
      BY <1>10, LeadsNowhere
    <3>. QED
      BY <1>9, <2>1, <3>1
  <2>2. ASSUME NEW e \in Frames(relayed'), frames' = << e >>, e.type = "chunk"
        PROVE  frames' \in Seq(Frames(relayed')) /\ \E q : Leads("chat", reader, frames', q) /\ Clear(q)
    <3>1. Leads("chat", reader, << >>, reader) /\ << >> \in Seq(Frames(relayed'))
      BY <1>10, LeadsNowhere
    <3>2. Leads("chat", reader, Append(<< >>, e), Reads("chat", reader, e))
      BY <1>5, <3>1, LeadsOn
    <3>3. Append(<< >>, e) = frames' /\ frames' \in Seq(Frames(relayed'))
      BY <2>2
    <3>4. Clear(Reads("chat", reader, e))
      BY <1>5, <1>9, <2>2, ChunkReads
    <3>. QED
      BY <3>2, <3>3, <3>4
  <2>. QED
    BY <1>11, <2>1, <2>2
<1>13. Reaching'
  BY <1>1, <1>6, <1>12 DEF Reaching, Chatting
<1>14. adapter' \in Adapters(relayed') /\ adapter'.out = << >>
  <2>1. adapter \in Adapters(relayed) /\ adapter.out = << >>
    BY DEF StreamInv, Shapely
  <2>2. adapter \in Adapters(relayed')
    BY <1>4, <1>5, <2>1, Widens
  <2>. QED
    BY <1>1, <2>1, <2>2
<1>. QED
  BY <1>1, <1>4, <1>12, <1>13, <1>14, Onward

-----------------------------------------------------------------------------
(* The end of a stream, and its failure.                                   *)

\* The reader of a stream that is read and has taken all its frames.
LEMMA ReaderReads ==
    ASSUME StreamInv, Stream!Reading
    PROVE  /\ stage = "reading" /\ frames = << >> /\ outcome = "success" /\ Reaching
           /\ row = Stream!None
           /\ reader \in Readers /\ reader.said \in Stream!Terminals \cup {"nothing"}
           /\ ~reader.lost /\ ~reader.skipped /\ ~reader.late
           /\ IF surface.native
              THEN /\ reader.said \in {"completed", "message_stop", "nothing"}
                   /\ Theirs(theirs, surface.api, reader)
                   /\ Expects(surface.api, reader, adapter.next) /\ adapter.seq = 0
              ELSE reader.said = "nothing" /\ Clear(reader)
<1>1. /\ stage = "reading" /\ frames = << >> /\ outcome = "success" /\ Reaching
      /\ row = Stream!None
  BY DEF StreamInv, Phases, Stream!Reading
<1>2. reader \in Readers /\ reader.said \in Stream!Terminals \cup {"nothing"}
  BY DEF StreamInv, Shapely
<1>3. \A q : Leads(surface.api, reader, frames, q) => q = reader
  BY <1>1, <1>2, LeadsNowhere
<1>4. CASE surface.native
  <2>1. /\ Theirs(theirs, surface.api, reader)
        /\ Expects(surface.api, reader, adapter.next) /\ adapter.seq = 0
    BY <1>1, <1>3, <1>4 DEF Reaching, Passing
  <2>2. /\ ~reader.lost /\ ~reader.skipped /\ ~reader.late
        /\ reader.said \in {"completed", "message_stop", "nothing"}
    BY <2>1 DEF Theirs
  <2>. QED
    BY <1>1, <1>2, <1>4, <2>1, <2>2
<1>5. CASE ~surface.native
  <2>1. Clear(reader)
    BY <1>1, <1>3, <1>5 DEF Reaching, Chatting, Translating
  <2>. QED
    BY <1>1, <1>2, <1>5, <2>1 DEF Clear
<1>. QED
  BY <1>4, <1>5

\* A step that ends the reading.
LEMMA EndsWell ==
    ASSUME StreamInv, Stream!Reading,
           UNCHANGED << surface, reported, final, relayed, row, given, reader >>,
           stage' \in {"closing", "failing"},
           outcome' = IF stage' = "closing" THEN "success" ELSE "error",
           adapter' \in Adapters(relayed), adapter'.out = << >>,
           frames' \in Seq(Frames(relayed)),
           stage' = "closing" => IF surface.native THEN frames' = << >> ELSE Ending',
           stage' = "failing" => Ending' /\ (surface.native => Len(frames') <= 1)
    PROVE  StreamInv'
<1>1. Basics'
  BY BasicsStay DEF StreamInv
<1>2. Shapely'
  BY DEF StreamInv, Shapely
<1>3. /\ ~reader.lost /\ ~reader.skipped /\ ~reader.late /\ row = Stream!None
      /\ IF surface.native THEN reader.said \in {"completed", "message_stop", "nothing"}
                           ELSE reader.said = "nothing"
  BY ReaderReads
<1>4. Kept'
  <2>1. Told(reader)'
    BY <1>3 DEF Told, Stream!Complete
  <2>. QED
    BY <1>3, <2>1 DEF Kept
<1>5. Phases'
  BY <1>3 DEF Phases
<1>. QED
  BY <1>1, <1>2, <1>4, <1>5 DEF StreamInv

\* Frames after which a stream is over, as it is charged, are an ending.
LEMMA EndedEnds ==
    ASSUME UNCHANGED << surface, reported, final, relayed, reader >>,
           NEW said, NEW usage, IsOver(surface.api, reader, frames', said, usage),
           said \in Said', said \notin {"DONE", "error"} => usage = Stream!UsageNow
    PROVE  Ending'
<1>1. Stream!UsageNow' = Stream!UsageNow
  BY UsageStays
<1>. QED
  BY <1>1 DEF IsOver, Ending

\* One frame more that is an end.
LEMMA OneMore ==
    ASSUME NEW m \in Nat, NEW w, NEW r \in Readers, ~r.lost, ~r.skipped, NEW n \in Nat,
           Expects(w, r, n), NEW e \in Frames(m), e.type \in Stream!Terminals \ {"DONE"},
           NEW a \in Adapters(m), a.out = << >>, a.seq = n,
           NEW b, b = Stream!Emit(a, << e >>)
    PROVE  /\ b \in Adapters(m) /\ b.out \in Seq(Frames(m)) /\ Len(b.out) = 1
           /\ \E q \in Readers : /\ Leads(w, r, b.out, q) /\ ~q.lost /\ ~q.skipped
                                 /\ q.said = e.type /\ q.usage = e.usage
                                 /\ q.late = (r.late \/ r.said \in Stream!Terminals)
<1>1. PICK x : x = Number(e, n)
  OBVIOUS
<1>2. x \in Frames(m) /\ x.type = e.type /\ x.usage = e.usage /\ x.seq = n
  BY <1>1, NumberIs
<1>3. PICK f, q : f = Stream!Follow(r, x) /\ q = Reads(w, r, x)
  OBVIOUS
<1>4. b.out = Append(<< >>, x) /\ b \in Adapters(m)
  BY <1>1, EmitOne
<1>5. b.out \in Seq(Frames(m)) /\ Len(b.out) = 1
  <2>1. Append(<< >>, x) \in Seq(Frames(m)) /\ Len(Append(<< >>, x)) = 1
    BY <1>2
  <2>. QED
    BY <1>4, <2>1
<1>6. Leads(w, r, b.out, q)
  <2>1. Leads(w, r, << >>, r) /\ << >> \in Seq(Frames(m))
    BY LeadsNowhere
  <2>2. Leads(w, r, Append(<< >>, x), Reads(w, r, x))
    BY <1>2, <2>1, LeadsOn
  <2>. QED
    BY <1>3, <1>4, <2>2
<1>7. /\ q \in Readers /\ q.lost = f.lost /\ q.said = f.said /\ q.usage = f.usage
      /\ q.skipped = (r.skipped \/ (w = "responses" /\ x.seq # r.next))
      /\ q.late = (r.late \/ (r.said \in Stream!Terminals
                              /\ ~(r.said = "error" /\ x.type = "DONE")))
  BY <1>2, <1>3, ReadsKeep
<1>8. f.said = x.type /\ f.usage = x.usage
  <2>1. x.type \in Stream!Terminals /\ x.type # "DONE"
    BY <1>2
  <2>2. /\ x.type \in Stream!Terminals /\ ~(x.type = "DONE" /\ r.said = "error")
             => f.said = x.type /\ f.usage = x.usage
    BY <1>2, <1>3, FollowKeeps
  <2>. QED
    BY <2>1, <2>2
<1>9. f.lost = r.lost
  BY <1>2, <1>3, FollowEnds
<1>10. w = "responses" => x.seq = r.next
  BY <1>2 DEF Expects
<1>11. /\ ~q.lost /\ ~q.skipped /\ q.said = e.type /\ q.usage = e.usage
       /\ q.late = (r.late \/ r.said \in Stream!Terminals)
  BY <1>2, <1>7, <1>8, <1>9, <1>10
<1>. QED
  BY <1>4, <1>5, <1>6, <1>7, <1>11

\* The adapter of a stream that is read, as it is.
LEMMA AdapterReads ==
    ASSUME StreamInv, Stream!Reading
    PROVE  /\ relayed \in Nat /\ adapter \in Adapters(relayed) /\ adapter.out = << >>
           /\ adapter.seq \in Nat /\ adapter.next \in Nat
           /\ Stream!UsageNow \in Stream!Usages /\ Estimate \in Nat
           /\ surface.api \in {"chat", "messages", "responses"}
           /\ surface.api = "chat" => /\ ~surface.native
                                      /\ Feeds(relayed, "chat", reader, adapter, reader)
           /\ ~surface.native /\ surface.api # "chat"
                => Faithful(relayed, surface.api, reader, adapter)
<1>1. /\ relayed \in Nat /\ adapter \in Adapters(relayed) /\ adapter.out = << >>
      /\ surface \in Surfaces /\ Basics
  BY DEF StreamInv, Basics, Shapely
<1>2. adapter.seq \in Nat /\ adapter.next \in Nat
  BY <1>1, TypedAdapter
<1>3. Stream!UsageNow \in Stream!Usages /\ Estimate \in Nat
  BY <1>1, UsageIs, StreamsAssumption DEF Stream!StreamsKnown
<1>4. surface.api \in {"chat", "messages", "responses"} /\ (surface.api = "chat" => ~surface.native)
  BY <1>1, StreamsAssumption DEF Stream!StreamsKnown
<1>5. ASSUME surface.api = "chat" PROVE Feeds(relayed, "chat", reader, adapter, reader)
  <2>1. Clear(reader) /\ reader \in Readers
    BY <1>4, <1>5, ReaderReads
  <2>2. Leads("chat", reader, << >>, reader)
    BY <2>1, LeadsNowhere
  <2>3. Expects("chat", reader, adapter.seq)
    BY DEF Expects
  <2>. QED
    BY <1>1, <2>1, <2>2, <2>3 DEF Feeds
<1>6. ASSUME ~surface.native, surface.api # "chat"
      PROVE  Faithful(relayed, surface.api, reader, adapter)
  <2>1. relayed <= relayed
    BY <1>1
  <2>. QED
    BY <1>1, <1>6, <2>1, ReadIsSound
<1>. QED
  BY <1>1, <1>2, <1>3, <1>4, <1>5, <1>6

\* The end of the backend keeps StreamInv.
LEMMA EndsKeep == StreamInv /\ Stream!BackendEnds => StreamInv'
<1>. SUFFICES ASSUME StreamInv, Stream!BackendEnds PROVE StreamInv'
  OBVIOUS
<1>1. /\ Stream!Reading /\ stage' = "closing"
      /\ UNCHANGED << surface, outcome, reported, final, relayed, row, given, reader >>
  BY DEF Stream!BackendEnds
<1>2. PICK a : a = Stream!Finish
  OBVIOUS
<1>3. frames' = a.out /\ adapter' = Stream!Taken(a)
  BY <1>2 DEF Stream!BackendEnds
<1>4. /\ relayed \in Nat /\ adapter \in Adapters(relayed) /\ adapter.out = << >>
      /\ Stream!UsageNow \in Stream!Usages /\ Estimate \in Nat
      /\ surface.api \in {"chat", "messages", "responses"}
      /\ surface.api = "chat" => /\ ~surface.native
                                 /\ Feeds(relayed, "chat", reader, adapter, reader)
      /\ ~surface.native /\ surface.api # "chat"
           => Faithful(relayed, surface.api, reader, adapter)
  BY <1>1, AdapterReads
<1>5. PICK u : u = Stream!UsageNow
  OBVIOUS
<1>6. /\ a \in Adapters(relayed)
      /\ IF surface.native THEN a.out = << >>
         ELSE \E said \in Stream!Complete \cup {"DONE"} : \E usage :
                /\ IsOver(surface.api, reader, a.out, said, usage)
                /\ said # "DONE" => usage = u
  <2>1. CASE surface.native
    <3>1. a = adapter
      BY <1>2, <1>4, <2>1 DEF Stream!Finish, Stream!Translates
    <3>. QED
      BY <1>4, <2>1, <3>1
  <2>2. CASE surface.api = "chat"
    <3>1. PICK e : e = Stream!Plain("DONE")
      OBVIOUS
    <3>2. a = Stream!Emit(adapter, << e >>)
      BY <1>2, <1>4, <2>2, <3>1 DEF Stream!Finish, Stream!Translates
    <3>3. e \in Frames(relayed) /\ e.type = "DONE"
      <4>1. "DONE" \in Types
        BY DEF Types, Stream!Terminals
      <4>. QED
        BY <1>4, <3>1, <4>1, PlainIsFrame
    <3>4. "DONE" \in Stream!Terminals
      BY DEF Stream!Terminals
    <3>5. /\ IsOver("chat", reader, Stream!Emit(adapter, << e >>).out, e.type, e.usage)
          /\ Stream!Emit(adapter, << e >>) \in Adapters(relayed)
      BY <1>4, <2>2, <3>3, <3>4, EndFeeds
    <3>6. IsOver("chat", reader, a.out, "DONE", e.usage) /\ a \in Adapters(relayed)
      BY <3>2, <3>3, <3>5
    <3>. QED
      BY <1>4, <2>2, <3>6
  <2>3. CASE ~surface.native /\ surface.api = "responses"
    <3>1. a = Stream!FinishResponse(adapter, u)
      BY <1>2, <1>5, <2>3 DEF Stream!Finish, Stream!Translates
    <3>2. Faithful(relayed, "responses", reader, adapter)
      BY <1>4, <2>3
    <3>3. /\ a \in Adapters(relayed)
          /\ \E said \in {"completed", "incomplete"} : IsOver("responses", reader, a.out, said, u)
      BY <1>4, <1>5, <3>1, <3>2, FinishesResponse
    <3>. QED
      BY <2>3, <3>3 DEF Stream!Complete
  <2>4. CASE ~surface.native /\ surface.api = "messages"
    <3>1. a = Stream!FinishMessage(adapter, u, Estimate)
      BY <1>2, <1>5, <2>4 DEF Stream!Finish, Stream!Translates
    <3>2. Faithful(relayed, "messages", reader, adapter)
      BY <1>4, <2>4
    <3>3. a \in Adapters(relayed) /\ IsOver("messages", reader, a.out, "message_stop", u)
      BY <1>4, <1>5, <3>1, <3>2, FinishesMessage
    <3>. QED
      BY <2>4, <3>3 DEF Stream!Complete
  <2>. QED
    BY <1>4, <2>1, <2>2, <2>3, <2>4
<1>7. /\ adapter' \in Adapters(relayed) /\ adapter'.out = << >>
      /\ frames' \in Seq(Frames(relayed))
  <2>1. a.out \in Seq(Frames(relayed))
    BY <1>6 DEF Adapters
  <2>2. Stream!Taken(a) \in Adapters(relayed) /\ Stream!Taken(a).out = << >>
    BY <1>4, <1>6, TakenIs
  <2>. QED
    BY <1>3, <2>1, <2>2
<1>8. ~surface.native => Ending'
  <2>1. ASSUME ~surface.native PROVE Ending'
    <3>1. PICK said \in Stream!Complete \cup {"DONE"} : \E usage :
             /\ IsOver(surface.api, reader, a.out, said, usage)
             /\ said # "DONE" => usage = u
      BY <1>6, <2>1
    <3>2. PICK usage : /\ IsOver(surface.api, reader, a.out, said, usage)
                       /\ said # "DONE" => usage = u
      BY <3>1
    <3>3. said \in Said'
      BY <1>1 DEF Said
    <3>4. IsOver(surface.api, reader, frames', said, usage)
      BY <1>3, <3>2
    <3>. QED
      BY <1>1, <1>5, <3>2, <3>3, <3>4, EndedEnds
  <2>. QED
    BY <2>1
<1>9. surface.native => frames' = << >>
  BY <1>3, <1>6
<1>10. outcome' = "success"
  BY <1>1, ReaderReads
<1>. QED
  BY <1>1, <1>7, <1>8, <1>9, <1>10, EndsWell

\* A line that broke is told to a chat, which is then told it is over.
LEMMA ChatIsTold ==
    ASSUME NEW m \in Nat, NEW r, NEW a, Feeds(m, "chat", r, a, r), a.out = << >>,
           NEW b, b = Stream!Emit(a, << Stream!Plain("error"), Stream!Plain("DONE") >>)
    PROVE  b \in Adapters(m) /\ \E usage : IsOver("chat", r, b.out, "error", usage)
<1>1. PICK e, f : e = Stream!Plain("error") /\ f = Stream!Plain("DONE")
  OBVIOUS
<1>2. e \in Frames(m) /\ e.type = "error" /\ f \in Frames(m) /\ f.type = "DONE"
  <2>1. "error" \in Types /\ "DONE" \in Types
    BY DEF Types, Stream!Terminals
  <2>. QED
    BY <1>1, <2>1, PlainIsFrame
<1>3. a \in Adapters(m) /\ r \in Readers /\ ~r.lost /\ a.seq \in Nat
  BY FeedsAre, TypedAdapter
<1>4. PICK c : c = Stream!Emit(a, << e >>)
  OBVIOUS
<1>5. b = Stream!Emit(c, << f >>)
  BY <1>1, <1>2, <1>3, <1>4, EmitTwo
<1>6. "error" \in Stream!Terminals
  BY DEF Stream!Terminals
<1>7. IsOver("chat", r, c.out, "error", e.usage) /\ c \in Adapters(m)
  <2>1. IsOver("chat", r, Stream!Emit(a, << e >>).out, e.type, e.usage)
        /\ Stream!Emit(a, << e >>) \in Adapters(m)
    BY <1>2, <1>6, EndFeeds
  <2>. QED
    BY <1>2, <1>4, <2>1
<1>8. PICK q : /\ Leads("chat", r, c.out, q) /\ q \in Readers /\ ~q.lost /\ ~q.skipped /\ ~q.late
               /\ q.said = "error"
  BY <1>7 DEF IsOver
<1>9. PICK x : x = Number(f, c.seq)
  OBVIOUS
<1>10. c.seq \in Nat /\ c.out \in Seq(Frames(m))
  BY <1>7 DEF Adapters
<1>11. x \in Frames(m) /\ x.type = "DONE"
  BY <1>2, <1>9, <1>10, NumberIs
<1>12. b.out = Append(c.out, x) /\ b \in Adapters(m)
  BY <1>2, <1>5, <1>7, <1>9, EmitOne
<1>13. PICK y, g : y = Reads("chat", q, x) /\ g = Stream!Follow(q, x)
  OBVIOUS
<1>14. Leads("chat", r, b.out, y)
  <2>1. Leads("chat", r, Append(c.out, x), Reads("chat", q, x))
    BY <1>8, <1>10, <1>11, LeadsOn
  <2>. QED
    BY <1>12, <1>13, <2>1
<1>15. /\ y \in Readers /\ y.lost = g.lost /\ y.said = g.said
       /\ y.skipped = (q.skipped \/ ("chat" = "responses" /\ x.seq # q.next))
       /\ y.late = (q.late \/ (q.said \in Stream!Terminals
                               /\ ~(q.said = "error" /\ x.type = "DONE")))
  BY <1>8, <1>11, <1>13, ReadsKeep
<1>16. g.said = "error"
  BY <1>8, <1>11, <1>13, FollowKeeps
<1>17. g.lost = q.lost
  <2>1. "DONE" \in Stream!Terminals
    BY DEF Stream!Terminals
  <2>. QED
    BY <1>8, <1>11, <1>13, <2>1, FollowEnds
<1>18. ~y.lost /\ ~y.skipped /\ ~y.late /\ y.said = "error"
  BY <1>8, <1>11, <1>15, <1>16, <1>17
<1>. QED
  BY <1>12, <1>14, <1>15, <1>18 DEF IsOver

\* The gateway's own failure after the events of a native backend takes the next number.
LEMMA ResumeIs ==
    ASSUME NEW m \in Nat, NEW a \in Adapters(m), a.seq = 0, NEW b, b = Stream!Resume(a, a.next)
    PROVE  b \in Adapters(m) /\ b.started /\ b.seq = a.next /\ b.out = a.out
<1>1. a.next \in Nat
  BY TypedAdapter
<1>2. b = [a EXCEPT !.seq = IF a.next > a.seq THEN a.next ELSE a.seq, !.started = TRUE]
  BY Zenon DEF Stream!Resume
<1>3. PICK n \in Nat : n = (IF a.next > a.seq THEN a.next ELSE a.seq) /\ n = a.next
  BY <1>1
<1>4. b = [a EXCEPT !.seq = n, !.started = TRUE]
  BY <1>2, <1>3
<1>5. b \in Adapters(m) /\ b.started /\ b.seq = n /\ b.out = a.out
  BY <1>4 DEF Adapters
<1>. QED
  BY <1>3, <1>5

\* What FailResponse puts out for an adapter that has started is one frame.
LEMMA FailureIs ==
    ASSUME NEW m \in Nat, NEW a \in Adapters(m), a.started, NEW usage \in Stream!Usages
    PROVE  \E e \in Frames(m) : /\ Stream!FailResponse(a, usage) = Stream!Emit(a, << e >>)
                                /\ e.type = "failed" /\ e.usage = usage
<1>. DEFINE p == Stream!Plain("failed")
            body == Stream!Output(a)
            e == [p EXCEPT !.body = body, !.usage = usage]
<1>1. a.closed \in Seq(Items)
  BY TypedAdapter
<1>2. "failed" \in Types
  BY DEF Types, Stream!Terminals
<1>3. p \in Frames(m) /\ p.type = "failed"
  BY <1>2, PlainIsFrame
<1>4. body \in Bodies
  BY <1>1, BodiesAre
<1>5. Stream!FailResponse(a, usage) = Stream!Emit(a, << e >>)
  <2>1. Stream!StartResponse(a) = a
    BY DEF Stream!StartResponse
  <2>2. Stream!FailResponse(a, usage) = Stream!Terminal(a, "failed", usage)
    BY <2>1, Zenon DEF Stream!FailResponse
  <2>. QED
    BY <2>2, Zenon DEF Stream!Terminal
<1>. HIDE DEF p, body
<1>6. e \in Frames(m) /\ e.type = "failed" /\ e.usage = usage
  BY <1>3, <1>4 DEF Frames, Events, Spoken
<1>. HIDE DEF e
<1>. QED
  BY <1>5, <1>6

\* A failure of the backend keeps StreamInv.
LEMMA FailsKeep == StreamInv /\ Stream!BackendFails => StreamInv'
<1>. SUFFICES ASSUME StreamInv, Stream!BackendFails PROVE StreamInv'
  OBVIOUS
<1>1. /\ Stream!Reading /\ stage' = "failing" /\ outcome' = "error"
      /\ UNCHANGED << surface, reported, final, relayed, row, given, reader >>
  BY DEF Stream!BackendFails
<1>2. PICK a : a = Stream!RenderError
  OBVIOUS
<1>3. frames' = a.out /\ adapter' = Stream!Taken(a)
  BY <1>2 DEF Stream!BackendFails
<1>4. /\ relayed \in Nat /\ adapter \in Adapters(relayed) /\ adapter.out = << >>
      /\ adapter.seq \in Nat /\ adapter.next \in Nat
      /\ Stream!UsageNow \in Stream!Usages
      /\ surface.api \in {"chat", "messages", "responses"}
      /\ surface.api = "chat" => /\ ~surface.native
                                 /\ Feeds(relayed, "chat", reader, adapter, reader)
      /\ ~surface.native /\ surface.api # "chat"
           => Faithful(relayed, surface.api, reader, adapter)
  BY <1>1, AdapterReads
<1>5. /\ reader \in Readers /\ ~reader.lost /\ ~reader.skipped /\ ~reader.late
      /\ surface.native => Expects(surface.api, reader, adapter.next) /\ adapter.seq = 0
      /\ ~surface.native => reader.said = "nothing"
  BY <1>1, ReaderReads
<1>6. PICK u : u = Stream!UsageNow
  OBVIOUS
<1>. DEFINE Goal(said, usage, q) ==
              /\ Leads(surface.api, reader, a.out, q) /\ ~q.lost /\ ~q.skipped
              /\ q.late => surface.native
              /\ q.said = said /\ q.usage = usage
<1>7. /\ a \in Adapters(relayed) /\ (surface.native => Len(a.out) = 1)
      /\ \E said \in {"failed", "error"} : \E usage : \E q :
           Goal(said, usage, q) /\ (said = "failed" => usage = u)
  <2>1. CASE surface.api = "chat"
    <3>1. a = Stream!Emit(adapter, << Stream!Plain("error"), Stream!Plain("DONE") >>)
      BY <1>2, <2>1 DEF Stream!RenderError
    <3>2. a \in Adapters(relayed) /\ \E usage : IsOver("chat", reader, a.out, "error", usage)
      BY <1>4, <2>1, <3>1, ChatIsTold
    <3>. QED
      BY <1>4, <2>1, <3>2 DEF IsOver
  <2>2. CASE surface.api = "messages"
    <3>1. PICK e : e = Stream!Plain("error")
      OBVIOUS
    <3>2. a = Stream!Emit(adapter, << e >>)
      BY <1>2, <2>2, <3>1 DEF Stream!RenderError
    <3>3. e \in Frames(relayed) /\ e.type = "error"
      <4>1. "error" \in Types
        BY DEF Types, Stream!Terminals
      <4>. QED
        BY <1>4, <3>1, <4>1, PlainIsFrame
    <3>4. e.type \in Stream!Terminals \ {"DONE"}
      BY <3>3 DEF Stream!Terminals
    <3>5. Expects("messages", reader, adapter.seq)
      BY DEF Expects
    <3>6. /\ a \in Adapters(relayed) /\ Len(a.out) = 1
          /\ \E q \in Readers : /\ Leads("messages", reader, a.out, q) /\ ~q.lost /\ ~q.skipped
                                /\ q.said = e.type /\ q.usage = e.usage
                                /\ q.late = (reader.late \/ reader.said \in Stream!Terminals)
      BY <1>4, <1>5, <3>2, <3>3, <3>4, <3>5, OneMore
    <3>7. ~surface.native => reader.said \notin Stream!Terminals
      BY <1>5 DEF Stream!Terminals
    <3>. QED
      BY <1>5, <2>2, <3>3, <3>6, <3>7
  <2>3. CASE surface.api = "responses" /\ surface.native
    <3>1. PICK b : b = Stream!Resume(adapter, adapter.next)
      OBVIOUS
    <3>2. a = Stream!FailResponse(b, u)
      BY <1>2, <1>6, <2>3, <3>1 DEF Stream!RenderError
    <3>3. b \in Adapters(relayed) /\ b.started /\ b.seq = adapter.next /\ b.out = << >>
      BY <1>4, <1>5, <2>3, <3>1, ResumeIs
    <3>4. PICK e \in Frames(relayed) : /\ a = Stream!Emit(b, << e >>)
                                       /\ e.type = "failed" /\ e.usage = u
      BY <1>4, <1>6, <3>2, <3>3, FailureIs, SMTT(30)
    <3>5. e.type \in Stream!Terminals \ {"DONE"}
      BY <3>4 DEF Stream!Terminals
    <3>6. Expects("responses", reader, adapter.next)
      BY <1>5, <2>3
    <3>7. /\ a \in Adapters(relayed) /\ Len(a.out) = 1
          /\ \E q \in Readers : /\ Leads("responses", reader, a.out, q) /\ ~q.lost /\ ~q.skipped
                                /\ q.said = e.type /\ q.usage = e.usage
                                /\ q.late = (reader.late \/ reader.said \in Stream!Terminals)
      BY <1>4, <1>5, <3>3, <3>4, <3>5, <3>6, OneMore
    <3>. QED
      BY <2>3, <3>4, <3>7
  <2>4. CASE surface.api = "responses" /\ ~surface.native
    <3>1. a = Stream!FailResponse(adapter, u)
      BY <1>2, <1>6, <2>4 DEF Stream!RenderError
    <3>2. Faithful(relayed, "responses", reader, adapter)
      BY <1>4, <2>4
    <3>3. a \in Adapters(relayed) /\ IsOver("responses", reader, a.out, "failed", u)
      BY <1>4, <1>6, <3>1, <3>2, FailsResponse
    <3>. QED
      BY <2>4, <3>3 DEF IsOver
  <2>. QED
    BY <1>4, <2>1, <2>2, <2>3, <2>4
<1>8. /\ adapter' \in Adapters(relayed) /\ adapter'.out = << >>
      /\ frames' \in Seq(Frames(relayed))
  <2>1. a.out \in Seq(Frames(relayed))
    BY <1>7 DEF Adapters
  <2>2. Stream!Taken(a) \in Adapters(relayed) /\ Stream!Taken(a).out = << >>
    BY <1>4, <1>7, TakenIs
  <2>. QED
    BY <1>3, <2>1, <2>2
<1>9. Ending'
  <2>1. PICK said \in {"failed", "error"} : \E usage : \E q :
           Goal(said, usage, q) /\ (said = "failed" => usage = u)
    BY <1>7
  <2>2. PICK usage, q : Goal(said, usage, q) /\ (said = "failed" => usage = u)
    BY <2>1
  <2>3. Stream!UsageNow' = u
    BY <1>1, <1>6, UsageStays
  <2>. QED
    BY <1>1, <1>3, <2>1, <2>2, <2>3 DEF Ending, Said
<1>10. surface.native => Len(frames') <= 1
  <2>1. ASSUME surface.native PROVE Len(frames') <= 1
    <3>1. PICK n : n = Len(a.out)
      OBVIOUS
    <3>2. n = 1
      BY <1>7, <2>1, <3>1
    <3>3. n <= 1
      BY <3>2
    <3>. QED
      BY <1>3, <3>1, <3>3
  <2>. QED
    BY <2>1
<1>11. stage' # "closing" /\ stage' \in {"closing", "failing"}
  BY <1>1
<1>. QED
  BY <1>1, <1>8, <1>9, <1>10, <1>11, EndsWell

-----------------------------------------------------------------------------
(* An event of a backend that speaks the caller's API.                     *)

NativeKinds == {"created", "item.added", "delta", "item.done", "last", "message_stop"}

\* What the backend sends is a frame that is about its one item of text, or about none.
LEMMA NativeFrameIs ==
    ASSUME NEW m \in Nat, NEW kind \in NativeKinds, kind = "delta" => m > 0,
           given.chunks \in Nat, NEW u \in Stream!Usages, NEW e, e = Stream!NativeEvent(kind, u)
    PROVE  /\ e \in Frames(m)
           /\ kind \in {"item.added", "delta", "item.done"}
                => e.type = kind /\ e.index = 0 /\ e.kind = "text" /\ e.body \in Seq(Nat)
           /\ kind = "item.done" => e.body = << >>
           /\ kind = "last" => e.type = Stream!LastType
           /\ kind \in {"created", "message_stop"} => e.type = kind
<1>1. PICK item : item = Stream!Text
  OBVIOUS
<1>2. item.index = 0 /\ item.kind = "text"
  BY <1>1 DEF Stream!Text
<1>3. item.index \in Nat /\ item.kind \in Kinds
  BY <1>2 DEF Kinds
<1>4. CASE kind = "delta"
  <2>1. PICK body : body = << Stream!Piece >>
    OBVIOUS
  <2>2. body \in Seq(Nat) /\ m > 0
    BY <1>4, <2>1 DEF Stream!Piece
  <2>3. e = Stream!Event("delta", item, body)
    BY <1>1, <1>4, <2>1 DEF Stream!NativeEvent
  <2>4. "delta" \in Types
    BY DEF Types
  <2>5. LET x == Stream!Event("delta", item, body)
        IN  /\ x \in Frames(m) /\ x.type = "delta" /\ x.index = item.index
            /\ x.kind = item.kind /\ x.body = body
    BY <1>3, <2>2, <2>4, EventIsFrame
  <2>. QED
    BY <1>2, <1>4, <2>2, <2>3, <2>5
<1>5. CASE kind \in {"item.added", "item.done"}
  <2>1. PICK body : body = << >>
    OBVIOUS
  <2>2. body \in Seq(Nat)
    BY <2>1
  <2>3. e = Stream!Event(kind, item, body)
    BY <1>1, <1>5, <2>1 DEF Stream!NativeEvent
  <2>4. kind \in Types /\ kind # "delta" /\ kind # "chunk"
    BY <1>5 DEF Types
  <2>5. LET x == Stream!Event(kind, item, body)
        IN  /\ x \in Frames(m) /\ x.type = kind /\ x.index = item.index
            /\ x.kind = item.kind /\ x.body = body
    BY <1>3, <2>2, <2>4, EventIsFrame
  <2>. QED
    BY <1>2, <1>5, <2>1, <2>2, <2>3, <2>5
<1>6. CASE kind = "last"
  <2>. DEFINE p == Stream!Plain(Stream!LastType)
              x == [p EXCEPT !.usage = u]
  <2>1. Stream!LastType \in {"completed", "message_delta"}
    BY DEF Stream!LastType
  <2>2. Stream!LastType \in Types /\ Stream!LastType # "delta" /\ Stream!LastType # "chunk"
    BY <2>1 DEF Types, Stream!Terminals
  <2>3. p \in Frames(m) /\ p.type = Stream!LastType
    BY <2>2, PlainIsFrame
  <2>4. e = x
    BY <1>6, Zenon DEF Stream!NativeEvent
  <2>. HIDE DEF p
  <2>5. x \in Frames(m) /\ x.type = Stream!LastType
    BY <2>2, <2>3 DEF Frames, Events, Spoken
  <2>. HIDE DEF x
  <2>. QED
    BY <1>6, <2>4, <2>5
<1>7. CASE kind \in {"created", "message_stop"}
  <2>1. e = Stream!Plain(kind)
    BY <1>7 DEF Stream!NativeEvent
  <2>2. kind \in Types /\ kind # "delta" /\ kind # "chunk"
    BY <1>7 DEF Types, Stream!Terminals
  <2>3. e \in Frames(m) /\ e.type = kind
    BY <2>1, <2>2, PlainIsFrame
  <2>. QED
    BY <1>7, <2>3
<1>. QED
  BY <1>4, <1>5, <1>6, <1>7 DEF NativeKinds

\* What the backend has reported so far is a report or none.
LEMMA MergedIs ==
    ASSUME NEW kind \in NativeKinds, NEW u \in Stream!Usages, u.given,
           reported \in Stream!Usages, reported.given \/ reported = Stream!None,
           NEW x, x = Stream!Merged(u, kind)
    PROVE  x \in Stream!Usages /\ (x.given \/ x = Stream!None)
<1>1. u.prompt \in Nat /\ u.completion \in Nat
  BY DEF Stream!Usages
<1>2. CASE surface.api = "messages" /\ kind = "created"
  <2>1. x = Stream!Usage(u.prompt, 1)
    BY <1>2 DEF Stream!Merged
  <2>. QED
    BY <1>1, <2>1 DEF Stream!Usage, Stream!Usages
<1>3. CASE surface.api = "messages" /\ kind = "last"
  <2>1. PICK c, g : c = u.completion /\ g = TRUE
    OBVIOUS
  <2>2. x = [reported EXCEPT !.completion = u.completion, !.given = TRUE]
    BY <1>3, Zenon DEF Stream!Merged
  <2>3. x \in Stream!Usages /\ x.given
    BY <1>1, <2>2 DEF Stream!Usages
  <2>. QED
    BY <2>3
<1>4. CASE surface.api = "responses" /\ kind = "last"
  <2>1. x = u
    BY <1>4 DEF Stream!Merged
  <2>. QED
    BY <2>1
<1>5. CASE /\ ~(surface.api = "messages" /\ kind = "created")
           /\ ~(surface.api = "messages" /\ kind = "last")
           /\ ~(surface.api = "responses" /\ kind = "last")
  <2>1. x = reported
    BY <1>5 DEF Stream!Merged
  <2>. QED
    BY <2>1
<1>. QED
  BY <1>2, <1>3, <1>4, <1>5

\* A reader that is told of the end.
LEMMA ReadsEnd ==
    ASSUME NEW m \in Nat, NEW w, NEW r, Clear(r), NEW e \in Frames(m), Expects(w, r, e.seq),
           e.type \in Stream!Terminals
    PROVE  LET y == Reads(w, r, e)
           IN  y \in Readers /\ ~y.lost /\ ~y.skipped /\ ~y.late /\ y.said = e.type
<1>1. PICK f, y : f = Stream!Follow(r, e) /\ y = Reads(w, r, e)
  OBVIOUS
<1>2. /\ r \in Readers /\ ~r.lost /\ ~r.skipped /\ ~r.late /\ r.said = "nothing"
      /\ w = "responses" => e.seq = r.next
  BY DEF Clear, Expects
<1>3. /\ y \in Readers /\ y.lost = f.lost /\ y.said = f.said
      /\ y.skipped = (r.skipped \/ (w = "responses" /\ e.seq # r.next))
      /\ y.late = (r.late \/ (r.said \in Stream!Terminals
                              /\ ~(r.said = "error" /\ e.type = "DONE")))
  BY <1>1, <1>2, ReadsKeep
<1>4. f.lost = r.lost
  BY <1>1, <1>2, FollowEnds
<1>5. f.said = e.type
  <2>1. ~(e.type = "DONE" /\ r.said = "error")
    BY <1>2
  <2>. QED
    BY <1>1, <1>2, <2>1, FollowKeeps
<1>6. r.said \notin Stream!Terminals
  BY <1>2 DEF Stream!Terminals
<1>. QED
  BY <1>1, <1>2, <1>3, <1>4, <1>5, <1>6

\* A reader with one item of text.
LEMMA OneItem ==
    ASSUME NEW x \in Seq(Nat), NEW items, items = << Fresh("text", x) >>,
           NEW e, e.index = 0, e.kind = "text"
    PROVE  /\ items \in Seq(Shapes) /\ Stands(items, e) /\ items[1].whole = x
           /\ \A y \in Seq(Nat) : Put(items, 1, Fresh("text", y)) = << Fresh("text", y) >>
<1>1. "text" \in Kinds
  BY DEF Kinds
<1>2. PICK s : s = Fresh("text", x)
  OBVIOUS
<1>3. s \in Shapes /\ s.kind = "text" /\ s.whole = x /\ s.open
  BY <1>1, <1>2, ShapesAre
<1>4. items = << s >>
  BY <1>2
<1>5. items \in Seq(Shapes) /\ 1 \in DOMAIN items /\ items[1] = s /\ Len(items) = 1
  BY <1>3, <1>4
<1>6. Stands(items, e)
  BY <1>3, <1>5 DEF Stands
<1>7. ASSUME NEW y \in Seq(Nat)
      PROVE  Put(items, 1, Fresh("text", y)) = << Fresh("text", y) >>
  <2>1. PICK t, p : t = Fresh("text", y) /\ p = Put(items, 1, t)
    OBVIOUS
  <2>2. t \in Shapes
    BY <1>1, <2>1, ShapesAre
  <2>3. p \in Seq(Shapes) /\ Len(p) = 1 /\ p[1] = t
    BY <1>5, <2>1, <2>2, PutIs, ZenonT(60)
  <2>4. p = << t >>
    BY <2>3
  <2>. QED
    BY <2>1, <2>4
<1>. QED
  BY <1>3, <1>5, <1>6, <1>7

\* The backend's next event leads a reader that has followed it so far on.
LEMMA NativeReads ==
    ASSUME NEW m \in Nat, NEW w \in {"messages", "responses"}, NEW r, Theirs(theirs, w, r),
           NEW n \in Nat, Expects(w, r, n),
           w = surface.api, NEW kind \in Stream!NextOfTheirs, kind = "delta" => m > 0,
           given.chunks \in Nat, NEW u \in Stream!Usages,
           NEW e, e = Number(Stream!NativeEvent(kind, u), n),
           NEW y, y = Reads(w, r, e)
    PROVE  e \in Frames(m) /\ Theirs(kind, w, y) /\ Expects(w, y, n + 1)
<1>1. /\ kind \in NativeKinds
      /\ kind = "created" => theirs = "nothing"
      /\ kind = "item.added" => theirs = "created"
      /\ kind \in {"delta", "item.done"} => theirs \in {"item.added", "delta"}
      /\ kind = "message_stop" => w = "messages" /\ theirs = "last"
      /\ theirs # "message_stop" /\ (theirs = "last" => w = "messages")
  BY DEF Stream!NextOfTheirs, NativeKinds, Theirs
<1>2. Clear(r)
  BY <1>1 DEF Theirs, Clear
<1>3. PICK d : d = Stream!NativeEvent(kind, u)
  OBVIOUS
<1>4. /\ d \in Frames(m)
      /\ kind \in {"item.added", "delta", "item.done"}
           => d.type = kind /\ d.index = 0 /\ d.kind = "text" /\ d.body \in Seq(Nat)
      /\ kind = "item.done" => d.body = << >>
      /\ kind = "last" => d.type = Stream!LastType
      /\ kind \in {"created", "message_stop"} => d.type = kind
  BY <1>1, <1>3, NativeFrameIs
<1>5. /\ e \in Frames(m) /\ e.type = d.type /\ e.index = d.index /\ e.kind = d.kind
      /\ e.body = d.body /\ e.seq = n
  BY <1>3, <1>4, NumberIs, ZenonT(60)
<1>6. r \in Readers /\ r.items \in Seq(Shapes) /\ ~r.lost /\ Expects(w, r, e.seq)
  <2>1. r \in Readers /\ ~r.lost
    BY <1>2 DEF Clear
  <2>. QED
    BY <1>5, <2>1 DEF Readers
<1>7. Expects(w, y, n + 1)
  <2>1. Reads(w, r, e).next = e.seq + 1
    BY <1>5, <1>6, ReadsKeep
  <2>. QED
    BY <1>5, <2>1 DEF Expects
<1>8. PICK f : f = Stream!Follow(r, e)
  OBVIOUS
<1>9. ASSUME e.type \notin Stream!Terminals, ~f.lost
      PROVE  Clear(y) /\ y.items = f.items
  BY <1>2, <1>5, <1>6, <1>8, <1>9, ReadsOn
<1>10. CASE kind = "created"
  <2>1. e.type = "created"
    BY <1>4, <1>5, <1>10
  <2>2. f = r /\ e.type \notin Stream!Terminals
    BY <1>8, <2>1, FollowInner DEF Stream!Terminals
  <2>3. Clear(y) /\ y.items = r.items
    BY <1>6, <1>9, <2>2
  <2>4. r.items = << >>
    BY <1>1, <1>10 DEF Theirs
  <2>5. Theirs(kind, w, y)
    BY <1>10, <2>3, <2>4 DEF Theirs, Clear
  <2>. QED
    BY <1>5, <1>7, <2>5
<1>11. CASE kind = "item.added"
  <2>1. e.type = "item.added" /\ e.index = 0 /\ e.kind = "text"
    BY <1>4, <1>5, <1>11
  <2>2. r.items = << >>
    BY <1>1, <1>11 DEF Theirs
  <2>3. e.index = Len(r.items)
    BY <2>1, <2>2
  <2>4. ~f.lost /\ f.items = Append(r.items, Fresh(e.kind, << >>))
    BY <1>5, <1>6, <1>8, <2>1, <2>3, FollowAdded
  <2>5. e.type \notin Stream!Terminals
    BY <2>1 DEF Stream!Terminals
  <2>6. Clear(y) /\ y.items = f.items
    BY <1>9, <2>4, <2>5
  <2>7. y.items = << Fresh("text", << >>) >>
    BY <2>1, <2>2, <2>4, <2>6
  <2>8. \E x \in Seq(Nat) : y.items = << Fresh("text", x) >>
    <3>1. << >> \in Seq(Nat)
      OBVIOUS
    <3>. QED
      BY <2>7, <3>1
  <2>9. Theirs(kind, w, y)
    BY <1>11, <2>6, <2>8 DEF Theirs, Clear
  <2>. QED
    BY <1>5, <1>7, <2>9
<1>12. ASSUME kind \in {"delta", "item.done"}
       PROVE  \E x \in Seq(Nat) : r.items = << Fresh("text", x) >>
  BY <1>1, <1>12 DEF Theirs
<1>13. CASE kind = "delta"
  <2>1. e.type = "delta" /\ e.index = 0 /\ e.kind = "text" /\ e.body \in Seq(Nat)
    BY <1>4, <1>5, <1>13
  <2>2. PICK x \in Seq(Nat) : r.items = << Fresh("text", x) >>
    BY <1>12, <1>13
  <2>3. PICK items : items = r.items
    OBVIOUS
  <2>4. /\ Stands(items, e) /\ items[1].whole = x
        /\ \A z \in Seq(Nat) : Put(items, 1, Fresh("text", z)) = << Fresh("text", z) >>
    BY <2>1, <2>2, <2>3, OneItem
  <2>5. PICK k : k = e.index + 1
    OBVIOUS
  <2>6. k = 1
    BY <2>1, <2>5
  <2>7. ~f.lost /\ f.items = Put(r.items, k, Fresh(e.kind, r.items[k].whole \o e.body))
    BY <1>5, <1>6, <1>8, <2>1, <2>3, <2>4, <2>5, FollowDelta
  <2>8. x \o e.body \in Seq(Nat)
    BY <2>1
  <2>9. f.items = << Fresh("text", x \o e.body) >>
    BY <2>1, <2>3, <2>4, <2>6, <2>7, <2>8
  <2>10. e.type \notin Stream!Terminals
    BY <2>1 DEF Stream!Terminals
  <2>11. Clear(y) /\ y.items = f.items
    BY <1>9, <2>7, <2>10
  <2>12. Theirs(kind, w, y)
    BY <1>13, <2>8, <2>9, <2>11 DEF Theirs, Clear
  <2>. QED
    BY <1>5, <1>7, <2>12
<1>14. CASE kind = "item.done"
  <2>1. e.type = "item.done" /\ e.index = 0 /\ e.kind = "text" /\ e.body = << >>
    BY <1>4, <1>5, <1>14
  <2>2. PICK x \in Seq(Nat) : r.items = << Fresh("text", x) >>
    BY <1>12, <1>14
  <2>3. PICK items : items = r.items
    OBVIOUS
  <2>4. Stands(items, e)
    BY <2>1, <2>2, <2>3, OneItem
  <2>5. PICK k : k = e.index + 1
    OBVIOUS
  <2>6. e.body \in {<< >>, r.items[k].whole}
    BY <2>1
  <2>7. ~f.lost
    BY <1>5, <1>6, <1>8, <2>1, <2>3, <2>4, <2>5, <2>6, FollowDone
  <2>8. e.type \notin Stream!Terminals
    BY <2>1 DEF Stream!Terminals
  <2>9. Clear(y)
    BY <1>9, <2>7, <2>8
  <2>10. Theirs(kind, w, y)
    BY <1>14, <2>9 DEF Theirs, Clear
  <2>. QED
    BY <1>5, <1>7, <2>10
<1>15. CASE kind = "last" /\ w = "messages"
  <2>1. e.type = "message_delta"
    BY <1>4, <1>5, <1>15 DEF Stream!LastType
  <2>2. f = r /\ e.type \notin Stream!Terminals
    BY <1>8, <2>1, FollowInner DEF Stream!Terminals
  <2>3. Clear(y)
    BY <1>6, <1>9, <2>2
  <2>4. Theirs(kind, w, y)
    BY <1>15, <2>3 DEF Theirs, Clear
  <2>. QED
    BY <1>5, <1>7, <2>4
<1>16. CASE kind = "last" /\ w = "responses"
  <2>1. e.type = "completed"
    BY <1>4, <1>5, <1>16 DEF Stream!LastType
  <2>2. e.type \in Stream!Terminals
    BY <2>1 DEF Stream!Terminals
  <2>3. y \in Readers /\ ~y.lost /\ ~y.skipped /\ ~y.late /\ y.said = e.type
    BY <1>2, <1>5, <1>6, <2>2, ReadsEnd
  <2>4. Theirs(kind, w, y)
    BY <1>16, <2>1, <2>3 DEF Theirs
  <2>. QED
    BY <1>5, <1>7, <2>4
<1>17. CASE kind = "message_stop"
  <2>1. e.type = "message_stop"
    BY <1>4, <1>5, <1>17
  <2>2. e.type \in Stream!Terminals
    BY <2>1 DEF Stream!Terminals
  <2>3. y \in Readers /\ ~y.lost /\ ~y.skipped /\ ~y.late /\ y.said = e.type
    BY <1>2, <1>5, <1>6, <2>2, ReadsEnd
  <2>4. Theirs(kind, w, y)
    BY <1>17, <2>1, <2>3 DEF Theirs
  <2>. QED
    BY <1>5, <1>7, <2>4
<1>. QED
  BY <1>1, <1>10, <1>11, <1>13, <1>14, <1>15, <1>16, <1>17 DEF NativeKinds

\* An event that is passed on as it came keeps StreamInv.
LEMMA NativeKeeps == StreamInv /\ Stream!NativeChunk => StreamInv'
<1>. SUFFICES ASSUME StreamInv, Stream!NativeChunk PROVE StreamInv'
  OBVIOUS
<1>1. /\ surface.native /\ Stream!Reading
      /\ UNCHANGED << surface, stage, outcome, row, reader >>
  BY DEF Stream!NativeChunk
<1>2. PICK kind \in Stream!NextOfTheirs, u \in Totals :
        /\ theirs' = kind
        /\ reported' = Stream!Merged(u, kind)
        /\ final' = (final \/ kind = "last")
        /\ relayed' = IF kind = "delta" THEN relayed + 1 ELSE relayed
        /\ frames' = << [Stream!NativeEvent(kind, u) EXCEPT !.seq = adapter.next] >>
        /\ adapter' = [adapter EXCEPT !.next = @ + 1]
        /\ given' = [given EXCEPT !.chunks = @ + 1,
                                  !.text = IF kind = "delta" THEN Append(@, Stream!Piece) ELSE @,
                                  !.usage = Stream!Merged(u, kind)]
  BY Zenon DEF Stream!NativeChunk
<1>3. /\ surface.api \in {"messages", "responses"} /\ u \in Stream!Usages /\ u.given
  <2>1. u \in Stream!Usages /\ u.given
    BY <1>2, StreamsAssumption DEF Stream!StreamsKnown
  <2>2. surface.api \in {"messages", "responses"}
    BY <1>1, StreamsAssumption DEF StreamInv, Basics, Stream!StreamsKnown
  <2>. QED
    BY <2>1, <2>2
<1>4. /\ relayed \in Nat /\ given.chunks \in Nat /\ {"chunks", "usage"} \subseteq DOMAIN given
      /\ surface \in Surfaces
      /\ reported \in Stream!Usages /\ (reported.given \/ reported = Stream!None)
      /\ final \in BOOLEAN
      /\ adapter \in Adapters(relayed) /\ adapter.out = << >>
  BY DEF StreamInv, Basics, Shapely
<1>5. /\ reader \in Readers
      /\ Theirs(theirs, surface.api, reader)
      /\ Expects(surface.api, reader, adapter.next) /\ adapter.seq = 0
  BY <1>1, ReaderReads
<1>6. /\ relayed' \in Nat /\ relayed <= relayed' /\ (kind = "delta" => relayed' > 0)
  <2>1. PICK m \in Nat : m = relayed
    BY <1>4
  <2>2. CASE kind = "delta"
    BY <1>2, <2>1, <2>2
  <2>3. CASE kind # "delta"
    BY <1>2, <2>1, <2>3
  <2>. QED
    BY <2>2, <2>3
<1>7. kind \in NativeKinds
  BY <1>2 DEF Stream!NextOfTheirs, NativeKinds
<1>8. Basics'
  <2>1. PICK x : x = Stream!Merged(u, kind)
    OBVIOUS
  <2>2. x \in Stream!Usages /\ (x.given \/ x = Stream!None)
    BY <1>3, <1>4, <1>7, <2>1, MergedIs
  <2>3. PICK t :
          given' = [given EXCEPT !.chunks = given.chunks + 1, !.text = t, !.usage = x]
    <3>1. given' = [given EXCEPT !.chunks = given.chunks + 1,
                                 !.text = IF kind = "delta" THEN Append(given.text, Stream!Piece)
                                                            ELSE given.text,
                                 !.usage = x]
      BY <1>2, <2>1, Zenon
    <3>. QED
      BY <3>1, Zenon
  <2>4. given'.chunks = given.chunks + 1 /\ given'.usage = x /\ DOMAIN given' = DOMAIN given
    BY <1>4, <2>3
  <2>5. given'.chunks \in Nat
    BY <1>4, <2>4
  <2>6. reported' = x /\ final' \in BOOLEAN
    BY <1>2, <2>1
  <2>7. surface' = surface /\ surface.native
    BY <1>1
  <2>. QED
    BY <1>4, <1>6, <2>2, <2>4, <2>5, <2>6, <2>7 DEF Basics
<1>9. /\ adapter' \in Adapters(relayed') /\ adapter'.out = << >> /\ adapter'.seq = 0
      /\ adapter'.next = adapter.next + 1
  <2>1. adapter \in Adapters(relayed')
    BY <1>4, <1>6, Widens
  <2>2. adapter.next \in Nat
    BY <1>4, TypedAdapter
  <2>3. PICK n \in Nat : n = adapter.next + 1
    BY <2>2
  <2>4. PICK m : m = relayed'
    OBVIOUS
  <2>5. adapter' = [adapter EXCEPT !.next = n]
    BY <1>2, <2>3
  <2>6. /\ adapter' \in Adapters(m) /\ adapter'.out = adapter.out /\ adapter'.seq = adapter.seq
        /\ adapter'.next = n
    BY <2>1, <2>4, <2>5 DEF Adapters
  <2>. QED
    BY <1>4, <1>5, <2>3, <2>4, <2>6
<1>10. PICK w, r, n, m : /\ w = surface.api /\ r = reader /\ n = adapter.next /\ m = relayed'
  OBVIOUS
<1>11. PICK e : e = Number(Stream!NativeEvent(kind, u), n)
  OBVIOUS
<1>12. PICK y : y = Reads(w, r, e)
  OBVIOUS
<1>13. frames' = << e >>
  BY <1>2, <1>10, <1>11, Zenon DEF Number
<1>14. e \in Frames(m) /\ Theirs(kind, w, y) /\ Expects(w, y, n + 1)
  <2>1. n \in Nat
    BY <1>4, <1>10, TypedAdapter
  <2>2. Theirs(theirs, w, r) /\ Expects(w, r, n) /\ w \in {"messages", "responses"}
    BY <1>3, <1>5, <1>10
  <2>3. m \in Nat /\ (kind = "delta" => m > 0)
    BY <1>6, <1>10
  <2>. QED
    BY <1>2, <1>3, <1>4, <1>10, <1>11, <1>12, <2>1, <2>2, <2>3, NativeReads
<1>15. frames' \in Seq(Frames(relayed'))
  <2>1. << e >> \in Seq(Frames(m))
    BY <1>14
  <2>. QED
    BY <1>10, <1>13, <2>1
<1>16. Leads(w, r, << e >>, y)
  <2>1. Leads(w, r, << >>, r) /\ << >> \in Seq(Frames(m))
    BY <1>5, <1>10, LeadsNowhere
  <2>2. m \in Nat
    BY <1>6, <1>10
  <2>3. Leads(w, r, Append(<< >>, e), Reads(w, r, e))
    BY <1>14, <2>1, <2>2, LeadsOn
  <2>4. Append(<< >>, e) = << e >>
    OBVIOUS
  <2>. QED
    BY <1>12, <2>3, <2>4
<1>17. Reaching'
  <2>1. surface'.native /\ surface'.api = w /\ reader' = r /\ theirs' = kind
    BY <1>1, <1>2, <1>10
  <2>2. Passing'
    BY <1>9, <1>10, <1>13, <1>14, <1>16, <2>1 DEF Passing
  <2>. QED
    BY <2>1, <2>2 DEF Reaching
<1>. QED
  BY <1>1, <1>6, <1>8, <1>9, <1>15, <1>17, Onward

\* Every step keeps StreamInv.
LEMMA StreamGoesOn == StreamInv /\ [NextBoth]_all => StreamInv'
<1>. SUFFICES ASSUME StreamInv, [NextBoth]_all PROVE StreamInv'
  OBVIOUS
<1>1. Stream!Next \/ UNCHANGED relay
  BY DEF NextBoth, all
<1>2. CASE UNCHANGED relay
  BY <1>2, StillKeeps
<1>3. CASE Stream!Next
  BY <1>3, TranslatedKeeps, ChatKeeps, NativeKeeps, EndsKeep, FailsKeep, HandOverKeeps,
     LeavingKeeps, DrainedKeeps, FinalizingKeeps DEF Stream!Next
<1>. QED
  BY <1>1, <1>2, <1>3

\* What the reader has, what is on its way to it and what is charged agree in
\* every reachable state, whatever the chunks, their number and the surface.
THEOREM StreamHolds == SpecBoth => []StreamInv
<1>1. InitBoth => StreamInv
  BY StreamBegins
<1>2. StreamInv /\ [NextBoth]_all => StreamInv'
  BY StreamGoesOn
<1>. QED
  BY <1>1, <1>2, PTL DEF SpecBoth

\* The reader of every stream can follow it to its end.
THEOREM StreamReadable == SpecBoth => []StreamIsReadable
<1>1. StreamInv => StreamIsReadable
  <2>. SUFFICES ASSUME StreamInv PROVE StreamIsReadable
    OBVIOUS
  <2>1. Stream!TypeOK
    <3>1. Stream!UsageNow # Stream!None
      BY UsageIs DEF StreamInv
    <3>2. (row # Stream!None) = (stage = "done")
      BY <3>1 DEF StreamInv, Phases
    <3>. QED
      BY <3>2 DEF Stream!TypeOK, StreamInv, Basics, Shapely, Phases
  <2>2. Stream!NeverLost /\ Stream!NumbersFollow /\ Stream!NothingAfterTheEnd
    BY DEF Stream!NeverLost, Stream!NumbersFollow, Stream!NothingAfterTheEnd, StreamInv, Kept
  <2>. QED
    BY <2>1, <2>2 DEF StreamIsReadable, Stream!StreamIsReadable
<1>. QED
  BY <1>1, StreamHolds, PTL

\* What a stream is charged is what its reader was told and what the backend sent.
THEOREM BillTrue == SpecBoth => []BillIsTrue
<1>1. StreamInv => BillIsTrue
  <2>. SUFFICES ASSUME StreamInv PROVE BillIsTrue
    OBVIOUS
  <2>1. stage = "done" => row = Stream!UsageNow
    BY DEF StreamInv, Phases
  <2>2. /\ relayed > 0 => Stream!UsageNow.completion > 0
        /\ given.usage.completion > 0 /\ final
             => Stream!UsageNow.completion = given.usage.completion
        /\ ~final => Stream!UsageNow.completion = relayed
    BY UsageIs DEF StreamInv
  <2>3. Told(reader) /\ (Heard(reader.items) => relayed > 0)
    BY DEF StreamInv, Kept, Shapely
  <2>4. Stream!ShownIsCharged
    BY <2>1, <2>3 DEF Stream!ShownIsCharged, Told, Stream!Translates
  <2>5. Stream!OutputIsNeverFree
    BY <2>1, <2>2, <2>3 DEF Stream!OutputIsNeverFree, Stream!Shown, Heard
  <2>6. Stream!EndsAsRecorded
    BY <2>3 DEF Stream!EndsAsRecorded, Told, StreamInv, Phases, Stream!Translates
  <2>. QED
    BY <2>4, <2>5, <2>6 DEF BillIsTrue, Stream!BillIsTrue
<1>. QED
  BY <1>1, StreamHolds, PTL

=============================================================================
