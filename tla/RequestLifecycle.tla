-------------------------- MODULE RequestLifecycle --------------------------
(***************************************************************************)
(* One admitted request from its first attempt to its usage row: take_slot,*)
(* complete, open_stream, open_stream_for and relay of app/api/lifecycle.py*)
(* over _RequestContext of app/api/openai.py (another_endpoint, retarget,  *)
(* finalize, _record_usage).                                               *)
(*                                                                         *)
(* What decides a slot (InFlight) and what select() prefers among several  *)
(* endpoints is left open here: acquire grants or refuses, and select      *)
(* returns any endpoint it may return, or none.                            *)
(***************************************************************************)
EXTENDS Naturals, FiniteSets, Sequences

CONSTANTS
    Requests,
    Streams,       \* the requests that asked for a stream
    Models,        \* the aliases of the registry
    Endpoints,     \* their endpoints
    NoEndpoint,
    EndpointsOf,   \* [Models -> SUBSET Endpoints]
    Fallback,      \* [Models -> Seq(Models)]: routing.fallback that can take the request
    MaxPending,    \* MAX_PENDING_FINALIZERS
    Faults         \* a subset of FaultKinds

\* plan() raises on the model a request fell back to; the task that sends the
\* response is cancelled before the body's generator has run at all.
FaultKinds == {"plan", "unclaimed"}

ASSUME LifecycleAssumption ==
    /\ Streams \subseteq Requests
    /\ NoEndpoint \notin Endpoints
    /\ EndpointsOf \in [Models -> SUBSET Endpoints]
    /\ \A m, n \in Models : m # n => EndpointsOf[m] \cap EndpointsOf[n] = {}
    /\ Fallback \in [Models -> Seq(Models)]
    /\ \A m \in Models : \A i \in DOMAIN Fallback[m] : Fallback[m][i] # m
    /\ MaxPending \in Nat \ {0}
    /\ Faults \subseteq FaultKinds

VARIABLES
    pc,         \* where the request is
    target,     \* model, endpoint, tried and exhausted of _RequestContext
    held,       \* the endpoint on which the request holds a slot
    retry,      \* the verdict on the attempt that just failed
    status,     \* of relay and of a finished answer: what the row will say
    opened,     \* open_stream has handed the stream over
    finalized,  \* _RequestContext._finalized
    pending,    \* _PENDING: the tasks that record usage
    rows,       \* the usage rows of each request
    quota,      \* what became of the place admit() reserved
    dropped,    \* requests whose record the full backlog refused
    sent        \* how often each endpoint was sent the request

vars == <<pc, target, held, retry, status, opened,
          finalized, pending, rows, quota, dropped, sent>>

Attempts == <<target, held, retry, status, opened, sent>>
Records  == <<finalized, pending, rows, quota, dropped>>

Statuses == {"success", "error", "aborted"}

Targets == [model : Models, endpoint : Endpoints,
            tried : SUBSET Endpoints, exhausted : SUBSET Models]

Tasks == [req : Requests, status : Statuses, charge : BOOLEAN, at : {"row", "quota"}]

TypeOK ==
    /\ pc \in [Requests -> {"booking", "calling", "releasing", "opened", "relaying",
                            "closing", "hungup", "recording", "over",
                            "unplanned", "unclaimed"}]
    /\ target \in [Requests -> Targets]
    /\ held \in [Requests -> Endpoints \cup {NoEndpoint}]
    /\ retry \in [Requests -> BOOLEAN]
    /\ status \in [Requests -> Statuses]
    /\ opened \in [Requests -> BOOLEAN]
    /\ finalized \in [Requests -> BOOLEAN]
    /\ pending \subseteq Tasks /\ IsFiniteSet(pending) /\ Cardinality(pending) <= MaxPending
    /\ rows \in [Requests -> Seq(Statuses)]
    /\ quota \in [Requests -> Seq({"charged", "returned"})]
    /\ dropped \subseteq Requests
    /\ sent \in [Requests -> [Endpoints -> Nat]]
    /\ \A r \in Requests : target[r].endpoint \in EndpointsOf[target[r].model]

\* select_or_fall_back chose a model and an endpoint of it; admit() reserved a place.
Init ==
    /\ pc = [r \in Requests |-> "booking"]
    /\ target \in [Requests -> {t \in Targets : /\ t.endpoint \in EndpointsOf[t.model]
                                                /\ t.tried = {} /\ t.exhausted = {}}]
    /\ held = [r \in Requests |-> NoEndpoint]
    /\ retry = [r \in Requests |-> FALSE]
    /\ status = [r \in Requests |-> "success"]
    /\ opened = [r \in Requests |-> FALSE]
    /\ finalized = [r \in Requests |-> FALSE]
    /\ pending = {}
    /\ rows = [r \in Requests |-> <<>>]
    /\ quota = [r \in Requests |-> <<>>]
    /\ dropped = {}
    /\ sent = [r \in Requests |-> [e \in Endpoints |-> 0]]

-----------------------------------------------------------------------------
(***************************************************************************)
(* another_endpoint: an endpoint of this model not tried yet, or one of    *)
(* the first fallback model that has one.  select() may return nothing     *)
(* although an endpoint is left: it is full.                               *)
(***************************************************************************)
Tried(t) == t.tried \cup {t.endpoint}

SameModel(t) ==
    {[t EXCEPT !.endpoint = e, !.tried = Tried(t)] : e \in EndpointsOf[t.model] \ Tried(t)}

\* The fallback models that are looked at before the i-th one, in order.
Before(t, i) == {Fallback[t.model][j] : j \in 1..(i - 1)}

OtherModel(t) ==
    UNION {{[model |-> Fallback[t.model][i], endpoint |-> e, tried |-> {},
             exhausted |-> t.exhausted \cup Before(t, i) \cup {t.model}] :
                e \in EndpointsOf[Fallback[t.model][i]]} :
           i \in {k \in DOMAIN Fallback[t.model] :
                    Fallback[t.model][k] \notin t.exhausted \cup Before(t, k)}}

\* A plausible bug: the endpoint that just failed is not added to `tried`.
ElsewhereForgets(t) ==
    {[t EXCEPT !.endpoint = e] : e \in EndpointsOf[t.model] \ t.tried} \cup OtherModel(t)

\* A plausible bug: the model that is left is not added to `exhausted`.
ElsewhereInCircles(t) ==
    SameModel(t) \cup {[u EXCEPT !.exhausted = t.exhausted] : u \in OtherModel(t)}

Elsewhere(t) == SameModel(t) \cup OtherModel(t)

\* A plausible bug: nothing makes "exactly once" true.
FinalizeAgain(r, s, charge) ==
    /\ finalized' = [finalized EXCEPT ![r] = TRUE]
    /\ IF Cardinality(pending) >= MaxPending
       THEN /\ dropped' = dropped \cup {r}
            /\ pc' = [pc EXCEPT ![r] = "over"]
            /\ pending' = pending
       ELSE /\ pending' = pending \cup
                    {[req |-> r, status |-> s, charge |-> charge, at |-> "row"]}
            /\ pc' = [pc EXCEPT ![r] = "recording"]
            /\ dropped' = dropped
    /\ UNCHANGED <<rows, quota>>

(***************************************************************************)
(* finalize: once per request; the record is a task of its own, refused    *)
(* only by a full backlog, and its caller waits for it, shielded.          *)
(***************************************************************************)
Finalize(r, s, charge) ==
    /\ finalized' = [finalized EXCEPT ![r] = TRUE]
    /\ IF finalized[r] \/ Cardinality(pending) >= MaxPending
       THEN /\ dropped' = IF finalized[r] THEN dropped ELSE dropped \cup {r}
            /\ pc' = [pc EXCEPT ![r] = "over"]
            /\ pending' = pending
       ELSE /\ pending' = pending \cup
                    {[req |-> r, status |-> s, charge |-> charge, at |-> "row"]}
            /\ pc' = [pc EXCEPT ![r] = "recording"]
            /\ dropped' = dropped
    /\ UNCHANGED <<rows, quota>>

\* take_slot: the slot is granted and the endpoint is sent the request at once.
Granted(r) ==
    LET e == target[r].endpoint IN
    /\ pc[r] = "booking"
    /\ pc' = [pc EXCEPT ![r] = "calling"]
    /\ held' = [held EXCEPT ![r] = e]
    /\ sent' = [sent EXCEPT ![r][e] = @ + 1]
    /\ UNCHANGED <<target, retry, status, opened, Records>>

\* take_slot: full here, on to another endpoint.
FullElsewhere(r) ==
    /\ pc[r] = "booking"
    /\ \E t \in Elsewhere(target[r]) : target' = [target EXCEPT ![r] = t]
    /\ UNCHANGED <<pc, held, retry, status, opened, sent, Records>>

\* take_slot: full here and nothing else to try; the place is given back.
Refused(r) ==
    /\ pc[r] = "booking"
    /\ Finalize(r, "error", FALSE)
    /\ UNCHANGED Attempts

\* plan() refuses the model the request fell back to: `n` choices do not fit in its
\* max_output_tokens.  The call stands before the try of complete and open_stream.
PlanRaises(r) ==
    /\ "plan" \in Faults
    /\ pc[r] = "booking" /\ target[r].exhausted # {} /\ target[r].tried = {}
    /\ pc' = [pc EXCEPT ![r] = "unplanned"]
    /\ UNCHANGED <<Attempts, Records>>

\* The attempt fails - HTTP error, no connection, timeout, error object in a 200 -
\* and its slot goes back, whatever the error.
Fails(r) ==
    /\ pc[r] = "calling"
    /\ pc' = [pc EXCEPT ![r] = "releasing"]
    /\ held' = [held EXCEPT ![r] = NoEndpoint]
    /\ \E again \in BOOLEAN : retry' = [retry EXCEPT ![r] = again]
    /\ UNCHANGED <<target, status, opened, sent, Records>>

TryElsewhere(r) ==
    /\ pc[r] = "releasing" /\ retry[r]
    /\ \E t \in Elsewhere(target[r]) : target' = [target EXCEPT ![r] = t]
    /\ pc' = [pc EXCEPT ![r] = "booking"]
    /\ UNCHANGED <<held, retry, status, opened, sent, Records>>

\* _record_failure, then the error reaches the caller.
GiveUp(r) ==
    /\ pc[r] = "releasing"
    /\ Finalize(r, "error", TRUE)
    /\ UNCHANGED Attempts

\* complete: a usable answer, and the slot goes back before it is returned.
Answered(r) ==
    /\ pc[r] = "calling" /\ r \notin Streams
    /\ pc' = [pc EXCEPT ![r] = "closing"]
    /\ status' = [status EXCEPT ![r] = "success"]
    /\ held' = [held EXCEPT ![r] = NoEndpoint]
    /\ UNCHANGED <<target, retry, opened, sent, Records>>

\* open_stream: the first payload is there, the slot stays with the stream.
Opens(r) ==
    /\ pc[r] = "calling" /\ r \in Streams
    /\ pc' = [pc EXCEPT ![r] = "opened"]
    /\ opened' = [opened EXCEPT ![r] = TRUE]
    /\ UNCHANGED <<target, held, retry, status, sent, Records>>

(***************************************************************************)
(* open_stream_for: the caller hangs up while the stream is being opened.  *)
(* The opening task is cancelled at the await it stands at: acquire gives  *)
(* its lease back, the finally of open_stream gives the slot back, a record*)
(* that has started goes on.                                               *)
(***************************************************************************)
HangUp(r) ==
    /\ r \in Streams /\ ~opened[r]
    /\ pc[r] \in {"booking", "calling", "releasing", "recording"}
    /\ pc' = [pc EXCEPT ![r] = "hungup"]
    /\ held' = [held EXCEPT ![r] = NoEndpoint]
    /\ UNCHANGED <<target, retry, status, opened, sent, Records>>

\* ... and the handler finalizes.
Abort(r) ==
    /\ pc[r] = "hungup"
    /\ Finalize(r, "aborted", TRUE)
    /\ UNCHANGED Attempts

\* The first step of relay's generator.
Starts(r) ==
    /\ pc[r] = "opened"
    /\ pc' = [pc EXCEPT ![r] = "relaying"]
    /\ UNCHANGED <<Attempts, Records>>

\* A generator that never ran has no finally to run.
Unclaimed(r) ==
    /\ "unclaimed" \in Faults
    /\ pc[r] = "opened"
    /\ pc' = [pc EXCEPT ![r] = "unclaimed"]
    /\ UNCHANGED <<Attempts, Records>>

\* A plausible bug: a backend that breaks in the middle of the stream is replaced by another.
RelayStartsOver(r) ==
    /\ pc[r] = "relaying"
    /\ \E t \in Elsewhere(target[r]) : target' = [target EXCEPT ![r] = t]
    /\ pc' = [pc EXCEPT ![r] = "booking"]
    /\ held' = [held EXCEPT ![r] = NoEndpoint]
    /\ UNCHANGED <<retry, status, opened, sent, Records>>

\* relay: the stream ends, breaks, or loses its reader; aclose gives the slot back.
RelayEnds(r) ==
    /\ pc[r] = "relaying"
    /\ pc' = [pc EXCEPT ![r] = "closing"]
    /\ \E s \in Statuses : status' = [status EXCEPT ![r] = s]
    /\ held' = [held EXCEPT ![r] = NoEndpoint]
    /\ UNCHANGED <<target, retry, opened, sent, Records>>

Close(r) ==
    /\ pc[r] = "closing"
    /\ Finalize(r, status[r], TRUE)
    /\ UNCHANGED Attempts

\* The caller of finalize goes on: its task is done, or it was cancelled itself.
Return(r) ==
    /\ pc[r] = "recording"
    /\ (\A t \in pending : t.req # r) \/ opened[r]
    /\ pc' = [pc EXCEPT ![r] = "over"]
    /\ UNCHANGED <<Attempts, Records>>

\* _record_usage: the row first ...
WriteRow(t) ==
    /\ t \in pending /\ t.at = "row"
    /\ rows' = [rows EXCEPT ![t.req] = Append(@, t.status)]
    /\ pending' = (pending \ {t}) \cup {[t EXCEPT !.at = "quota"]}
    /\ UNCHANGED <<pc, Attempts, finalized, quota, dropped>>

\* ... then the quota: record() charges, release() gives the reserved place back.
SettleQuota(t) ==
    /\ t \in pending /\ t.at = "quota"
    /\ quota' = [quota EXCEPT ![t.req] = Append(@, IF t.charge THEN "charged" ELSE "returned")]
    /\ pending' = pending \ {t}
    /\ UNCHANGED <<pc, Attempts, finalized, rows, dropped>>

Progress(r) ==
    \/ Granted(r) \/ FullElsewhere(r) \/ Refused(r)
    \/ Fails(r) \/ TryElsewhere(r) \/ GiveUp(r) \/ Answered(r) \/ Opens(r)
    \/ Abort(r) \/ Starts(r) \/ RelayEnds(r) \/ Close(r) \/ Return(r)

Recording == \E t \in pending : WriteRow(t) \/ SettleQuota(t)

Ended == {"over", "unplanned", "unclaimed"}

Terminated == (\A r \in Requests : pc[r] \in Ended) /\ pending = {} /\ UNCHANGED vars

Next ==
    \/ \E r \in Requests : Progress(r) \/ PlanRaises(r) \/ HangUp(r) \/ Unclaimed(r)
    \/ Recording
    \/ Terminated

Spec == Init /\ [][Next]_vars

(***************************************************************************)
(* Every await of the path ends: acquire and the backend call have an      *)
(* answer, an error or a timeout, a stream ends with its max_tokens, and   *)
(* the event loop runs what is ready.  Hanging up is nobody's duty.        *)
(***************************************************************************)
FairSpec ==
    /\ Spec
    /\ \A r \in Requests : WF_vars(Progress(r))
    /\ WF_vars(Recording)

-----------------------------------------------------------------------------

Settled(r) == pc[r] \in Ended /\ \A t \in pending : t.req # r

(***************************************************************************)
(* "Record usage + quota consumption exactly once per request" (finalize), *)
(* at most: whatever path a request takes through attempts, failures and a *)
(* caller that hangs up in any of them, it never gets a second row nor a   *)
(* second charge.                                                          *)
(***************************************************************************)
AtMostOnce ==
    \A r \in Requests : Len(rows[r]) <= 1 /\ Len(quota[r]) <= Len(rows[r])

(***************************************************************************)
(* ... and at least: a request that is over has its row, and its reserved  *)
(* place has been charged or returned.  There are three ways around it: a  *)
(* full backlog, a fallback model that plan() refuses, and a body that is  *)
(* never started; those have neither.                                      *)
(***************************************************************************)
Accounted ==
    \A r \in Requests :
        Settled(r) => IF pc[r] = "over" /\ r \notin dropped
                      THEN Len(rows[r]) = 1 /\ Len(quota[r]) = 1
                      ELSE rows[r] = <<>> /\ quota[r] = <<>>

(***************************************************************************)
(* A slot is held while an endpoint works on the request and at no other   *)
(* time - not between two attempts, not after an error or a caller that    *)
(* hung up, whoever cancelled what - except by a body that never starts.   *)
(***************************************************************************)
SlotFollowsWork ==
    \A r \in Requests :
        held[r] = IF pc[r] \in {"calling", "opened", "relaying", "unclaimed"}
                  THEN target[r].endpoint ELSE NoEndpoint

(***************************************************************************)
(* "The slot is returned and the usage row recorded always, even when the  *)
(* generator is cancelled" (docstring of relay): no request that has ended *)
(* keeps a slot.                                                           *)
(***************************************************************************)
SlotGivenBack == \A r \in Requests : pc[r] \in Ended => held[r] = NoEndpoint

(***************************************************************************)
(* "the same machine must never be handed the request twice" (__init__ of  *)
(* _RequestContext), for the endpoints of the registry: neither a full     *)
(* slot, nor a failure, nor a chain of fallback models brings a request    *)
(* back to an endpoint that has seen it.                                   *)
(***************************************************************************)
EndpointOnce == \A r \in Requests, e \in Endpoints : sent[r][e] <= 1

(***************************************************************************)
(* What a caller was served is charged: an answer, complete or not, whose  *)
(* reader got it or left.  What no backend has seen because every slot was *)
(* full is not (docstring of take_slot).  Only a caller who hangs up in    *)
(* the queue pays for a request that no backend has seen.                  *)
(***************************************************************************)
NeverSent(r) == \A e \in Endpoints : sent[r][e] = 0

ChargedAsServed ==
    \A r \in Requests :
        quota[r] # <<>> =>
            /\ rows[r][1] = "success" \/ opened[r] => quota[r][1] = "charged"
            /\ NeverSent(r) => (quota[r][1] = "charged" <=> rows[r][1] = "aborted")

(***************************************************************************)
(* After the first byte nothing switches any more: the model and endpoint  *)
(* named in the headers are the ones that answer (docstring of             *)
(* stream_headers), and nobody sees half an answer twice.                  *)
(***************************************************************************)
NoSwitchOnceOpened ==
    [][\A r \in Requests : opened[r] => target'[r] = target[r] /\ sent'[r] = sent[r]]_vars

(***************************************************************************)
(* Every request ends and is accounted for: no circle of fallback models   *)
(* and no endless round of full endpoints.                                 *)
(***************************************************************************)
EveryRequestEnds == \A r \in Requests : <>Settled(r)

(***************************************************************************)
(* Each request has one row and one settlement, of what it was served, by  *)
(* whatever path it came to its end.                                       *)
(***************************************************************************)
OneRowEach == TypeOK /\ AtMostOnce /\ Accounted /\ ChargedAsServed

(***************************************************************************)
(* An attempt is made once and cleaned up after: no endpoint is asked      *)
(* twice, and a slot is held while its endpoint works and no longer.       *)
(***************************************************************************)
OneTryEach == EndpointOnce /\ SlotFollowsWork

-----------------------------------------------------------------------------
(* What the invariants rest on, and what RequestProofs proves.    *)

\* The endpoints that a request will not be sent to again.
Seen(t) == t.tried \cup UNION {EndpointsOf[m] : m \in t.exhausted}

(***************************************************************************)
(* An endpoint that has been sent the request is the one in hand, or one   *)
(* of those behind it, and the one in hand is not among the latter.        *)
(***************************************************************************)
AttemptsKept ==
    \A r \in Requests : LET t == target[r] IN
        /\ t.tried \subseteq EndpointsOf[t.model] /\ t.endpoint \notin t.tried
        /\ t.model \notin t.exhausted
        /\ \A e \in Endpoints :
              /\ sent[r][e] <= 1
              /\ sent[r][e] = 1 => e \in Seen(t) \/ (e = t.endpoint /\ pc[r] # "booking")
        /\ pc[r] \in {"calling", "releasing", "opened", "relaying", "closing"} =>
              sent[r][t.endpoint] = 1

TasksOf(r) == {t \in pending : t.req = r}

(***************************************************************************)
(* Once finalized, a request has one task, that has still to write the row *)
(* or only to settle the quota; or both; or was dropped.                   *)
(***************************************************************************)
RecordKept(r) ==
    \/ /\ ~finalized[r] /\ pc[r] \notin {"recording", "over"} /\ r \notin dropped
       /\ TasksOf(r) = {} /\ rows[r] = <<>> /\ quota[r] = <<>>
    \/ /\ finalized[r] /\ pc[r] \in {"recording", "hungup", "over"}
       /\ \/ /\ r \in dropped
             /\ TasksOf(r) = {} /\ rows[r] = <<>> /\ quota[r] = <<>>
          \/ /\ r \notin dropped
             /\ \E t \in Tasks :
                   /\ TasksOf(r) = {t} /\ quota[r] = <<>>
                   /\ rows[r] = IF t.at = "row" THEN <<>> ELSE <<t.status>>
          \/ /\ r \notin dropped
             /\ TasksOf(r) = {} /\ Len(rows[r]) = 1 /\ Len(quota[r]) = 1

RecordsKept == \A r \in Requests : RecordKept(r)

\* What ChargedAsServed says of a settlement is already true of its task.
FairCharge(r, row, charged) ==
    /\ row = "success" \/ opened[r] => charged
    /\ NeverSent(r) => (charged <=> row = "aborted")

ChargesKept ==
    /\ \A t \in pending : FairCharge(t.req, t.status, t.charge)
    /\ \A r \in Requests : quota[r] # <<>> => FairCharge(r, rows[r][1], quota[r][1] = "charged")
    /\ \A r \in Requests : opened[r] =>
          pc[r] \in {"opened", "relaying", "closing", "recording", "over", "unclaimed"}

IInv == TypeOK /\ SlotFollowsWork /\ AttemptsKept /\ RecordsKept /\ ChargesKept

=============================================================================
