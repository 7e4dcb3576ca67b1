---------------------------- MODULE EndpointHealth ----------------------------
(***************************************************************************)
(* Which endpoints of a model a worker takes for healthy (Router of        *)
(* core/routing.py).  Two sources report on an endpoint and know nothing   *)
(* of each other: the requests it was given, whenever they end, and the    *)
(* loop that asks every health path at an interval.  Two counters with     *)
(* thresholds of the registry decide when it goes and when it comes back.  *)
(*                                                                         *)
(* `machine` is the truth, external.  "well" does what it is asked.        *)
(* "wavering" is not ill and yet some of it fails: it is full and says 408 *)
(* or 429, an answer outlives the read timeout, the gateway breaks its own *)
(* relay, the health path is late under load; all of it counts against it. *)
(* "odd" answers its health path while the requests fail - another service *)
(* on the port, a model not loaded, a key that is wrong.                   *)
(***************************************************************************)
EXTENDS Naturals, FiniteSets, Sequences

CONSTANTS
    Endpoints, Requests, NoEndpoint,
    Thresholds,     \* [bad, good]: what the registry may say
    Keep,           \* counters stop at this value, and so many reports are remembered
    MaxEvents       \* bound on what happens to machines and registry

ASSUME HealthAssumption ==
    /\ IsFiniteSet(Endpoints) /\ NoEndpoint \notin Endpoints
    /\ Keep \in Nat /\ MaxEvents \in Nat
    /\ \A t \in Thresholds : t.bad \in 1..Keep /\ t.good \in 1..Keep

VARIABLES
    gateway,        \* the thresholds in force
    listed,         \* endpoints that are enabled, of models that are
    machine,        \* Endpoints -> "well" | "wavering" | "odd" | "down"
    health,         \* Endpoints -> [healthy, fails, wins]: EndpointHealth
    at,             \* Requests -> the endpoint it is running on
    probing,        \* endpoints whose health path has been asked
    heard,          \* the last reports on an endpoint, TRUE for a good one
    events

vars == <<gateway, listed, machine, health, at, probing, heard, events>>

Init ==
    /\ gateway \in Thresholds
    /\ listed = Endpoints
    /\ machine = [e \in Endpoints |-> "well"]
    /\ health = [e \in Endpoints |-> [healthy |-> TRUE, fails |-> 0, wins |-> 0]]
    /\ at = [r \in Requests |-> NoEndpoint]
    /\ probing = {}
    /\ heard = [e \in Endpoints |-> <<>>]
    /\ events = 0

More(n) == IF n < Keep THEN n + 1 ELSE n

Hear(e, good) ==
    heard' = [heard EXCEPT ![e] = LET all == Append(@, good)
                                  IN  IF Len(all) > Keep THEN Tail(all) ELSE all]

\* A plausible bug: the first good answer puts a machine back.
ReportSuccessAtOnce(e) ==
    health' = [health EXCEPT ![e] = [healthy |-> TRUE, fails |-> 0, wins |-> More(@.wins)]]

ReportSuccess(e) ==
    health' = [health EXCEPT ![e] =
        [healthy |-> @.healthy \/ More(@.wins) >= gateway.good,
         fails |-> 0, wins |-> More(@.wins)]]

ReportFailure(e) ==
    health' = [health EXCEPT ![e] =
        [healthy |-> @.healthy /\ More(@.fails) < gateway.bad,
         fails |-> More(@.fails), wins |-> 0]]

\* A plausible bug: whatever is >= 400 is the machine's fault.
ReportRequestFaultAsFailure(e) == ReportFailure(e)

\* 400, 413 and 422 are about the request: report_http_error returns.
ReportRequestFault(e) == UNCHANGED health

-----------------------------------------------------------------------------
(* Requests.                                                               *)

\* select: the healthy ones, and all of them when none is.
Selectable ==
    LET healthy == {e \in listed : health[e].healthy}
    IN  IF healthy = {} THEN listed ELSE healthy

Starts(r) ==
    /\ at[r] = NoEndpoint
    /\ \E e \in Selectable : at' = [at EXCEPT ![r] = e]
    /\ UNCHANGED <<gateway, listed, machine, health, probing, heard, events>>

Ends(r) == at' = [at EXCEPT ![r] = NoEndpoint]

Succeeds(r) ==
    /\ at[r] # NoEndpoint /\ machine[at[r]] \in {"well", "wavering"}
    /\ Ends(r) /\ ReportSuccess(at[r]) /\ Hear(at[r], TRUE)
    /\ UNCHANGED <<gateway, listed, machine, probing, events>>

\* Whoever answers at all may find a prompt too long.
IsRefused(r) ==
    /\ at[r] # NoEndpoint /\ machine[at[r]] # "down"
    /\ Ends(r) /\ ReportRequestFault(at[r])
    /\ UNCHANGED <<gateway, listed, machine, probing, heard, events>>

\* Every other status of 400 and more, no answer in time, a line that breaks, an error
\* inside a 200, an exception of the gateway while it relays.
Fails(r) ==
    /\ at[r] # NoEndpoint /\ machine[at[r]] # "well"
    /\ Ends(r) /\ ReportFailure(at[r]) /\ Hear(at[r], FALSE)
    /\ UNCHANGED <<gateway, listed, machine, probing, events>>

\* The caller hangs up: nobody reports.
IsLeft(r) ==
    /\ at[r] # NoEndpoint
    /\ Ends(r)
    /\ UNCHANGED <<gateway, listed, machine, health, probing, heard, events>>

-----------------------------------------------------------------------------
(* The health loop.                                                        *)

\* A plausible bug: only what is in rotation is asked.
ToProbeInRotation == {e \in listed : health[e].healthy}

ToProbe == listed

\* probe_all asks all of them at once, and waits for the last answer.
ProbeAll ==
    /\ probing = {} /\ ToProbe # {}
    /\ probing' = ToProbe
    /\ UNCHANGED <<gateway, listed, machine, health, at, heard, events>>

\* Below 500 is reached: 401 and 404 are what a healthy provider answers.
IsReached(e) ==
    /\ machine[e] # "down"
    /\ ReportSuccess(e) /\ Hear(e, TRUE)

\* 500 and more, and every exception: no connection, or no answer in time.
IsNotReached(e) ==
    /\ machine[e] \in {"down", "wavering"}
    /\ ReportFailure(e) /\ Hear(e, FALSE)

ProbeAnswers(e) ==
    /\ e \in probing
    /\ probing' = probing \ {e}
    /\ IsReached(e) \/ IsNotReached(e)
    /\ UNCHANGED <<gateway, listed, machine, at, events>>

-----------------------------------------------------------------------------
(* The world.                                                              *)

Conditions == {"well", "wavering", "odd", "down"}

MachineChanges(e) ==
    /\ events < MaxEvents /\ events' = events + 1
    /\ \E s \in Conditions \ {machine[e]} : machine' = [machine EXCEPT ![e] = s]
    /\ UNCHANGED <<gateway, listed, health, at, probing, heard>>

\* The registry is edited: other thresholds, an endpoint disabled or enabled.
RegistryChanges ==
    /\ events < MaxEvents /\ events' = events + 1
    /\ \/ \E t \in Thresholds \ {gateway} : gateway' = t /\ UNCHANGED listed
       \/ \E e \in Endpoints :
             /\ listed' = IF e \in listed THEN listed \ {e} ELSE listed \cup {e}
             /\ UNCHANGED gateway
    /\ UNCHANGED <<machine, health, at, probing, heard>>

Next ==
    \/ \E r \in Requests : Starts(r) \/ Succeeds(r) \/ IsRefused(r) \/ Fails(r) \/ IsLeft(r)
    \/ ProbeAll
    \/ \E e \in Endpoints : ProbeAnswers(e) \/ MachineChanges(e)
    \/ RegistryChanges

Spec == Init /\ [][Next]_vars

\* _health_loop goes round for as long as the worker lives, and every probe has a
\* timeout.  Nothing is assumed of the requests.
FairSpec == Spec /\ WF_vars(ProbeAll) /\ \A e \in Endpoints : WF_vars(ProbeAnswers(e))

-----------------------------------------------------------------------------
(* Properties.                                                             *)

Counters == 0..Keep

HealthTypeOK ==
    /\ gateway \in Thresholds
    /\ listed \subseteq Endpoints
    /\ machine \in [Endpoints -> Conditions]
    /\ health \in [Endpoints -> [healthy : BOOLEAN, fails : Counters, wins : Counters]]
    /\ at \in [Requests -> Endpoints \cup {NoEndpoint}]
    /\ probing \subseteq Endpoints
    /\ events \in 0..MaxEvents

\* One of the two counters is zero: requests and probes, in whatever order they report,
\* never count towards both verdicts at once.
OneVerdict == \A e \in Endpoints : health[e].fails = 0 \/ health[e].wins = 0

Run(s, n, good) ==
    /\ Len(s) >= n
    /\ \A i \in (Len(s) - n + 1)..Len(s) : s[i] = good

\* What the counters count is what was heard last: as many failures, or successes, without
\* a break.  What is about the request is not heard: prompts that are too long, however
\* many, count towards neither.
EvidenceKept ==
    /\ heard \in [Endpoints -> Seq(BOOLEAN)]
    /\ \A e \in Endpoints :
          /\ Len(heard[e]) <= Keep
          /\ Run(heard[e], health[e].fails, FALSE)
          /\ Run(heard[e], health[e].wins, TRUE)

\* An endpoint is taken out, and put back, on the last reports alone: as many failures,
\* or successes, without a break as the registry asks for at that moment.
FlipsOnEvidence ==
    [][\A e \in Endpoints :
         /\ health[e].healthy /\ ~health'[e].healthy => Run(heard'[e], gateway.bad, FALSE)
         /\ ~health[e].healthy /\ health'[e].healthy => Run(heard'[e], gateway.good, TRUE)]_vars

\* An endpoint whose machine is well for good - fails no request and no probe any more -
\* comes back for good, by the probes alone: nobody has to send it a request.
ComesBack ==
    \A e \in Endpoints :
        <>[](machine[e] = "well" /\ e \in listed) => <>[](health[e].healthy)

\* The verdict on an endpoint stands on one count, which counts what was heard of it and
\* nothing else.
VerdictsSound == HealthTypeOK /\ OneVerdict /\ EvidenceKept

=============================================================================
