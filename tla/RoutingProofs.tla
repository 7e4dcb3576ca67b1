---------------------------- MODULE RoutingProofs ----------------------------
(***************************************************************************)
(* Proofs about EndpointHealth, for every number of endpoints and          *)
(* requests, every pair of thresholds the registry may say and change, and *)
(* every order in which requests and probes report; and about Dispatch,    *)
(* for every registry that loads, every call that its schema lets in, and  *)
(* every choice of sick and full endpoints.                                *)
(*                                                                         *)
(* VerdictsSound is inductive.  EvidenceKept is the part that an endpoint  *)
(* flipping on evidence alone rests on: the counters say how the list of   *)
(* the last reports ends.                                                  *)
(*                                                                         *)
(* DInv carries Dispatch: who is at work passes the gates of its model and *)
(* is the last of the choices, PastKept tells which choices went before    *)
(* it, and CacheKept that the key of an entry says who gave it.            *)
(***************************************************************************)
EXTENDS MCDispatch, Integers, TLAPS

(***************************************************************************)
(* The list of the last reports forgets its head when it is full, and a    *)
(* run at its end grows by the report that continues it.                   *)
(***************************************************************************)
Remembered(s, good) ==
    LET longer == Append(s, good) IN IF Len(longer) > Keep THEN Tail(longer) ELSE longer

\* One more report of the same kind lengthens the run that the counter counts.
LEMMA RunGrows ==
    ASSUME NEW s \in Seq(BOOLEAN), Len(s) <= Keep, NEW good \in BOOLEAN,
           NEW n \in Counters, Run(s, n, good)
    PROVE  /\ Remembered(s, good) \in Seq(BOOLEAN)
           /\ Len(Remembered(s, good)) <= Keep
           /\ Run(Remembered(s, good), More(n), good)
           /\ Run(Remembered(s, good), 0, ~good)
<1>. DEFINE longer == Append(s, good)
<1>1. Keep \in Nat
  BY HealthAssumption
<1>2. /\ longer \in Seq(BOOLEAN)
      /\ Len(longer) = Len(s) + 1
      /\ \A i \in 1..Len(s) : longer[i] = s[i]
      /\ longer[Len(s) + 1] = good
  OBVIOUS
<1>3. \A i \in (Len(s) - n + 1)..(Len(s) + 1) : longer[i] = good
  <2>. SUFFICES ASSUME NEW i \in (Len(s) - n + 1)..(Len(s) + 1) PROVE longer[i] = good
    OBVIOUS
  <2>. QED
    BY <1>2 DEF Run, Counters
<1>4. CASE Len(longer) > Keep
  <2>1. /\ Tail(longer) \in Seq(BOOLEAN)
        /\ Len(Tail(longer)) = Len(s)
        /\ \A i \in 1..Len(s) : Tail(longer)[i] = longer[i + 1]
    BY <1>2
  <2>2. Len(s) = Keep
    BY <1>1, <1>2, <1>4
  <2>3. Remembered(s, good) = Tail(longer)
    BY <1>4 DEF Remembered
  <2>4. More(n) \in Counters /\ More(n) <= n + 1
    BY <1>1 DEF More, Counters
  <2>5. \A i \in (Len(s) - More(n) + 1)..Len(s) : Tail(longer)[i] = good
    <3>. SUFFICES ASSUME NEW i \in (Len(s) - More(n) + 1)..Len(s) PROVE Tail(longer)[i] = good
      OBVIOUS
    <3>1. i + 1 \in (Len(s) - n + 1)..(Len(s) + 1) /\ i \in 1..Len(s)
      BY <1>1, <2>2, <2>4 DEF Counters
    <3>. QED
      BY <1>3, <2>1, <3>1
  <2>. DEFINE shorter == Tail(longer)
  <2>6. shorter \in Seq(BOOLEAN) /\ Len(shorter) = Len(s) /\ Len(s) \in Nat
    BY <2>1
  <2>7. Run(shorter, More(n), good)
    <3>. HIDE DEF longer
    <3>. QED
      BY <1>1, <2>2, <2>4, <2>5, <2>6 DEF Run, Counters
  <2>8. Run(shorter, 0, ~good)
    <3>. HIDE DEF shorter
    <3>. QED
      BY <2>6 DEF Run
  <2>. QED
    BY <1>1, <2>2, <2>3, <2>6, <2>7, <2>8
<1>5. CASE ~(Len(longer) > Keep)
  <2>1. Remembered(s, good) = longer
    BY <1>5 DEF Remembered
  <2>2. More(n) = n + 1
    BY <1>1, <1>2, <1>5 DEF More, Counters, Run
  <2>. QED
    BY <1>1, <1>2, <1>3, <1>5, <2>1, <2>2 DEF Run, Counters
<1>. QED
  BY <1>4, <1>5

\* The end of a run is a run.
LEMMA RunShorter ==
    ASSUME NEW s \in Seq(BOOLEAN), NEW good \in BOOLEAN,
           NEW n \in Nat, NEW m \in Nat, m <= n, Run(s, n, good)
    PROVE  Run(s, m, good)
BY DEF Run

(***************************************************************************)
(* What a report on e leaves behind, when it is good and when it is bad:   *)
(* counts, evidence and verdict stay true of each other, no other endpoint *)
(* is touched, and the verdict changes only on as many reports as the      *)
(* threshold asks for.                                                     *)
(***************************************************************************)
HealthType == [Endpoints -> [healthy : BOOLEAN, fails : Counters, wins : Counters]]

Others(e) == \A f \in Endpoints \ {e} : health'[f] = health[f] /\ heard'[f] = heard[f]

(***************************************************************************)
(* An endpoint whose own evidence is right after a report leaves all the   *)
(* evidence right.                                                         *)
(***************************************************************************)
LEMMA EvidenceOfOne ==
    ASSUME EvidenceKept, NEW e \in Endpoints, Others(e),
           heard' \in [Endpoints -> Seq(BOOLEAN)],
           Len(heard'[e]) <= Keep,
           Run(heard'[e], health'[e].fails, FALSE),
           Run(heard'[e], health'[e].wins, TRUE)
    PROVE  EvidenceKept'
<1>. SUFFICES ASSUME NEW f \in Endpoints
              PROVE  /\ Len(heard'[f]) <= Keep
                     /\ Run(heard'[f], health'[f].fails, FALSE)
                     /\ Run(heard'[f], health'[f].wins, TRUE)
  BY DEF EvidenceKept, Run
<1>1. CASE f = e
  BY <1>1
<1>2. CASE f # e
  BY <1>2 DEF Others, EvidenceKept
<1>. QED
  BY <1>1, <1>2

\* What report_success leaves: an endpoint comes back only on enough good reports.
LEMMA GoodReport ==
    ASSUME VerdictsSound, NEW e \in Endpoints, ReportSuccess(e), Hear(e, TRUE)
    PROVE  /\ health' \in HealthType
           /\ EvidenceKept'
           /\ OneVerdict'
           /\ health'[e].fails = 0
           /\ health[e].healthy => health'[e].healthy
           /\ ~health[e].healthy /\ health'[e].healthy => Run(heard'[e], gateway.good, TRUE)
           /\ Others(e)
<1>1. /\ health \in HealthType
      /\ heard \in [Endpoints -> Seq(BOOLEAN)]
      /\ Len(heard[e]) <= Keep
      /\ Run(heard[e], health[e].wins, TRUE)
      /\ OneVerdict
      /\ EvidenceKept
  BY DEF VerdictsSound, HealthTypeOK, EvidenceKept, HealthType
<1>2. gateway.good \in Nat
  <2>1. gateway \in Thresholds
    BY DEF VerdictsSound, HealthTypeOK
  <2>. QED
    BY <2>1, HealthAssumption
<1>3. health[e] \in [healthy : BOOLEAN, fails : Counters, wins : Counters]
  BY <1>1 DEF HealthType
<1>4. More(health[e].wins) \in Counters /\ 0 \in Counters /\ health[e].wins \in Counters
  BY <1>3, HealthAssumption DEF More, Counters
<1>. DEFINE h == [healthy |-> health[e].healthy \/ More(health[e].wins) >= gateway.good,
                  fails |-> 0, wins |-> More(health[e].wins)]
            s == Remembered(heard[e], TRUE)
<1>5. /\ health' = [health EXCEPT ![e] = h]
      /\ heard' = [heard EXCEPT ![e] = s]
  BY DEF ReportSuccess, Hear, Remembered
<1>6. /\ s \in Seq(BOOLEAN) /\ Len(s) <= Keep
      /\ Run(s, More(health[e].wins), TRUE) /\ Run(s, 0, FALSE)
  <2>1. heard[e] \in Seq(BOOLEAN)
    BY <1>1
  <2>. QED
    BY <1>1, <1>4, <2>1, RunGrows
<1>7. h \in [healthy : BOOLEAN, fails : Counters, wins : Counters]
  BY <1>3, <1>4
<1>. HIDE DEF s
<1>8. health'[e] = h /\ heard'[e] = s /\ Others(e)
  BY <1>1, <1>5 DEF HealthType, Others
<1>9. health' \in HealthType
  BY <1>1, <1>5, <1>7 DEF HealthType
<1>10. EvidenceKept'
  <2>1. heard' \in [Endpoints -> Seq(BOOLEAN)]
    BY <1>1, <1>5, <1>6
  <2>2. health'[e].fails = 0 /\ health'[e].wins = More(health[e].wins)
    BY <1>8
  <2>3. /\ Len(heard'[e]) <= Keep
        /\ Run(heard'[e], health'[e].fails, FALSE)
        /\ Run(heard'[e], health'[e].wins, TRUE)
    BY <1>6, <1>8, <2>2
  <2>. QED
    BY <1>1, <1>8, <2>1, <2>3, EvidenceOfOne
<1>11. OneVerdict'
  BY <1>1, <1>8 DEF OneVerdict, Others
<1>12. ~health[e].healthy /\ health'[e].healthy => Run(heard'[e], gateway.good, TRUE)
  <2>. SUFFICES ASSUME ~health[e].healthy, health'[e].healthy
                PROVE  Run(s, gateway.good, TRUE)
    BY <1>8
  <2>1. h.healthy
    BY <1>8
  <2>2. More(health[e].wins) >= gateway.good
    BY <2>1
  <2>3. More(health[e].wins) \in Nat
    BY <1>4, HealthAssumption DEF Counters
  <2>4. gateway.good <= More(health[e].wins)
    BY <1>2, <2>2, <2>3
  <2>. QED
    BY <1>2, <1>6, <2>3, <2>4, RunShorter
<1>13. health'[e].fails = 0 /\ (health[e].healthy => health'[e].healthy)
  BY <1>3, <1>8
<1>. QED
  BY <1>8, <1>9, <1>10, <1>11, <1>12, <1>13

\* What report_failure leaves: it is taken out only on enough bad ones.
LEMMA BadReport ==
    ASSUME VerdictsSound, NEW e \in Endpoints, ReportFailure(e), Hear(e, FALSE)
    PROVE  /\ health' \in HealthType
           /\ EvidenceKept'
           /\ OneVerdict'
           /\ ~health[e].healthy => ~health'[e].healthy
           /\ health[e].healthy /\ ~health'[e].healthy => Run(heard'[e], gateway.bad, FALSE)
           /\ Others(e)
<1>1. /\ health \in HealthType
      /\ heard \in [Endpoints -> Seq(BOOLEAN)]
      /\ Len(heard[e]) <= Keep
      /\ Run(heard[e], health[e].fails, FALSE)
      /\ OneVerdict
      /\ EvidenceKept
  BY DEF VerdictsSound, HealthTypeOK, EvidenceKept, HealthType
<1>2. gateway.bad \in Nat
  <2>1. gateway \in Thresholds
    BY DEF VerdictsSound, HealthTypeOK
  <2>. QED
    BY <2>1, HealthAssumption
<1>3. health[e] \in [healthy : BOOLEAN, fails : Counters, wins : Counters]
  BY <1>1 DEF HealthType
<1>4. More(health[e].fails) \in Counters /\ 0 \in Counters /\ health[e].fails \in Counters
  BY <1>3, HealthAssumption DEF More, Counters
<1>. DEFINE h == [healthy |-> health[e].healthy /\ More(health[e].fails) < gateway.bad,
                  fails |-> More(health[e].fails), wins |-> 0]
            s == Remembered(heard[e], FALSE)
<1>5. /\ health' = [health EXCEPT ![e] = h]
      /\ heard' = [heard EXCEPT ![e] = s]
  BY DEF ReportFailure, Hear, Remembered
<1>6. /\ s \in Seq(BOOLEAN) /\ Len(s) <= Keep
      /\ Run(s, More(health[e].fails), FALSE) /\ Run(s, 0, TRUE)
  <2>1. heard[e] \in Seq(BOOLEAN)
    BY <1>1
  <2>. QED
    BY <1>1, <1>4, <2>1, RunGrows
<1>7. h \in [healthy : BOOLEAN, fails : Counters, wins : Counters]
  BY <1>3, <1>4
<1>. HIDE DEF s
<1>8. health'[e] = h /\ heard'[e] = s /\ Others(e)
  BY <1>1, <1>5 DEF HealthType, Others
<1>9. health' \in HealthType
  BY <1>1, <1>5, <1>7 DEF HealthType
<1>10. EvidenceKept'
  <2>1. heard' \in [Endpoints -> Seq(BOOLEAN)]
    BY <1>1, <1>5, <1>6
  <2>2. health'[e].fails = More(health[e].fails) /\ health'[e].wins = 0
    BY <1>8
  <2>3. /\ Len(heard'[e]) <= Keep
        /\ Run(heard'[e], health'[e].fails, FALSE)
        /\ Run(heard'[e], health'[e].wins, TRUE)
    BY <1>6, <1>8, <2>2
  <2>. QED
    BY <1>1, <1>8, <2>1, <2>3, EvidenceOfOne
<1>11. OneVerdict'
  BY <1>1, <1>8 DEF OneVerdict, Others
<1>12. health[e].healthy /\ ~health'[e].healthy => Run(heard'[e], gateway.bad, FALSE)
  <2>. SUFFICES ASSUME health[e].healthy, ~health'[e].healthy
                PROVE  Run(s, gateway.bad, FALSE)
    BY <1>8
  <2>1. ~h.healthy
    BY <1>8
  <2>2. ~(More(health[e].fails) < gateway.bad)
    BY <2>1
  <2>3. More(health[e].fails) \in Nat
    BY <1>4, HealthAssumption DEF Counters
  <2>4. gateway.bad <= More(health[e].fails)
    BY <1>2, <2>2, <2>3
  <2>. QED
    BY <1>2, <1>6, <2>3, <2>4, RunShorter
<1>13. ~health[e].healthy => ~health'[e].healthy
  BY <1>3, <1>8
<1>. QED
  BY <1>8, <1>9, <1>10, <1>11, <1>12, <1>13

(***************************************************************************)
(* Everything starts in rotation and unheard of.                           *)
(***************************************************************************)
LEMMA HealthInit == Init => VerdictsSound
<1>. SUFFICES ASSUME Init PROVE VerdictsSound
  OBVIOUS
<1>1. HealthTypeOK /\ OneVerdict
  BY HealthAssumption DEF Init, HealthTypeOK, OneVerdict, Counters, Conditions
<1>2. EvidenceKept
  <2>1. \A e \in Endpoints : heard[e] = <<>> /\ health[e].fails = 0 /\ health[e].wins = 0
    BY DEF Init
  <2>2. heard \in [Endpoints -> Seq(BOOLEAN)]
    BY DEF Init
  <2>3. Run(<<>>, 0, TRUE) /\ Run(<<>>, 0, FALSE) /\ Len(<<>>) <= Keep
    BY HealthAssumption DEF Run
  <2>. QED
    BY <2>1, <2>2, <2>3 DEF EvidenceKept
<1>. QED
  BY <1>1, <1>2 DEF VerdictsSound

(***************************************************************************)
(* A step that reports nothing keeps VerdictsSound if the types hold.      *)
(***************************************************************************)
LEMMA Unheard ==
    ASSUME VerdictsSound, health' = health, heard' = heard, HealthTypeOK'
    PROVE  VerdictsSound'
<1>1. OneVerdict'
  BY DEF VerdictsSound, OneVerdict
<1>2. EvidenceKept'
  BY DEF VerdictsSound, EvidenceKept, Run
<1>. QED
  BY <1>1, <1>2 DEF VerdictsSound

(***************************************************************************)
(* A report keeps VerdictsSound, whoever makes it and whatever the machine *)
(* is: the counters follow what is heard.                                  *)
(***************************************************************************)
LEMMA ReportKeeps ==
    ASSUME VerdictsSound, NEW e \in Endpoints,
           \/ ReportSuccess(e) /\ Hear(e, TRUE)
           \/ ReportFailure(e) /\ Hear(e, FALSE),
           UNCHANGED <<gateway, listed, machine, events>>,
           at' \in [Requests -> Endpoints \cup {NoEndpoint}], probing' \subseteq Endpoints
    PROVE  VerdictsSound'
<1>1. health' \in HealthType /\ EvidenceKept' /\ OneVerdict'
  <2>1. CASE ReportSuccess(e) /\ Hear(e, TRUE)
    BY <2>1, GoodReport
  <2>2. CASE ReportFailure(e) /\ Hear(e, FALSE)
    BY <2>2, BadReport
  <2>. QED
    BY <2>1, <2>2
<1>2. HealthTypeOK'
  BY <1>1 DEF VerdictsSound, HealthTypeOK, HealthType
<1>. QED
  BY <1>1, <1>2 DEF VerdictsSound

(***************************************************************************)
(* Every step keeps VerdictsSound.                                         *)
(***************************************************************************)
LEMMA HealthStep == VerdictsSound /\ [Next]_vars => VerdictsSound'
<1>. SUFFICES ASSUME VerdictsSound, [Next]_vars PROVE VerdictsSound'
  OBVIOUS
<1>. HealthTypeOK /\ NoEndpoint \notin Endpoints
  BY HealthAssumption DEF VerdictsSound
<1>1. CASE UNCHANGED vars
  BY <1>1, Unheard DEF vars, HealthTypeOK
<1>2. ASSUME NEW r \in Requests, Starts(r) PROVE VerdictsSound'
  <2>1. at' \in [Requests -> Endpoints \cup {NoEndpoint}]
    BY <1>2 DEF Starts, Selectable, HealthTypeOK
  <2>. QED
    BY <1>2, <2>1, Unheard DEF Starts, HealthTypeOK
<1>3. ASSUME NEW r \in Requests, Succeeds(r) \/ Fails(r) PROVE VerdictsSound'
  <2>1. at[r] \in Endpoints /\ at' \in [Requests -> Endpoints \cup {NoEndpoint}]
    BY <1>3 DEF Succeeds, Fails, Ends, HealthTypeOK
  <2>. QED
    BY <1>3, <2>1, ReportKeeps DEF Succeeds, Fails, HealthTypeOK
<1>4. ASSUME NEW r \in Requests, IsRefused(r) \/ IsLeft(r) PROVE VerdictsSound'
  <2>1. at' \in [Requests -> Endpoints \cup {NoEndpoint}]
    BY <1>4 DEF IsRefused, IsLeft, Ends, HealthTypeOK
  <2>. QED
    BY <1>4, <2>1, Unheard DEF IsRefused, IsLeft, ReportRequestFault, HealthTypeOK
<1>5. CASE ProbeAll
  BY <1>5, Unheard DEF ProbeAll, ToProbe, HealthTypeOK
<1>6. ASSUME NEW e \in Endpoints, ProbeAnswers(e) PROVE VerdictsSound'
  BY <1>6, ReportKeeps DEF ProbeAnswers, IsReached, IsNotReached, HealthTypeOK
<1>7. ASSUME NEW e \in Endpoints, MachineChanges(e) PROVE VerdictsSound'
  <2>1. machine' \in [Endpoints -> Conditions]
    BY <1>7 DEF MachineChanges, HealthTypeOK
  <2>2. events' \in 0..MaxEvents
    BY <1>7, HealthAssumption DEF MachineChanges, HealthTypeOK
  <2>. QED
    BY <1>7, <2>1, <2>2, Unheard DEF MachineChanges, HealthTypeOK
<1>8. CASE RegistryChanges
  <2>1. events' \in 0..MaxEvents
    BY <1>8, HealthAssumption DEF RegistryChanges, HealthTypeOK
  <2>. QED
    BY <1>8, <2>1, Unheard DEF RegistryChanges, HealthTypeOK
<1>. QED
  BY <1>1, <1>2, <1>3, <1>4, <1>5, <1>6, <1>7, <1>8 DEF Next

(***************************************************************************)
(* The verdicts are sound in every reachable state, whatever the machines  *)
(* do: types, one counter at a time, and counters that say what was heard  *)
(* last.                                                                   *)
(***************************************************************************)
THEOREM VerdictsAreSound == Spec => []VerdictsSound
BY HealthInit, HealthStep, PTL DEF Spec

(***************************************************************************)
(* An endpoint leaves the rotation, and comes back, on the last reports    *)
(* alone, whoever made them and however the thresholds are edited between. *)
(***************************************************************************)
THEOREM FlipsAreEarned == Spec => FlipsOnEvidence
<1>1. VerdictsSound /\ [Next]_vars =>
        [\A e \in Endpoints :
            /\ health[e].healthy /\ ~health'[e].healthy => Run(heard'[e], gateway.bad, FALSE)
            /\ ~health[e].healthy /\ health'[e].healthy => Run(heard'[e], gateway.good, TRUE)]_vars
  <2>. SUFFICES ASSUME VerdictsSound, Next, NEW e \in Endpoints,
                       health'[e].healthy # health[e].healthy
                PROVE  /\ health[e].healthy /\ ~health'[e].healthy =>
                             Run(heard'[e], gateway.bad, FALSE)
                       /\ ~health[e].healthy /\ health'[e].healthy =>
                             Run(heard'[e], gateway.good, TRUE)
    OBVIOUS
  <2>1. health[e].healthy \in BOOLEAN
    BY DEF VerdictsSound, HealthTypeOK
  <2>2. ASSUME NEW f \in Endpoints, ReportSuccess(f), Hear(f, TRUE)
        PROVE  ~health[e].healthy /\ health'[e].healthy /\ Run(heard'[e], gateway.good, TRUE)
    <3>1. /\ health[f].healthy => health'[f].healthy
          /\ ~health[f].healthy /\ health'[f].healthy => Run(heard'[f], gateway.good, TRUE)
          /\ health' \in HealthType
          /\ Others(f)
      BY <2>2, GoodReport
    <3>2. e = f
      BY <3>1 DEF Others
    <3>. QED
      BY <2>1, <3>1, <3>2 DEF HealthType
  <2>3. ASSUME NEW f \in Endpoints, ReportFailure(f), Hear(f, FALSE)
        PROVE  health[e].healthy /\ ~health'[e].healthy /\ Run(heard'[e], gateway.bad, FALSE)
    <3>1. /\ ~health[f].healthy => ~health'[f].healthy
          /\ health[f].healthy /\ ~health'[f].healthy => Run(heard'[f], gateway.bad, FALSE)
          /\ health' \in HealthType
          /\ Others(f)
      BY <2>3, BadReport
    <3>2. e = f
      BY <3>1 DEF Others
    <3>. QED
      BY <2>1, <3>1, <3>2 DEF HealthType
  <2>4. \E f \in Endpoints : \/ ReportSuccess(f) /\ Hear(f, TRUE)
                             \/ ReportFailure(f) /\ Hear(f, FALSE)
    <3>1. health' # health
      OBVIOUS
    <3>2. \A r \in Requests : at[r] # NoEndpoint => at[r] \in Endpoints
      BY DEF VerdictsSound, HealthTypeOK
    <3>. QED
      BY <3>1, <3>2 DEF Next, Starts, Succeeds, IsRefused, ReportRequestFault, Fails, IsLeft,
         ProbeAll, ProbeAnswers, IsReached, IsNotReached, MachineChanges, RegistryChanges
  <2>. QED
    BY <2>2, <2>3, <2>4
<1>. QED
  BY <1>1, VerdictsAreSound, PTL DEF Spec, FlipsOnEvidence

-----------------------------------------------------------------------------
(***************************************************************************)
(* What the registry and the calls are, and what the gates say of them.    *)
(***************************************************************************)
Lawful(models) ==
    /\ D!ValidRouting(models)
    /\ \A a \in DOMAIN models : a \in STRING /\ D!ValidModel(models[a])

Names(m) == {e.name : e \in D!ToSet(m.endpoints)}

\* GatesHold of a model, an endpoint of it and a call.
Passes(m, e, q) ==
    /\ m.enabled /\ e.enabled
    /\ q.surface \in m.surfaces
    /\ ~D!Retrieval(q) => D!Capable(m, q)
    /\ D!Fits(m, q)
    /\ q.media \subseteq e.media
    /\ q.native => q.surface \in e.speaks

\* The cap of an answer is an integer, and none that is given exceeds what the model may
\* write, what was wanted, or the window.
LEMMA CapIsBounded ==
    ASSUME NEW m, NEW q, D!ValidModel(m), D!ValidCall(q)
    PROVE  /\ D!OutputCap(m, q) \in Int
           /\ D!OutputCap(m, q) # -1 =>
                /\ D!Fits(m, q)
                /\ D!OutputCap(m, q) >= 1
                /\ D!OutputCap(m, q) * q.n <= m.output
                /\ q.wants > 0 => D!OutputCap(m, q) <= q.wants
                /\ \/ D!OutputCap(m, q) <= D!MIN_OUTPUT_IN_DOUBT
                   \/ D!OutputCap(m, q) + D!PromptTokens(m, q) <= m.context
           /\ D!OutputCap(m, q) = -1 => m.output < q.n \/ ~D!Fits(m, q)
<1>. DEFINE prompt == D!PromptTokens(m, q)
            ceiling == m.output \div q.n
            cap == D!OutputCap(m, q)
<1>1. /\ m.output \in Nat \ {0} /\ m.context \in Nat \ {0} /\ q.n \in Nat \ {0}
      /\ q.wants \in Nat /\ q.size \in Nat /\ m.rate \in Nat
  <2>1. q.n \in 1..128
    BY DEF D!ValidCall
  <2>2. m.output \in Nat \ {0} /\ m.context \in Nat \ {0} /\ m.rate \in Nat
    BY DEF D!ValidModel
  <2>3. q.wants \in Nat /\ q.size \in Nat
    BY DEF D!ValidCall
  <2>. QED
    BY <2>1, <2>2, <2>3
<1>2. prompt \in Nat
  BY <1>1 DEF D!PromptTokens
<1>3. ceiling \in Nat /\ ceiling * q.n <= m.output /\ (ceiling < 1 => m.output < q.n)
  BY <1>1
<1>4. m.output \div D!AtLeast(q.n, 1) = ceiling
  BY <1>1 DEF D!AtLeast
<1>5. CASE ceiling < 1 \/ ~D!Fits(m, q)
  <2>1. cap = -1
    BY <1>4, <1>5 DEF D!OutputCap
  <2>. QED
    BY <1>3, <1>5, <2>1
<1>6. CASE ~(ceiling < 1 \/ ~D!Fits(m, q))
  <2>. DEFINE expected == IF q.wants = 0 THEN m.output ELSE q.wants
              headroom == D!AtLeast(m.context - prompt, D!MIN_OUTPUT_IN_DOUBT)
  <2>1. cap = D!AtMost(headroom, D!AtMost(ceiling, D!AtMost(expected, m.output)))
    BY <1>4, <1>6 DEF D!OutputCap
  <2>2. headroom \in Int /\ headroom >= 256 /\ (headroom = 256 \/ headroom = m.context - prompt)
    BY <1>1, <1>2 DEF D!AtLeast, D!MIN_OUTPUT_IN_DOUBT
  <2>3. expected \in Nat \ {0} /\ (q.wants > 0 => expected = q.wants)
    BY <1>1
  <2>. HIDE DEF prompt, ceiling, cap, expected, headroom
  <2>4. /\ cap \in Nat \ {0} /\ cap <= headroom /\ cap <= ceiling /\ cap <= expected
    BY <1>1, <1>3, <1>6, <2>1, <2>2, <2>3 DEF D!AtMost
  <2>5. cap * q.n <= ceiling * q.n
    BY <1>1, <1>3, <2>4
  <2>6. cap * q.n <= m.output
    BY <1>1, <1>3, <2>4, <2>5
  <2>7. cap <= 256 \/ cap + prompt <= m.context
    BY <1>1, <1>2, <2>2, <2>4
  <2>8. q.wants > 0 => cap <= q.wants
    BY <2>3, <2>4
  <2>. QED
    BY <1>6, <2>4, <2>6, <2>7, <2>8 DEF cap, prompt, D!MIN_OUTPUT_IN_DOUBT
<1>. QED
  BY <1>5, <1>6

\* Where auto sees room for the prompt and an answer, the prompt fits.
LEMMA RoomFits ==
    ASSUME NEW m, NEW q, D!ValidModel(m), D!ValidCall(q),
           D!PromptTokens(m, q) + D!HEADROOM_TOKENS <= m.context
    PROVE  D!Fits(m, q)
<1>. DEFINE prompt == D!PromptTokens(m, q)
            window == m.context
<1>1. q.size \in Nat /\ m.rate \in Nat /\ window \in Nat
  BY DEF D!ValidModel, D!ValidCall
<1>2. prompt \in Nat
  BY <1>1 DEF D!PromptTokens
<1>3. prompt + 512 <= window
  BY DEF D!HEADROOM_TOKENS
<1>. HIDE DEF prompt, window
<1>4. prompt * 100 <= window * 115
  BY <1>1, <1>2, <1>3
<1>. QED
  BY <1>4 DEF D!Fits, prompt, window

\* A name means one endpoint of a model.
LEMMA NamesAreUnique ==
    ASSUME NEW a, D!ValidModel(registry.models[a]),
           NEW e \in D!ToSet(registry.models[a].endpoints)
    PROVE  D!Endpoint(a, e.name) = e
BY DEF D!Endpoint, D!ValidModel

\* What select returns is an endpoint that supports the request and is not excluded.
LEMMA SelectedSupports ==
    ASSUME NEW a, NEW q, NEW exclude, NEW busy, NEW name \in D!Select(a, q, exclude, busy)
    PROVE  /\ name \notin exclude
           /\ \E e \in D!ToSet(registry.models[a].endpoints) :
                 e.name = name /\ \E p : D!EndpointSupports(e, q, p)
<1>1. PICK protocol : name \in D!SelectOver(a, q, protocol, exclude, busy)
  BY DEF D!Select
<1>. DEFINE compatible == {e \in D!ToSet(registry.models[a].endpoints) :
                              e.name \notin exclude /\ D!EndpointSupports(e, q, protocol)}
<1>2. \E e \in compatible : e.name = name
  BY <1>1 DEF D!SelectOver
<1>. QED
  BY <1>2

\* Who passed the gates of a model and was given one of its endpoints passes them all.
LEMMA SelectedPasses ==
    ASSUME NEW a \in DOMAIN registry.models, D!ValidModel(registry.models[a]), NEW q,
           registry.models[a].enabled, q.surface \in registry.models[a].surfaces,
           ~D!Retrieval(q) => D!Capable(registry.models[a], q),
           D!Fits(registry.models[a], q),
           NEW exclude, NEW busy, NEW name \in D!Select(a, q, exclude, busy)
    PROVE  /\ name \in Names(registry.models[a]) \ exclude
           /\ Passes(registry.models[a], D!Endpoint(a, name), q)
<1>1. name \notin exclude
  BY SelectedSupports
<1>2. PICK e \in D!ToSet(registry.models[a].endpoints) :
          e.name = name /\ \E p : D!EndpointSupports(e, q, p)
  BY SelectedSupports
<1>3. D!Endpoint(a, name) = e
  BY <1>2, NamesAreUnique
<1>4. e.enabled /\ q.media \subseteq e.media /\ (q.native => q.surface \in e.speaks)
  BY <1>2 DEF D!EndpointSupports
<1>. QED
  BY <1>1, <1>2, <1>3, <1>4 DEF Passes, Names

\* A fallback is another model of the registry, which can take the request.
LEMMA FallbackCan ==
    ASSUME NEW models, Lawful(models), NEW m \in DOMAIN models, NEW q,
           NEW i \in D!FallbackModels(models, m, q)
    PROVE  LET b == models[m].fallback[i]
           IN  /\ b \in DOMAIN models /\ b # m
               /\ D!CanServe(models[b], q) /\ D!Fits(models[b], q)
<1>1. i \in DOMAIN models[m].fallback
  BY DEF D!FallbackModels
<1>2. models[m].fallback[i] \in D!ToSet(models[m].fallback)
  BY <1>1 DEF D!ToSet
<1>3. models[m].fallback[i] \in DOMAIN models
  BY <1>2 DEF Lawful, D!ValidRouting
<1>. QED
  BY <1>3 DEF D!FallbackModels

(***************************************************************************)
(* A route ends at the model that was asked, or at one that can serve and  *)
(* that either holds the prompt or was reached by a small-prompt rule.     *)
(***************************************************************************)
Leads(models, first, q, hops) ==
    /\ hops \in Seq(DOMAIN models) /\ Len(hops) >= 1
    /\ Len(hops) = 1 => hops[1] = first
    /\ \/ D!Last(hops) = first
       \/ /\ D!CanServe(models[D!Last(hops)], q)
          /\ D!Fits(models[D!Last(hops)], q) \/ D!SmallPrompt(models[first], q)

\* One hop keeps that.
LEMMA HopLeads ==
    ASSUME NEW models, Lawful(models), NEW first \in DOMAIN models, NEW q, NEW route,
           Leads(models, first, q, route.hops)
    PROVE  Leads(models, first, q, D!Hop(models, q, route).hops)
<1>. DEFINE m == models[D!Last(route.hops)]
            small == D!BySmallPrompt(models, q, route.hops)
            target == D!Target(models, q, route.hops)
            reason == IF small THEN "small-prompt" ELSE "overflow"
<1>1. CASE D!Hop(models, q, route) = route
  BY <1>1
<1>2. CASE D!Hop(models, q, route) # route
  <2>1. /\ D!Hop(models, q, route) = [hops |-> Append(route.hops, target), why |-> reason]
        /\ target # "" /\ D!CanServe(models[target], q)
        /\ small \/ D!Fits(models[target], q)
    BY <1>2 DEF D!Hop
  <2>2. D!Last(route.hops) \in DOMAIN models
    BY DEF Leads, D!Last
  <2>3. target \in {m.small.target, m.overflow}
    BY <2>1 DEF D!Target
  <2>4. {t \in {m.overflow, m.small.target} : t # ""} \subseteq DOMAIN models
    BY <2>2 DEF Lawful, D!ValidRouting
  <2>5. target \in DOMAIN models
    BY <2>1, <2>3, <2>4
  <2>6. small => D!SmallPrompt(models[first], q)
    BY DEF D!BySmallPrompt, Leads
  <2>8. D!Hop(models, q, route).hops = Append(route.hops, target)
    <3>1. D!Hop(models, q, route) = [hops |-> Append(route.hops, target), why |-> reason]
      BY <2>1
    <3>. HIDE DEF m, small, target, reason
    <3>2. D!Hop(models, q, route).hops = [hops |-> Append(route.hops, target), why |-> reason].hops
      BY <3>1
    <3>. QED
      BY <3>2
  <2>. HIDE DEF m, small, target, reason
  <2>7. /\ Append(route.hops, target) \in Seq(DOMAIN models)
        /\ Len(Append(route.hops, target)) = Len(route.hops) + 1
        /\ Len(route.hops) \in Nat
        /\ D!Last(Append(route.hops, target)) = target
    BY <2>5 DEF Leads, D!Last
  <2>9. Leads(models, first, q, Append(route.hops, target))
    <3>. DEFINE longer == Append(route.hops, target)
    <3>1. longer \in Seq(DOMAIN models) /\ Len(longer) >= 1 /\ Len(longer) # 1
      BY <2>7 DEF Leads
    <3>2. D!CanServe(models[D!Last(longer)], q)
      BY <2>1, <2>7
    <3>3. D!Fits(models[D!Last(longer)], q) \/ D!SmallPrompt(models[first], q)
      BY <2>1, <2>6, <2>7
    <3>. HIDE DEF longer
    <3>4. Leads(models, first, q, longer)
      BY <3>1, <3>2, <3>3 DEF Leads
    <3>. QED
      BY <3>4 DEF longer
  <2>. QED
    BY <2>8, <2>9
<1>. QED
  BY <1>1, <1>2

\* So does the whole route.
LEMMA RouteLeads ==
    ASSUME NEW models, Lawful(models), NEW first \in DOMAIN models, NEW q
    PROVE  Leads(models, first, q, D!ResolveRoute(models, first, q).hops)
<1>. DEFINE start == [hops |-> <<first>>, why |-> ""]
            hop(route) == D!Hop(models, q, route)
<1>1. Leads(models, first, q, start.hops)
  BY DEF Leads, D!Last
<1>2. \A route : Leads(models, first, q, route.hops) => Leads(models, first, q, hop(route).hops)
  BY HopLeads
<1>. HIDE DEF start, hop
<1>3. Leads(models, first, q, hop(hop(hop(hop(start)))).hops)
  BY <1>1, <1>2
<1>. QED
  BY <1>3 DEF D!ResolveRoute, hop, start

(***************************************************************************)
(* The inductive invariant.                                                *)
(***************************************************************************)
Working == phase \in {"chosen", "asking"}

\* What an answer and an entry of the cache are made of.
Answers == [by : STRING, weights : STRING, content : STRING, tenant : STRING,
            whole : BOOLEAN, hit : BOOLEAN]
Entries == [key : STRING \X STRING \X STRING \X STRING \X STRING \X Int \X STRING,
            value : Answers]

\* The key of an entry tells who gave its answer, to whom and to what.
Sound == {x \in Entries : /\ x.value.tenant = x.key[1] /\ x.value.by = x.key[3]
                          /\ x.value.weights = x.key[5] /\ x.value.content = x.key[7]
                          /\ x.value.whole}

DTyped ==
    /\ registry \in Registries /\ call \in Calls
    /\ phase \in D!Ended \cup {"chosen", "asking"}
    /\ past \in Seq(STRING \X STRING \X Int)
    /\ phase \in {"chosen", "asking", "answered", "failed"} =>
          /\ model \in DOMAIN registry.models
          /\ endpoint \in Names(registry.models[model])
          /\ tried \subseteq Names(registry.models[model])

\* Who is at work passes the gates, and the last choice is theirs.
Serving ==
    Working =>
        /\ alias \in STRING /\ ~answer.hit
        /\ Passes(registry.models[model], D!Endpoint(model, endpoint), call)
        /\ past # <<>>
        /\ past[Len(past)] = <<model, endpoint, D!OutputCap(registry.models[model], call)>>

\* The choices before the last were of models that are not asked again, or of machines
\* of this one that are not.
Bygone == {past[i][2] : i \in {j \in 1..(Len(past) - 1) : past[j][1] = model}}
PastKept ==
    /\ Working => \A i \in DOMAIN past : past[i][1] \in exhausted \cup {model}
    /\ Working \/ (phase = "answered" /\ ~answer.hit) => tried = Bygone

OneModel ==
    D!Retrieval(call) =>
        /\ \A i \in DOMAIN past : past[i][1] = call.asked
        /\ Working => model = call.asked

CacheKept == cache \in Seq(Sound) /\ Len(cache) <= MaxLocal

DInv ==
    /\ DTyped /\ Serving /\ PastKept /\ OneModel /\ CacheKept
    /\ D!AutoIsServed /\ D!CacheIsFaithful

\* What is known of the registry and of the call.
LEMMA Known ==
    ASSUME registry \in Registries
    PROVE  /\ Lawful(registry.models)
           /\ \A q \in Calls : D!ValidCall(q)
           /\ \A q \in Calls : q.asked = "auto" => ~D!Retrieval(q)
           /\ \A q \in Calls : q.asked # "auto" => q.asked \in DOMAIN registry.models
BY RegistriesAssumption DEF Lawful

\* The cap of a choice, and its names, have their types.
LEMMA ChoiceTyped ==
    ASSUME registry \in Registries, NEW q \in Calls, NEW m \in DOMAIN registry.models,
           NEW e \in Names(registry.models[m])
    PROVE  /\ <<m, e, D!OutputCap(registry.models[m], q)>> \in STRING \X STRING \X Int
           /\ m \in STRING /\ e \in STRING
           /\ D!Endpoint(m, e) \in D!ToSet(registry.models[m].endpoints)
           /\ D!Endpoint(m, e).weights \in STRING
<1>1. D!ValidModel(registry.models[m]) /\ D!ValidCall(q) /\ m \in STRING
  BY Known DEF Lawful
<1>2. D!OutputCap(registry.models[m], q) \in Int
  BY <1>1, CapIsBounded
<1>3. PICK x \in D!ToSet(registry.models[m].endpoints) : x.name = e
  BY DEF Names
<1>4. D!Endpoint(m, e) = x
  BY <1>1, <1>3, NamesAreUnique
<1>5. x.name \in STRING /\ x.weights \in STRING
  BY <1>1, <1>3 DEF D!ValidModel
<1>. QED
  BY <1>1, <1>2, <1>3, <1>4, <1>5

\* What a new request leaves of the one before.
Afresh ==
    /\ tried' = {} /\ exhausted' = {} /\ answer' = D!NoAnswer
    /\ UNCHANGED <<registry, cache>>

\* A request that begins with a model and an endpoint it passes.
LEMMA BeginKeeps ==
    ASSUME DInv, NEW q \in Calls, NEW a \in STRING, NEW m \in DOMAIN registry.models,
           NEW e \in Names(registry.models[m]), NEW reason,
           Passes(registry.models[m], D!Endpoint(m, e), q),
           D!Retrieval(q) => m = q.asked,
           D!Begin(q, a, m, e, reason),
           Afresh
    PROVE  DInv'
<1>1. registry \in Registries
  BY DEF DInv, DTyped
<1>. DEFINE choice == <<m, e, D!OutputCap(registry.models[m], q)>>
<1>2. /\ call' = q /\ alias' = a /\ phase' = "chosen" /\ model' = m /\ endpoint' = e
      /\ past' = <<choice>> /\ registry' = registry /\ cache' = cache
  BY DEF D!Begin, Afresh
<1>3. choice \in STRING \X STRING \X Int /\ choice[1] = m
  BY <1>1, ChoiceTyped
<1>. HIDE DEF choice
<1>4. /\ past' \in Seq(STRING \X STRING \X Int) /\ Len(past') = 1 /\ past'[1] = choice
      /\ past' # <<>> /\ DOMAIN past' = {1}
  BY <1>2, <1>3
<1>5. ~answer'.hit /\ tried' = {}
  BY DEF D!NoAnswer, Afresh
<1>6. DTyped'
  <2>1. registry' \in Registries /\ call' \in Calls
        /\ phase' \in D!Ended \cup {"chosen", "asking"}
    BY <1>1, <1>2
  <2>2. model' \in DOMAIN registry'.models /\ endpoint' \in Names(registry'.models[model'])
    BY <1>2
  <2>. QED
    BY <1>4, <1>5, <2>1, <2>2 DEF DTyped
<1>7. D!Endpoint(model, endpoint)' = D!Endpoint(m, e)
  BY <1>2 DEF D!Endpoint
<1>8. Serving'
  BY <1>2, <1>4, <1>5, <1>7 DEF Serving, choice
<1>9. PastKept'
  BY <1>2, <1>3, <1>4, <1>5 DEF PastKept, Bygone, Working
<1>10. OneModel'
  BY <1>2, <1>3, <1>4 DEF OneModel
<1>11. CacheKept'
  BY <1>2 DEF DInv, CacheKept
<1>12. D!AutoIsServed' /\ D!CacheIsFaithful'
  BY <1>2, <1>5 DEF D!AutoIsServed, D!CacheIsFaithful
<1>. QED
  BY <1>6, <1>8, <1>9, <1>10, <1>11, <1>12 DEF DInv

\* A refusal that auto may get for this reason.
Excused(q, code) ==
    q.asked = "auto" =>
        \/ code \in {"nothing for auto", "no endpoint"}
        \/ code = "context" /\ \E a \in DOMAIN registry.models :
              D!SmallPrompt(registry.models[a], q) \/ registry.models[a].output < q.n

\* A request that is refused before it has begun.
LEMMA RefuseKeeps ==
    ASSUME DInv, NEW q \in Calls, NEW a, NEW code, Excused(q, code), D!Refuse(q, a, code),
           Afresh
    PROVE  DInv'
<1>1. /\ call' = q /\ phase' = "refused" /\ why' = code
      /\ past' = <<>> /\ registry' = registry /\ cache' = cache
  BY DEF D!Refuse, Afresh
<1>2. ~answer'.hit
  BY DEF D!NoAnswer, Afresh
<1>3. DTyped'
  <2>1. past' \in Seq(STRING \X STRING \X Int)
    BY <1>1
  <2>. QED
    BY <1>1, <1>2, <2>1 DEF DInv, DTyped, D!Ended
<1>6. Serving' /\ PastKept' /\ OneModel'
  BY <1>1 DEF Serving, PastKept, OneModel, Working
<1>7. CacheKept'
  BY <1>1 DEF DInv, CacheKept
<1>4. D!AutoIsServed'
  BY <1>1 DEF D!AutoIsServed, Excused
<1>5. D!CacheIsFaithful'
  BY <1>2 DEF D!CacheIsFaithful
<1>. QED
  BY <1>3, <1>4, <1>5, <1>6, <1>7 DEF DInv

\* Who gets through the gates may be served.
LEMMA VerdictPasses ==
    ASSUME NEW asked, NEW m, NEW q
    PROVE  /\ D!Verdict(asked, m, q) = "" =>
                /\ asked.enabled /\ q.surface \in asked.surfaces
                /\ ~D!Retrieval(q) => D!Capable(m, q)
                /\ D!Fits(m, q)
           /\ D!CanServe(asked, q) /\ D!Capable(m, q) /\ D!Verdict(asked, m, q) # "" =>
                /\ D!Verdict(asked, m, q) = "context"
                /\ ~D!Fits(m, q) \/ D!OutputCap(m, q) = -1
BY DEF D!Verdict, D!CanServe

\* A model that serves, and the endpoint picked for it.
LEMMA PickedBegins ==
    ASSUME DInv, NEW q \in Calls, ~D!Retrieval(q), NEW a \in STRING,
           NEW m \in DOMAIN registry.models, NEW reason, NEW busy,
           D!CanServe(registry.models[m], q), D!Fits(registry.models[m], q),
           NEW e \in D!Select(m, q, {}, busy), D!Begin(q, a, m, e, reason), Afresh
    PROVE  DInv'
<1>1. D!ValidModel(registry.models[m])
  BY Known DEF DInv, DTyped, Lawful
<1>2. e \in Names(registry.models[m]) /\ Passes(registry.models[m], D!Endpoint(m, e), q)
  BY <1>1, SelectedPasses DEF D!CanServe
<1>. QED
  BY <1>2, BeginKeeps

\* A route that is taken, or a fallback where no machine of its end can.
LEMMA SelectOrFallBackKeeps ==
    ASSUME DInv, NEW q \in Calls, ~D!Retrieval(q), NEW a \in STRING,
           NEW m \in DOMAIN registry.models, NEW reason, NEW busy,
           D!CanServe(registry.models[m], q), D!Fits(registry.models[m], q),
           D!SelectOrFallBack(q, a, m, reason, busy), Afresh
    PROVE  DInv'
<1>1. Lawful(registry.models)
  BY Known DEF DInv, DTyped
<1>2. ASSUME NEW e \in D!Select(m, q, {}, busy), D!Begin(q, a, m, e, reason) PROVE DInv'
  BY <1>2, PickedBegins
<1>3. ASSUME NEW i \in D!FallbackModels(registry.models, m, q),
             NEW e \in D!Select(D!Fallback(m, i), q, {}, busy),
             D!Begin(q, a, D!Fallback(m, i), e, "fallback")
      PROVE  DInv'
  <2>. DEFINE b == D!Fallback(m, i)
  <2>1. b \in DOMAIN registry.models /\ D!CanServe(registry.models[b], q)
        /\ D!Fits(registry.models[b], q)
    BY <1>1, FallbackCan DEF D!Fallback
  <2>. QED
    BY <1>3, <2>1, PickedBegins
<1>4. ASSUME D!Refuse(q, a, "no endpoint") PROVE DInv'
  BY <1>4, RefuseKeeps DEF Excused
<1>5. \A i \in D!FirstOf(D!Standing(m, q, {}, busy)) : i \in D!FallbackModels(registry.models, m, q)
  BY DEF D!FirstOf, D!Standing
<1>. QED
  BY <1>2, <1>3, <1>4, <1>5 DEF D!SelectOrFallBack

\* A chat, its siblings and what auto chose for them.
LEMMA AdmitKeeps ==
    ASSUME DInv, NEW q \in Calls, ~D!Retrieval(q), NEW a \in DOMAIN registry.models,
           q.asked = "auto" => a \in D!Candidates(registry.models, q),
           NEW busy, D!Admit(q, a, busy), Afresh
    PROVE  DInv'
<1>. DEFINE models == registry.models
            route == D!ResolveRoute(models, a, q)
            m == D!Last(route.hops)
            verdict == D!Verdict(models[a], models[m], q)
<1>1. Lawful(models) /\ D!ValidCall(q) /\ a \in STRING
  BY Known DEF DInv, DTyped, Lawful
<1>2. Leads(models, a, q, route.hops)
  BY <1>1, RouteLeads
<1>3. m \in DOMAIN models
  BY <1>2 DEF Leads, D!Last
<1>4. D!ValidModel(models[m]) /\ D!ValidModel(models[a])
  BY <1>1, <1>3 DEF Lawful
<1>5. \/ verdict # "" /\ D!Refuse(q, a, verdict)
      \/ verdict = "" /\ D!SelectOrFallBack(q, a, m, route.why, busy)
  BY DEF D!Admit
<1>. HIDE DEF models, route, m, verdict
<1>6. CASE verdict = "" /\ D!SelectOrFallBack(q, a, m, route.why, busy)
  <2>1. /\ models[a].enabled /\ q.surface \in models[a].surfaces
        /\ D!Capable(models[m], q) /\ D!Fits(models[m], q)
    BY <1>6, VerdictPasses DEF verdict
  <2>2. D!CanServe(models[m], q)
    BY <1>2, <2>1 DEF Leads, D!CanServe, m
  <2>. QED
    BY <1>1, <1>3, <1>6, <2>1, <2>2, SelectOrFallBackKeeps DEF models
<1>7. CASE verdict # "" /\ D!Refuse(q, a, verdict)
  <2>1. ASSUME q.asked = "auto"
        PROVE  /\ verdict = "context"
               /\ \E b \in DOMAIN models :
                     D!SmallPrompt(models[b], q) \/ models[b].output < q.n
    <3>1. /\ D!CanServe(models[a], q)
          /\ D!PromptTokens(models[a], q) + D!HEADROOM_TOKENS <= models[a].context
      BY <2>1 DEF D!Candidates, models
    <3>2. D!Fits(models[a], q)
      BY <1>1, <1>4, <3>1, RoomFits
    <3>3. D!CanServe(models[m], q) /\ (D!Fits(models[m], q) \/ D!SmallPrompt(models[a], q))
      BY <1>2, <3>1, <3>2 DEF Leads, m
    <3>4. D!Capable(models[m], q)
      BY <3>3 DEF D!CanServe
    <3>5. verdict = "context" /\ (~D!Fits(models[m], q) \/ D!OutputCap(models[m], q) = -1)
      BY <1>7, <3>1, <3>4, VerdictPasses DEF verdict
    <3>6. D!Fits(models[m], q) => models[m].output < q.n
      <4>1. D!OutputCap(models[m], q) = -1 =>
               models[m].output < q.n \/ ~D!Fits(models[m], q)
        BY <1>1, <1>4, CapIsBounded
      <4>. QED
        BY <3>5, <4>1
    <3>7. \/ D!SmallPrompt(models[a], q)
          \/ models[m].output < q.n
      BY <3>3, <3>6
    <3>. QED
      BY <1>3, <3>5, <3>7 DEF models
  <2>2. Excused(q, verdict)
    BY <2>1 DEF Excused, models
  <2>. QED
    BY <1>7, <2>2, RefuseKeeps
<1>. QED
  BY <1>5, <1>6, <1>7

\* A retrieval stays with the model it names.
LEMMA AdmitRetrievalKeeps ==
    ASSUME DInv, NEW q \in Calls, D!Retrieval(q), q.asked # "auto",
           NEW busy, D!AdmitRetrieval(q, q.asked, busy), Afresh
    PROVE  DInv'
<1>. DEFINE a == q.asked
            m == registry.models[a]
            verdict == D!Verdict(m, m, q)
<1>1. a \in DOMAIN registry.models /\ a \in STRING /\ D!ValidModel(m)
  BY Known DEF DInv, DTyped, Lawful
<1>2. \A code : Excused(q, code)
  BY DEF Excused
<1>3. ASSUME NEW code, D!Refuse(q, a, code) PROVE DInv'
  BY <1>2, <1>3, RefuseKeeps
<1>4. ASSUME verdict = "", NEW e \in D!Select(a, q, {}, busy), D!Begin(q, a, a, e, "")
      PROVE  DInv'
  <2>1. m.enabled /\ q.surface \in m.surfaces /\ D!Fits(m, q)
    BY <1>4, VerdictPasses
  <2>2. e \in Names(m) /\ Passes(m, D!Endpoint(a, e), q)
    BY <1>1, <2>1, SelectedPasses
  <2>. QED
    BY <1>1, <1>4, <2>2, BeginKeeps
<1>. QED
  BY <1>3, <1>4 DEF D!AdmitRetrieval

\* A request comes.
LEMMA ArriveKeeps ==
    ASSUME DInv, D!Arrive
    PROVE  DInv'
<1>1. Afresh
  BY DEF D!Arrive, Afresh
<1>2. PICK q \in Calls, busy \in Busy :
         \/ q.asked # "auto" /\ ~D!Retrieval(q) /\ D!Admit(q, q.asked, busy)
         \/ D!Retrieval(q) /\ D!AdmitRetrieval(q, q.asked, busy)
         \/ q.asked = "auto" /\ \E a \in D!Chosen(registry, q) : D!Admit(q, a, busy)
         \/ q.asked = "auto" /\ D!Refuse(q, "", "nothing for auto")
  BY DEF D!Arrive
<1>3. /\ q.asked # "auto" => q.asked \in DOMAIN registry.models
      /\ q.asked = "auto" => ~D!Retrieval(q)
  BY Known DEF DInv, DTyped
<1>4. \A a \in D!Chosen(registry, q) :
         a \in D!Candidates(registry.models, q) /\ a \in DOMAIN registry.models
  BY DEF D!Chosen, D!Candidates
<1>5. ASSUME q.asked # "auto", ~D!Retrieval(q), D!Admit(q, q.asked, busy) PROVE DInv'
  BY <1>1, <1>3, <1>5, AdmitKeeps
<1>6. ASSUME D!Retrieval(q), D!AdmitRetrieval(q, q.asked, busy) PROVE DInv'
  BY <1>1, <1>3, <1>6, AdmitRetrievalKeeps
<1>7. ASSUME q.asked = "auto", NEW a \in D!Chosen(registry, q), D!Admit(q, a, busy) PROVE DInv'
  BY <1>1, <1>3, <1>4, <1>7, AdmitKeeps
<1>8. ASSUME D!Refuse(q, "", "nothing for auto") PROVE DInv'
  BY <1>1, <1>8, RefuseKeeps DEF Excused
<1>. QED
  BY <1>2, <1>5, <1>6, <1>7, <1>8

(***************************************************************************)
(* Attempts: the next machine of the model, or the next model.             *)
(***************************************************************************)

\* The machines of a model that were chosen so far.
Chosen(m) == {past[i][2] : i \in {j \in 1..Len(past) : past[j][1] = m}}

\* A choice that moves a request on.
LEMMA MoveKeeps ==
    ASSUME DInv, phase = "asking", NEW m \in DOMAIN registry.models,
           NEW e \in Names(registry.models[m]),
           Passes(registry.models[m], D!Endpoint(m, e), call),
           D!Retrieval(call) => m = call.asked,
           <<m, e>> # <<model, endpoint>>, model' = m, endpoint' = e, D!Retargeted,
           tried' = Chosen(m), tried' \subseteq Names(registry.models[m]),
           \A i \in DOMAIN past : past[i][1] \in exhausted' \cup {m},
           UNCHANGED <<registry, call, phase, alias, answer, cache>>
    PROVE  DInv'
<1>. DEFINE choice == <<m, e, D!OutputCap(registry.models[m], call)>>
<1>1. /\ registry \in Registries /\ call \in Calls
      /\ past \in Seq(STRING \X STRING \X Int)
  BY DEF DInv, DTyped
<1>2. choice \in STRING \X STRING \X Int /\ choice[1] = m
  BY <1>1, ChoiceTyped
<1>3. past' = Append(past, choice)
  BY DEF D!Retargeted, D!CapOf
<1>. HIDE DEF choice
<1>4. /\ past' \in Seq(STRING \X STRING \X Int) /\ past' # <<>>
      /\ Len(past') = Len(past) + 1 /\ past'[Len(past')] = choice /\ Len(past) \in Nat
      /\ \A i \in 1..Len(past) : past'[i] = past[i]
      /\ DOMAIN past' = 1..(Len(past) + 1) /\ DOMAIN past = 1..Len(past)
      /\ \A i \in DOMAIN past' : i = Len(past') \/ (i \in DOMAIN past /\ past'[i] = past[i])
  BY <1>1, <1>2, <1>3
<1>5. DTyped'
  <2>1. registry' \in Registries /\ call' \in Calls /\ phase' \in D!Ended \cup {"chosen", "asking"}
    BY <1>1 DEF D!Ended
  <2>2. /\ model' \in DOMAIN registry'.models
        /\ endpoint' \in Names(registry'.models[model'])
        /\ tried' \subseteq Names(registry'.models[model'])
    OBVIOUS
  <2>. QED
    BY <1>4, <2>1, <2>2 DEF DTyped
<1>6. registry' = registry
  OBVIOUS
<1>12. D!Endpoint(model, endpoint)' = D!Endpoint(m, e)
  BY <1>6 DEF D!Endpoint
<1>7. Serving'
  BY <1>4, <1>12 DEF DInv, Serving, Working, choice
<1>8. PastKept'
  <2>1. \A i \in DOMAIN past' : past'[i][1] \in exhausted' \cup {m}
    BY <1>2, <1>4
  <2>2. Len(past') - 1 = Len(past)
    BY <1>4
  <2>. DEFINE his == {j \in 1..Len(past) : past[j][1] = m}
  <2>3. {j \in 1..Len(past) : past'[j][1] = m} = his
    BY <1>4
  <2>6. \A i \in his : past'[i] = past[i]
    BY <1>4
  <2>7. Chosen(m) = {past[i][2] : i \in his}
    BY DEF Chosen
  <2>. HIDE DEF his
  <2>8. {past'[i][2] : i \in his} = {past[i][2] : i \in his}
    BY <2>6
  <2>4. {past'[i][2] : i \in {j \in 1..Len(past) : past'[j][1] = m}} = Chosen(m)
    BY <2>3, <2>7, <2>8
  <2>5. Bygone' = Chosen(m)
    BY <2>2, <2>4 DEF Bygone
  <2>. QED
    BY <2>1, <2>5 DEF PastKept
<1>9. OneModel'
  <2>1. D!Retrieval(call) => \A i \in DOMAIN past' : past'[i][1] = call.asked
    BY <1>2, <1>4 DEF DInv, OneModel
  <2>. QED
    BY <2>1 DEF OneModel
<1>10. CacheKept'
  BY DEF DInv, CacheKept
<1>11. D!AutoIsServed' /\ D!CacheIsFaithful'
  BY DEF DInv, Serving, Working, D!AutoIsServed, D!CacheIsFaithful
<1>. QED
  BY <1>5, <1>7, <1>8, <1>9, <1>10, <1>11 DEF DInv

\* An ending without an answer from the cache.
LEMMA EndKeeps ==
    ASSUME DInv, phase = "asking", phase' \in {"answered", "failed"},
           phase' = "answered" => tried' = tried, tried' \subseteq tried \cup {endpoint},
           ~answer'.hit, CacheKept', UNCHANGED <<registry, call, model, endpoint, past>>
    PROVE  DInv'
<1>1. DTyped'
  BY DEF DInv, DTyped, D!Ended
<1>2. Serving' /\ OneModel'
  BY DEF DInv, Serving, OneModel, Working
<1>3. PastKept'
  BY DEF DInv, PastKept, Working, Bygone
<1>4. D!AutoIsServed' /\ D!CacheIsFaithful'
  BY DEF D!AutoIsServed, D!CacheIsFaithful
<1>. QED
  BY <1>1, <1>2, <1>3, <1>4 DEF DInv

\* Another endpoint of the model, a fallback of it, or the end.
LEMMA ElsewhereKeeps ==
    ASSUME DInv, phase = "asking", NEW busy, D!Elsewhere(busy, D!Fail), D!Retargeted,
           UNCHANGED <<registry, call, alias, answer, cache>>
    PROVE  DInv'
<1>. DEFINE burned == tried \cup {endpoint}
            models == registry.models
<1>1. /\ Lawful(models) /\ model \in DOMAIN models /\ endpoint \in Names(models[model])
      /\ tried \subseteq Names(models[model]) /\ D!ValidModel(models[model])
  BY Known DEF DInv, DTyped, Lawful
<1>2. /\ Passes(models[model], D!Endpoint(model, endpoint), call) /\ past # <<>>
      /\ past[Len(past)][1] = model /\ past[Len(past)][2] = endpoint /\ ~answer.hit
      /\ past \in Seq(STRING \X STRING \X Int)
  BY DEF DInv, DTyped, Serving, Working
<1>3. /\ \A i \in DOMAIN past : past[i][1] \in exhausted \cup {model}
      /\ tried = Bygone
      /\ D!Retrieval(call) => model = call.asked
  BY DEF DInv, PastKept, OneModel, Working
<1>4. Chosen(model) = burned
  <2>1. Len(past) \in Nat \ {0} /\ DOMAIN past = 1..Len(past)
    BY <1>2
  <2>5. \A n \in Nat \ {0} : \A j \in 1..n : j \in 1..(n - 1) \/ j = n
    OBVIOUS
  <2>2. \A j \in 1..Len(past) : j \in 1..(Len(past) - 1) \/ j = Len(past)
    BY <2>1, <2>5
  <2>3. 1..(Len(past) - 1) \subseteq 1..Len(past) /\ Len(past) \in 1..Len(past)
    BY <2>1
  <2>4. {j \in 1..Len(past) : past[j][1] = model}
            = {j \in 1..(Len(past) - 1) : past[j][1] = model} \cup {Len(past)}
    BY <1>2, <2>2, <2>3
  <2>. QED
    BY <1>2, <1>3, <2>4 DEF Chosen, Bygone
<1>5. ASSUME NEW e \in D!Select(model, call, burned, busy), endpoint' = e, tried' = burned,
             UNCHANGED <<model, exhausted, phase, row>>
      PROVE  DInv'
  <2>1. e \in Names(models[model]) \ burned /\ Passes(models[model], D!Endpoint(model, e), call)
    BY <1>1, <1>2, SelectedPasses DEF Passes
  <2>2. <<model, e>> # <<model, endpoint>>
    BY <2>1
  <2>. QED
    BY <1>1, <1>3, <1>4, <1>5, <2>1, <2>2, MoveKeeps
<1>6. ASSUME ~D!Retrieval(call), NEW i \in D!Standing(model, call, exhausted, busy),
             NEW e \in D!Select(D!Fallback(model, i), call, {}, busy), NEW passed,
             D!Switch(D!Fallback(model, i), e, passed), UNCHANGED <<phase, row>>
      PROVE  DInv'
  <2>. DEFINE b == D!Fallback(model, i)
  <2>1. i \in D!FallbackModels(models, model, call) /\ b \notin exhausted
    BY DEF D!Standing
  <2>2. /\ b \in DOMAIN models /\ b # model
        /\ D!CanServe(models[b], call) /\ D!Fits(models[b], call)
    BY <1>1, <2>1, FallbackCan DEF D!Fallback
  <2>3. D!ValidModel(models[b])
    BY <1>1, <2>2 DEF Lawful
  <2>4. e \in Names(models[b]) /\ Passes(models[b], D!Endpoint(b, e), call)
    BY <2>2, <2>3, SelectedPasses DEF D!CanServe
  <2>5. /\ model' = b /\ endpoint' = e /\ tried' = {}
        /\ exhausted' = exhausted \cup {model} \cup passed
    BY <1>6 DEF D!Switch
  <2>6. Chosen(b) = {}
    BY <1>2, <1>3, <2>1, <2>2 DEF Chosen
  <2>7. <<b, e>> # <<model, endpoint>>
    BY <2>2
  <2>. HIDE DEF b
  <2>. QED
    BY <1>3, <1>6, <2>2, <2>4, <2>5, <2>6, <2>7, MoveKeeps
<1>7. ASSUME tried' = burned, D!Fail, UNCHANGED <<model, endpoint>>
      PROVE  DInv'
  <2>1. past' = past
    BY <1>7 DEF D!Retargeted
  <2>2. CacheKept'
    BY DEF DInv, CacheKept
  <2>. QED
    BY <1>2, <1>7, <2>1, <2>2, EndKeeps DEF D!Fail
<1>8. D!FirstOf(D!Standing(model, call, exhausted, busy))
          \subseteq D!Standing(model, call, exhausted, busy)
  BY DEF D!FirstOf
<1>. QED
  BY <1>5, <1>6, <1>7, <1>8 DEF D!Elsewhere, D!MayFallBack

\* An attempt that fails moves the request on or ends it.
LEMMA FailsKeep ==
    ASSUME DInv, D!Full \/ D!FailsAndMoves \/ D!FailsForGood \/ D!PlanRaises \/ D!Malformed
    PROVE  DInv'
<1>1. ASSUME D!Full PROVE DInv'
  BY <1>1, ElsewhereKeeps DEF D!Full
<1>2. ASSUME D!FailsAndMoves PROVE DInv'
  BY <1>2, ElsewhereKeeps DEF D!FailsAndMoves
<1>3. ASSUME phase = "asking", phase' = "failed",
             UNCHANGED <<registry, call, model, endpoint, tried, past, answer, cache>>
      PROVE  DInv'
  <2>1. ~answer'.hit
    BY <1>3 DEF DInv, Serving, Working
  <2>2. CacheKept'
    BY <1>3 DEF DInv, CacheKept
  <2>. QED
    BY <1>3, <2>1, <2>2, EndKeeps
<1>4. ASSUME D!FailsForGood PROVE DInv'
  BY <1>3, <1>4 DEF D!FailsForGood, D!Fail
<1>5. ASSUME D!PlanRaises PROVE DInv'
  BY <1>3, <1>5 DEF D!PlanRaises
<1>6. ASSUME D!Malformed PROVE DInv'
  BY <1>3, <1>6 DEF D!Malformed
<1>. QED
  BY <1>1, <1>2, <1>4, <1>5, <1>6

(***************************************************************************)
(* The cache.                                                              *)
(***************************************************************************)

\* A sequence from which an entry is taken out is of the same things and no longer.
LEMMA RemoveAtShrinks ==
    ASSUME NEW S, NEW s \in Seq(S), NEW i \in DOMAIN s
    PROVE  D!RemoveAt(s, i) \in Seq(S) /\ Len(D!RemoveAt(s, i)) <= Len(s)
<1>1. Len(s) \in Nat /\ i \in 1..Len(s)
  OBVIOUS
<1>2. SubSeq(s, 1, i - 1) \in Seq(S) /\ Len(SubSeq(s, 1, i - 1)) = i - 1
  BY <1>1
<1>3. SubSeq(s, i + 1, Len(s)) \in Seq(S) /\ Len(SubSeq(s, i + 1, Len(s))) = Len(s) - i
  BY <1>1
<1>. QED
  BY <1>1, <1>2, <1>3 DEF D!RemoveAt

\* To make room and to take out an entry leaves room for one.
LEMMA RoomForOne ==
    ASSUME CacheKept, NEW k
    PROVE  LET kept == D!Unheld(IF Len(cache) >= MaxLocal THEN Tail(cache) ELSE cache, k)
           IN  kept \in Seq(Sound) /\ Len(kept) + 1 <= MaxLocal
<1>. DEFINE trimmed == IF Len(cache) >= MaxLocal THEN Tail(cache) ELSE cache
<1>1. MaxLocal \in Nat \ {0} /\ cache \in Seq(Sound) /\ Len(cache) \in Nat /\ Len(cache) <= MaxLocal
  BY RegistriesAssumption DEF CacheKept
<1>2. trimmed \in Seq(Sound) /\ Len(trimmed) + 1 <= MaxLocal /\ Len(trimmed) \in Nat
  BY <1>1
<1>. HIDE DEF trimmed
<1>3. CASE \E i \in DOMAIN trimmed : trimmed[i].key = k
  <2>. DEFINE place == CHOOSE i \in DOMAIN trimmed : trimmed[i].key = k
  <2>1. place \in DOMAIN trimmed
    BY <1>3
  <2>2. D!Unheld(trimmed, k) = D!RemoveAt(trimmed, place)
    BY <1>3 DEF D!Unheld
  <2>. HIDE DEF place
  <2>3. D!RemoveAt(trimmed, place) \in Seq(Sound) /\ Len(D!RemoveAt(trimmed, place)) <= Len(trimmed)
    BY <1>2, <2>1, RemoveAtShrinks
  <2>4. Len(D!RemoveAt(trimmed, place)) \in Nat
    BY <2>3
  <2>. QED
    BY <1>1, <1>2, <2>2, <2>3, <2>4 DEF trimmed
<1>4. CASE ~\E i \in DOMAIN trimmed : trimmed[i].key = k
  BY <1>2, <1>4 DEF D!Unheld, trimmed
<1>. QED
  BY <1>3, <1>4

\* What is stored is under the key of who gave it.
LEMMA StoreKeeps ==
    ASSUME DInv, phase = "asking", NEW whole \in BOOLEAN
    PROVE  LET a == [by |-> model, weights |-> D!Weights, content |-> call.content,
                     tenant |-> call.tenant, whole |-> whole, hit |-> FALSE]
           IN  D!Store(a) \in Seq(Sound) /\ Len(D!Store(a)) <= MaxLocal
<1>. DEFINE a == [by |-> model, weights |-> D!Weights, content |-> call.content,
                  tenant |-> call.tenant, whole |-> whole, hit |-> FALSE]
            kept == D!Unheld(IF Len(cache) >= MaxLocal THEN Tail(cache) ELSE cache, key)
            entry == [key |-> key, value |-> a]
            cap == D!OutputCap(registry.models[model], call)
<1>1. /\ registry \in Registries /\ call \in Calls /\ model \in DOMAIN registry.models
      /\ endpoint \in Names(registry.models[model]) /\ alias \in STRING /\ past # <<>>
      /\ past[Len(past)] = <<model, endpoint, cap>> /\ CacheKept
  BY DEF DInv, DTyped, Serving, Working
<1>2. /\ model \in STRING /\ D!Weights \in STRING
      /\ <<model, endpoint, cap>> \in STRING \X STRING \X Int
  BY <1>1, ChoiceTyped DEF D!Weights
<1>3. call.content \in STRING /\ call.tenant \in STRING /\ call.surface \in STRING
  <2>1. D!ValidCall(call)
    BY <1>1, Known
  <2>. QED
    BY <2>1 DEF D!ValidCall
<1>4. kept \in Seq(Sound) /\ Len(kept) + 1 <= MaxLocal
  BY <1>1, RoomForOne
<1>5. CASE key = D!NoKey \/ D!BuildKey(D!Cap) # key \/ ~whole
  BY <1>1, <1>5 DEF D!Store, CacheKept
<1>6. CASE ~(key = D!NoKey \/ D!BuildKey(D!Cap) # key \/ ~whole)
  <2>1. D!Cap = cap /\ cap \in Int
    BY <1>1, <1>2 DEF D!Cap, D!Last
  <2>2. key = <<call.tenant, alias, model, call.surface, D!Weights, cap, call.content>>
    BY <1>6, <2>1 DEF D!BuildKey
  <2>. HIDE DEF cap
  <2>3. a \in Answers /\ a.whole /\ a.by = model /\ a.weights = D!Weights
        /\ a.content = call.content /\ a.tenant = call.tenant
    BY <1>2, <1>3, <1>6 DEF Answers
  <2>4. key \in STRING \X STRING \X STRING \X STRING \X STRING \X Int \X STRING
    BY <1>1, <1>2, <1>3, <2>1, <2>2
  <2>5. /\ key[1] = call.tenant /\ key[3] = model /\ key[5] = D!Weights
        /\ key[7] = call.content
    BY <2>2
  <2>8. D!Store(a) = Append(kept, entry)
    BY <1>6 DEF D!Store
  <2>. HIDE DEF a, kept
  <2>6. entry \in Entries /\ entry.key = key /\ entry.value = a
    BY <2>3, <2>4 DEF Entries
  <2>7. entry \in Sound
    BY <2>3, <2>5, <2>6 DEF Sound
  <2>. HIDE DEF entry
  <2>9. Append(kept, entry) \in Seq(Sound) /\ Len(Append(kept, entry)) <= MaxLocal
    BY <1>4, <2>7
  <2>. QED
    BY <2>8, <2>9 DEF a
<1>. QED
  BY <1>5, <1>6

\* An answer of a backend.
LEMMA AnswersKeeps ==
    ASSUME DInv, D!Answers
    PROVE  DInv'
<1>1. PICK whole \in BOOLEAN :
         LET a == [by |-> model, weights |-> D!Weights, content |-> call.content,
                   tenant |-> call.tenant, whole |-> whole, hit |-> FALSE]
         IN  answer' = a /\ cache' = D!Store(a)
  BY DEF D!Answers
<1>2. phase = "asking" /\ phase' = "answered"
      /\ UNCHANGED <<registry, call, model, endpoint, tried, past>>
  BY DEF D!Answers
<1>3. ~answer'.hit
  BY <1>1
<1>4. CacheKept'
  BY <1>1, <1>2, StoreKeeps DEF CacheKept
<1>. QED
  BY <1>2, <1>3, <1>4, EndKeeps

\* A look at the cache: what is found is what was asked for.
LEMMA LookUpKeeps ==
    ASSUME DInv, D!LookUp
    PROVE  DInv'
<1>1. /\ phase = "chosen" /\ phase' \in {"asking", "answered"}
      /\ UNCHANGED <<registry, call, alias, model, endpoint, tried, exhausted, past, cache>>
  BY DEF D!LookUp
<1>2. DTyped' /\ OneModel' /\ CacheKept' /\ D!AutoIsServed'
  <2>1. DTyped'
    BY <1>1 DEF DInv, DTyped, D!Ended
  <2>2. OneModel'
    BY <1>1 DEF DInv, OneModel, Working
  <2>3. CacheKept'
    BY <1>1 DEF DInv, CacheKept
  <2>4. D!AutoIsServed'
    BY <1>1 DEF D!AutoIsServed
  <2>. QED
    BY <2>1, <2>2, <2>3, <2>4
<1>3. CASE phase' = "asking" /\ answer' = answer
  <2>1. D!Endpoint(model, endpoint)' = D!Endpoint(model, endpoint)
    BY <1>1 DEF D!Endpoint
  <2>2. Serving'
    BY <1>1, <1>3, <2>1 DEF DInv, Serving, Working
  <2>3. PastKept'
    BY <1>1, <1>3 DEF DInv, PastKept, Working, Bygone
  <2>4. D!CacheIsFaithful'
    BY <1>1, <1>3, <2>2 DEF Serving, Working, D!CacheIsFaithful
  <2>. QED
    BY <1>2, <2>2, <2>3, <2>4 DEF DInv
<1>4. CASE /\ phase' = "answered" /\ key' # D!NoKey
           /\ \E i \in D!Held(key') : answer' = [cache[i].value EXCEPT !.hit = TRUE]
  <2>1. PICK i \in DOMAIN cache :
           cache[i].key = key' /\ answer' = [cache[i].value EXCEPT !.hit = TRUE]
    BY <1>4 DEF D!Held
  <2>2. cache[i] \in Sound
    BY <2>1 DEF DInv, CacheKept
  <2>. DEFINE value == cache[i].value
  <2>3. /\ value \in Answers /\ value.whole
        /\ value.tenant = key'[1] /\ value.by = key'[3]
        /\ value.weights = key'[5] /\ value.content = key'[7]
    BY <2>1, <2>2 DEF Sound, Entries
  <2>4. key' = <<call.tenant, alias, model, call.surface, D!Weights, D!Cap, call.content>>
    BY <1>4 DEF D!LookUp, D!BuildKey
  <2>. HIDE DEF value
  <2>5. /\ value.tenant = call.tenant /\ value.by = model
        /\ value.weights = D!Weights /\ value.content = call.content
    BY <2>3, <2>4
  <2>6. answer' = [value EXCEPT !.hit = TRUE]
    BY <2>1 DEF value
  <2>7. /\ answer'.hit /\ answer'.whole /\ answer'.by = model /\ answer'.weights = D!Weights
        /\ answer'.tenant = call.tenant /\ answer'.content = call.content
    BY <2>3, <2>5, <2>6 DEF Answers
  <2>8. D!Weights' = D!Weights
    BY <1>1 DEF D!Weights, D!Endpoint
  <2>9. D!CacheIsFaithful'
    BY <1>1, <2>7, <2>8 DEF D!CacheIsFaithful
  <2>10. Serving' /\ PastKept'
    BY <1>4, <2>7 DEF Serving, PastKept, Working
  <2>. QED
    BY <1>2, <2>9, <2>10 DEF DInv
<1>. QED
  BY <1>3, <1>4 DEF D!LookUp

\* What is left of a step that moves none of these but the cache.
LEMMA SameKeeps ==
    ASSUME DInv, CacheKept',
           UNCHANGED <<registry, call, phase, alias, model, endpoint, tried, exhausted, past,
                       why, answer>>
    PROVE  DInv'
<1>1. D!Endpoint(model, endpoint)' = D!Endpoint(model, endpoint)
  BY DEF D!Endpoint
<1>2. DTyped'
  BY DEF DInv, DTyped
<1>3. Serving'
  BY <1>1 DEF DInv, Serving, Working
<1>4. PastKept' /\ OneModel'
  BY DEF DInv, PastKept, OneModel, Working, Bygone
<1>5. D!AutoIsServed'
  BY DEF DInv, D!AutoIsServed
<1>6. D!CacheIsFaithful'
  BY <1>1 DEF DInv, D!CacheIsFaithful, D!Weights
<1>. QED
  BY <1>2, <1>3, <1>4, <1>5, <1>6 DEF DInv

\* The oldest entry goes.
LEMMA ExpireKeeps ==
    ASSUME DInv, D!Expire
    PROVE  DInv'
<1>1. cache # <<>> /\ cache' = Tail(cache) /\ CacheKept /\ MaxLocal \in Nat
  BY RegistriesAssumption DEF D!Expire, DInv
<1>2. CacheKept'
  BY <1>1 DEF CacheKept
<1>. QED
  BY <1>2, SameKeeps DEF D!Expire

-----------------------------------------------------------------------------
(* The theorems.                                                           *)

\* It holds before any request.
LEMMA DInit ==
    ASSUME D!Init
    PROVE  DInv
<1>0. /\ registry \in Registries /\ call \in Calls /\ phase = "idle" /\ past = <<>>
      /\ ~answer.hit /\ cache = <<>>
  BY DEF D!Init, D!NoAnswer
<1>1. CacheKept
  <2>1. <<>> \in Seq(Sound) /\ Len(<<>>) = 0 /\ MaxLocal \in Nat
    BY RegistriesAssumption
  <2>. QED
    BY <1>0, <2>1 DEF CacheKept
<1>2. DTyped
  <2>1. <<>> \in Seq(STRING \X STRING \X Int)
    OBVIOUS
  <2>. QED
    BY <1>0, <2>1 DEF DTyped, D!Ended
<1>3. Serving /\ PastKept /\ OneModel
  BY <1>0 DEF Serving, PastKept, OneModel, Working
<1>4. D!AutoIsServed /\ D!CacheIsFaithful
  BY <1>0 DEF D!AutoIsServed, D!CacheIsFaithful
<1>. QED
  BY <1>1, <1>2, <1>3, <1>4 DEF DInv

\* Every step keeps it: those of the health of endpoints touch none of it.
LEMMA DStep ==
    ASSUME DInv, [NextBoth]_all
    PROVE  DInv'
<1>1. ASSUME D!Next PROVE DInv'
  BY <1>1, ArriveKeeps, LookUpKeeps, ExpireKeeps, FailsKeep, AnswersKeeps DEF D!Next
<1>2. ASSUME UNCHANGED request PROVE DInv'
  <2>1. CacheKept'
    BY <1>2 DEF request, DInv, CacheKept
  <2>. QED
    BY <1>2, <2>1, SameKeeps DEF request
<1>. QED
  BY <1>1, <1>2 DEF NextBoth, HealthMoves, DispatchMoves, all

\* What it says of who serves.
LEMMA DInvServes ==
    ASSUME DInv
    PROVE  D!ServedAsAllowed
<1>1. D!TypeOK
  BY DEF DInv, DTyped, CacheKept, Names, D!TypeOK
<1>2. D!GatesHold
  BY DEF DInv, Serving, Working, Passes, D!GatesHold
<1>3. D!CapIsTheServers
  <2>. SUFFICES ASSUME phase = "asking", D!Planned, ~D!Retrieval(call)
                PROVE  LET m == registry.models[model]
                       IN  /\ D!Cap >= 1
                           /\ D!Cap * call.n <= m.output
                           /\ call.wants > 0 => D!Cap <= call.wants
                           /\ \/ D!Cap <= D!MIN_OUTPUT_IN_DOUBT
                              \/ D!Cap + D!PromptTokens(m, call) <= m.context
    BY DEF D!CapIsTheServers
  <2>1. /\ registry \in Registries /\ call \in Calls /\ model \in DOMAIN registry.models
        /\ past # <<>>
        /\ past[Len(past)] = <<model, endpoint, D!OutputCap(registry.models[model], call)>>
    BY DEF DInv, DTyped, Serving, Working
  <2>2. D!ValidModel(registry.models[model]) /\ D!ValidCall(call)
    BY <2>1, Known DEF Lawful
  <2>3. D!Cap = D!OutputCap(registry.models[model], call) /\ D!Cap # -1
    BY <2>1 DEF D!Cap, D!Last, D!Planned
  <2>. QED
    BY <2>2, <2>3, CapIsBounded
<1>4. D!VectorsOfOneModel
  BY DEF DInv, OneModel, D!VectorsOfOneModel
<1>5. D!HeaderIsOfTheServer
  BY DEF DInv, PastKept, Bygone, D!HeaderIsOfTheServer
<1>. QED
  BY <1>1, <1>2, <1>3, <1>4, <1>5 DEF DInv, D!ServedAsAllowed

\* Whoever serves a request - the model it names, what auto or a rule chose, a machine or
\* a fallback after one that failed - passes the gates of core/capability.py, is asked for
\* no more than it may write, and x-litegate-failed-over names its own machines; a
\* retrieval stays with its model, and auto chooses among those that can.
THEOREM RequestsAreServedAsAllowed == SpecBoth => []ServedAsAllowed
<1>1. InitBoth => DInv
  BY DInit DEF InitBoth
<1>2. DInv /\ [NextBoth]_all => DInv'
  BY DStep
<1>3. DInv => ServedAsAllowed
  BY DInvServes DEF ServedAsAllowed
<1>. QED
  BY <1>1, <1>2, <1>3, PTL DEF SpecBoth

\* What core/responsecache.py answers is what the weights chosen for the request answered
\* to the same tenant and question before, whole.
THEOREM CachedAnswersAreFaithful == SpecBoth => []CacheIsFaithful
<1>1. InitBoth => DInv
  BY DInit DEF InitBoth
<1>2. DInv /\ [NextBoth]_all => DInv'
  BY DStep
<1>3. DInv => CacheIsFaithful
  BY DEF DInv, CacheIsFaithful
<1>. QED
  BY <1>1, <1>2, <1>3, PTL DEF SpecBoth
=============================================================================
