-------------------------- MODULE CredentialProofs --------------------------
(***************************************************************************)
(* Proofs about KeyVault and Accounts, the two parts of MCCredentials.      *)
(*                                                                         *)
(* The vault, for every number of keys, processes and re-sealings,         *)
(* whatever fails, is restarted or is changed from outside: that no copy   *)
(* is stranded needs nothing of the re-sealings but that a row is compared *)
(* before it is written, for a copy moves only under the environment that  *)
(* knows both secrets, and moves to the new one.  What a re-sealing        *)
(* recorded needs JobKept, its books along the way.                        *)
(*                                                                         *)
(* The accounts, for every set of names and of requests, either database   *)
(* and every table a gateway may start on: AccountsInv, below.             *)
(***************************************************************************)
EXTENDS MCCredentials, WellFoundedInduction, FiniteSetTheorems, TLAPS

(***************************************************************************)
(* A set of keys that is not empty has a least one: the intervals up to    *)
(* its members are finite sets, and strict inclusion is well-founded.      *)
(***************************************************************************)
LEMMA LeastKey ==
    ASSUME NEW S \in SUBSET Keys, S # {}
    PROVE  \E x \in S : \A y \in S : x <= y
<1>. DEFINE T == {1..x : x \in S}
            R == StrictSubsetOrdering(Keys)
            F == FiniteSubsetsOf(Keys)
<1>1. Last \in Nat /\ Keys = 1..Last
  BY VaultAssumption DEF Keys
<1>2. F = SUBSET Keys
  BY <1>1, FS_Interval, FS_FiniteSubsetsOfFinite, 1 \in Int, Last \in Int
<1>3. IsWellFoundedOn(R, F)
  BY FS_StrictSubsetOrderingWellFounded
<1>4. T \subseteq SUBSET Keys
  BY <1>1
<1>5. T # {}
  <2>1. PICK x \in S : TRUE
    OBVIOUS
  <2>. QED
    BY <2>1, 1..x \in T
<1>6. \E t \in T : \A u \in T : ~(<<u, t>> \in R)
  <2>. HIDE DEF R, T, F
  <2>. QED
    BY <1>2, <1>3, <1>4, <1>5, WFMin
<1>7. \A x, y \in S : y < x => <<1..y, 1..x>> \in R
  <2>. SUFFICES ASSUME NEW x \in S, NEW y \in S, y < x PROVE <<1..y, 1..x>> \in R
    OBVIOUS
  <2>1. 1..y \subseteq 1..x /\ x \in 1..x /\ x \notin 1..y
    BY <1>1
  <2>2. 1..y \in SUBSET Keys /\ 1..x \in SUBSET Keys
    BY <1>1
  <2>3. 1..y # 1..x
    BY <2>1
  <2>. QED
    BY <2>1, <2>2, <2>3 DEF StrictSubsetOrdering
<1>8. PICK x \in S : \A u \in T : ~(<<u, 1..x>> \in R)
  BY <1>6
<1>9. \A y \in S : ~(y < x)
  <2>. HIDE DEF R
  <2>. QED
    BY <1>7, <1>8
<1>. QED
  BY <1>1, <1>9

(***************************************************************************)
(* A re-sealing takes its rows one by one: the next one is one of its own, *)
(* and the rest is a list of the same kind with one row less.              *)
(***************************************************************************)
LEMMA NextRowIsOwn ==
    ASSUME TypeOK, NEW j \in Jobs, DOMAIN jobs[j].todo # {}
    PROVE  /\ NextRow(j) \in Keys /\ jobs[j].todo[NextRow(j)] \in Copies
           /\ RestOf(j) \in Todos
           /\ Cardinality(DOMAIN jobs[j].todo) \in Nat \ {0}
           /\ Cardinality(DOMAIN RestOf(j)) = Cardinality(DOMAIN jobs[j].todo) - 1
<1>. DEFINE todo == jobs[j].todo
            k == NextRow(j)
<1>1. PICK K \in SUBSET Keys : todo \in [K -> Copies]
  <2>1. jobs[j] \in JobTypes
    BY DEF TypeOK
  <2>2. todo \in Todos
    BY <2>1 DEF JobTypes
  <2>. QED
    BY <2>2 DEF Todos
<1>2. K = DOMAIN todo /\ K # {}
  BY <1>1
<1>3. k \in K
  BY <1>2, LeastKey DEF NextRow
<1>4. todo[k] \in Copies
  BY <1>1, <1>3
<1>5. RestOf(j) \in [K \ {k} -> Copies]
  BY <1>1, <1>2 DEF RestOf
<1>6. IsFiniteSet(K)
  BY VaultAssumption, FS_Interval, FS_Subset, 1 \in Int, Last \in Int DEF Keys
<1>7. Cardinality(K) \in Nat \ {0}
  BY <1>2, <1>6, FS_CardinalityType, FS_EmptySet
<1>8. Cardinality(K \ {k}) = Cardinality(K) - 1
  BY <1>3, <1>6, FS_RemoveElement
<1>9. RestOf(j) \in Todos /\ DOMAIN RestOf(j) = K \ {k}
  BY <1>5 DEF Todos
<1>. QED
  BY <1>2, <1>3, <1>4, <1>7, <1>8, <1>9

(***************************************************************************)
(* What a process takes for a copy under its previous secret is a sound    *)
(* one that Old sealed for the key of the row, and the process knows both. *)
(***************************************************************************)
LEMMA PreviousIsSound ==
    ASSUME VaultAssumption, NEW c \in Environments, NEW k \in Keys, NEW copy \in Copies,
           Inspect(c, k, copy) = "previous"
    PROVE  /\ c = During
           /\ copy.format \in {"v1", "v2"} /\ copy.secret = Old
           /\ copy.key = k /\ ~copy.damaged
<1>1. Tried(c, copy) = "previous" /\ copy.key = k
  BY DEF Inspect
<1>2. copy # NoCopy
  BY DEF Copies, NoCopy
<1>3. /\ c.current # NoSecret
      /\ copy.format \in {"v1", "v2"}
      /\ Opens(Previous(c), copy)
  <2>. DEFINE off == c.current = NoSecret
              now == copy.format \in {"v1", "v2"} /\ Opens(c.current, copy)
              before == copy.format \in {"v1", "v2"} /\ Opens(Previous(c), copy)
  <2>1. Tried(c, copy) = IF copy = NoCopy THEN "none" ELSE IF off THEN "off"
                         ELSE IF now THEN "current" ELSE IF before THEN "previous" ELSE "lost"
    BY DEF Tried
  <2>2. before
    <3>. HIDE DEF off, now, before
    <3>. QED
      BY <1>1, <1>2, <2>1
  <2>. QED
    BY <2>2 DEF Opens, Previous
<1>4. c = During
  BY <1>3 DEF Environments, Before, During, After, SwitchedOff, Opens, Previous
<1>. QED
  BY <1>1, <1>3, <1>4 DEF Opens, Previous, During

(***************************************************************************)
(* The books of a re-sealing that has not begun.                           *)
(***************************************************************************)
LEMMA IdleIsTyped ==
    ASSUME VaultAssumption
    PROVE  /\ Idle \in JobTypes
           /\ [Idle EXCEPT !.status = "killed"] \in JobTypes
<1>1. Idle.worker \in Workers
  BY DEF Idle
<1>2. NoRows \in [{} -> Copies] /\ {} \in SUBSET Keys
  BY DEF NoRows
<1>3. NoRows \in Todos
  BY <1>2 DEF Todos
<1>4. 0 \in 0..Last /\ -1 \in -1..Last
  BY DEF VaultAssumption
<1>. QED
  BY <1>1, <1>3, <1>4 DEF Idle, JobTypes

\* It holds at the start: every copy is under Old, and no re-sealing has begun.
LEMMA InitIInv ==
    ASSUME VaultAssumption, Init
    PROVE  IInv
<1>1. Last \in Nat \ {0} /\ 1 \in Keys /\ Last \in Keys
  BY DEF VaultAssumption, Keys
<1>2. {Sealed(Old, 1), [Sealed(Old, Last) EXCEPT !.format = "v1"], NoCopy}
        \subseteq Copies \cup {NoCopy}
  <2>1. Sealed(Old, 1) \in Copies
    BY <1>1 DEF Copies, Sealed
  <2>2. Sealed(Old, Last) \in Copies
    BY <1>1 DEF Copies, Sealed
  <2>3. \A copy \in Copies : [copy EXCEPT !.format = "v1"] \in Copies
    BY DEF Copies
  <2>. QED
    BY <2>1, <2>2, <2>3
<1>3. rows \in [Keys -> [there : BOOLEAN, revoked : BOOLEAN, copy : Copies \cup {NoCopy}]]
  BY <1>2 DEF Init
<1>4. conf \in [Workers -> Environments]
  BY DEF Init, Environments
<1>5. jobs \in [Jobs -> JobTypes] /\ \A j \in Jobs : jobs[j] = Idle
  BY IdleIsTyped DEF Init
<1>6. TypeOK
  <2>1. told \in BOOLEAN /\ late \subseteq Keys
    BY DEF Init
  <2>2. events \in 0..MaxEvents
    BY DEF Init, VaultAssumption
  <2>. QED
    BY <1>3, <1>4, <1>5, <2>1, <2>2 DEF TypeOK
<1>7. \A j \in Jobs : JobKept(j)
  BY <1>5 DEF JobKept, Idle
<1>. QED
  BY <1>6, <1>7 DEF Init, IInv, NoneStranded

(***************************************************************************)
(* Every step keeps the types.                                             *)
(***************************************************************************)
LEMMA TypesKept ==
    ASSUME VaultAssumption, IInv, [Next]_vars
    PROVE  TypeOK'
<1>. USE DEF IInv
<1>. DEFINE Row == [there : BOOLEAN, revoked : BOOLEAN, copy : Copies \cup {NoCopy}]
<1>0. /\ TypeOK
      /\ MaxEvents \in Nat /\ Last \in Nat \ {0}
      /\ \A k \in Keys : rows[k] \in Row
  BY DEF TypeOK, VaultAssumption
<1>e. Event => events' \in 0..MaxEvents
  BY <1>0 DEF Event, TypeOK
<1>s. \A s \in {Old, New}, k \in Keys : Sealed(s, k) \in Copies
  BY DEF Sealed, Copies
<1>1. ASSUME NEW w \in Workers, Survey(w) PROVE TypeOK'
  BY <1>0, <1>1 DEF Survey, TypeOK
<1>2. ASSUME NEW w \in Workers, NEW c \in Environments, Restart(w, c) PROVE TypeOK'
  <2>1. conf' \in [Workers -> Environments]
    BY <1>0, <1>2 DEF Restart, TypeOK
  <2>2. jobs' \in [Jobs -> JobTypes]
    BY <1>0, <1>2, IdleIsTyped DEF Restart, TypeOK
  <2>. QED
    BY <1>0, <1>e, <1>2, <2>1, <2>2 DEF Restart, TypeOK
<1>3. ASSUME NEW w \in Workers, NEW k \in Keys, Issue(w, k) PROVE TypeOK'
  <2>1. conf[w].current \in {Old, New, NoSecret}
    BY <1>0 DEF TypeOK, Environments, Before, During, After, SwitchedOff
  <2>2. Seal(conf[w].current, k) \in Copies \cup {NoCopy}
    BY <1>s, <2>1 DEF Seal
  <2>3. rows' \in [Keys -> Row]
    BY <1>0, <1>3, <2>2 DEF Issue, TypeOK
  <2>. QED
    BY <1>0, <1>e, <1>3, <2>3 DEF Issue, TypeOK
<1>4. ASSUME NEW k \in Keys, Revoke(k) PROVE TypeOK'
  <2>1. rows' \in [Keys -> Row]
    BY <1>0, <1>4 DEF Revoke, TypeOK
  <2>. QED
    BY <1>0, <1>e, <1>4, <2>1 DEF Revoke, TypeOK
<1>5. ASSUME NEW k \in Keys, Purge(k) PROVE TypeOK'
  <2>1. rows' \in [Keys -> Row]
    BY <1>0, <1>5 DEF Purge, TypeOK
  <2>. QED
    BY <1>0, <1>e, <1>5, <2>1 DEF Purge, TypeOK
<1>6. ASSUME NEW k \in Keys, Accident(k) PROVE TypeOK'
  <2>1. \A l \in Keys : rows[l].copy \in Copies \cup {NoCopy}
    BY <1>0
  <2>2. \A copy \in Copies : [copy EXCEPT !.damaged = TRUE] \in Copies
    BY DEF Copies
  <2>3. [Sealed(New, k) EXCEPT !.format = "newer"] \in Copies
    BY DEF Sealed, Copies
  <2>4. PICK copy \in Copies \cup {NoCopy} : rows' = [rows EXCEPT ![k].copy = copy]
    BY <1>s, <1>6, <2>1, <2>2, <2>3 DEF Accident, Stored
  <2>5. rows' \in [Keys -> Row]
    BY <1>0, <2>4 DEF TypeOK
  <2>. QED
    BY <1>0, <1>e, <1>6, <2>5 DEF Accident, TypeOK
<1>7. ASSUME NEW j \in Jobs, NEW w \in Workers, Begin(j, w) PROVE TypeOK'
  <2>1. [k \in Stored |-> rows[k].copy] \in [Stored -> Copies] /\ Stored \in SUBSET Keys
    BY <1>0 DEF Stored
  <2>2. [k \in Stored |-> rows[k].copy] \in Todos
    BY <2>1 DEF Todos
  <2>3. jobs' \in [Jobs -> JobTypes]
    <3>. DEFINE seen == [k \in Stored |-> rows[k].copy]
    <3>1. jobs' = [jobs EXCEPT ![j].status = "running", ![j].worker = w, ![j].todo = seen]
      BY <1>7 DEF Begin
    <3>2. \A job \in JobTypes, todo \in Todos :
            [job EXCEPT !.status = "running", !.worker = w, !.todo = todo] \in JobTypes
      BY DEF JobTypes
    <3>. HIDE DEF seen
    <3>3. seen \in Todos
      BY <2>2 DEF seen
    <3>. QED
      BY <1>0, <3>1, <3>2, <3>3 DEF TypeOK
  <2>. QED
    BY <1>0, <1>7, <2>3 DEF Begin, TypeOK
<1>8. ASSUME NEW j \in Jobs, Skip(j) PROVE TypeOK'
  <2>1. RestOf(j) \in Todos
    BY <1>0, <1>8, NextRowIsOwn DEF Skip, Running
  <2>2. jobs' \in [Jobs -> JobTypes]
    <3>1. \A job \in JobTypes, rest \in Todos : [job EXCEPT !.todo = rest] \in JobTypes
      BY DEF JobTypes
    <3>. QED
      BY <1>0, <1>8, <2>1, <3>1 DEF Skip, TypeOK
  <2>. QED
    BY <1>0, <1>8, <2>2 DEF Skip, TypeOK
<1>9. ASSUME NEW j \in Jobs, Record(j) PROVE TypeOK'
  <2>1. PICK recorded \in {-1, jobs[j].resealed} :
          jobs' = [jobs EXCEPT ![j].recorded = recorded, ![j].worker = Idle.worker,
                               ![j].status = IF @ = "running" THEN "done" ELSE "failed"]
    BY <1>9 DEF Record
  <2>2. jobs[j] \in JobTypes /\ Idle.worker \in Workers
    BY <1>0, IdleIsTyped DEF TypeOK, JobTypes
  <2>3. recorded \in -1..Last
    BY <1>0, <2>2 DEF JobTypes
  <2>4. jobs' \in [Jobs -> JobTypes]
    BY <1>0, <2>1, <2>2, <2>3 DEF TypeOK, JobTypes
  <2>. QED
    BY <1>0, <1>9, <2>4 DEF Record, TypeOK
<1>10. ASSUME NEW j \in Jobs, NEW outcome \in {"ok", "applied", "rolled_back"}, Move(j, outcome)
       PROVE TypeOK'
  <2>. DEFINE k == NextRow(j)
              job == jobs[j]
              copy == job.todo[k]
              c == conf[job.worker]
  <2>1. job \in JobTypes /\ job.worker \in Workers /\ c \in Environments
    BY <1>0 DEF TypeOK, JobTypes
  <2>2. /\ k \in Keys /\ copy \in Copies
        /\ RestOf(j) \in Todos
        /\ Cardinality(DOMAIN job.todo) \in Nat \ {0}
    BY <1>0, <1>10, NextRowIsOwn DEF Move, Running
  <2>3. c = During /\ copy.key = k
    BY <1>10, <2>1, <2>2, PreviousIsSound DEF Move
  <2>4. Sealed(c.current, copy.key) \in Copies
    BY <1>s, <2>2, <2>3 DEF During
  <2>5. rows' \in [Keys -> Row]
    <3>1. \/ rows' = rows
          \/ rows' = [rows EXCEPT ![k].copy = Sealed(c.current, copy.key)]
      BY <1>10 DEF Move
    <3>. QED
      BY <1>0, <2>2, <2>4, <3>1 DEF TypeOK
  <2>6. /\ job.moved \in 0..(Last - 1) /\ job.resealed \in 0..(Last - 1)
    <3>1. JobKept(j) /\ job.status = "running"
      BY <1>10 DEF Move, Running
    <3>. QED
      BY <1>0, <2>1, <2>2, <3>1 DEF JobKept, JobTypes
  <2>7. NoRows \in Todos
    BY IdleIsTyped DEF JobTypes, Idle
  <2>8. PICK todo \in Todos,
             status \in {"running", "interrupted"}, one \in {0, 1}, two \in {0, 1} :
          jobs' = [jobs EXCEPT ![j].todo = todo, ![j].status = status,
                               ![j].moved = @ + one, ![j].resealed = @ + two]
    BY <1>10, <2>2, <2>7 DEF Move
  <2>9. jobs' \in [Jobs -> JobTypes]
    <3>1. [job EXCEPT !.todo = todo, !.status = status, !.moved = @ + one,
                      !.resealed = @ + two] \in JobTypes
      <4>1. job.moved + one \in 0..Last /\ job.resealed + two \in 0..Last
        BY <1>0, <2>6
      <4>2. \A x, y \in 0..Last :
              [job EXCEPT !.todo = todo, !.status = status, !.moved = x, !.resealed = y]
                \in JobTypes
        BY <2>1 DEF JobTypes
      <4>. QED
        BY <4>1, <4>2
    <3>2. jobs' = [jobs EXCEPT ![j] = [job EXCEPT !.todo = todo, !.status = status,
                                                !.moved = @ + one, !.resealed = @ + two]]
      BY <2>8
    <3>. QED
      BY <1>0, <3>1, <3>2 DEF TypeOK
  <2>10. late' \subseteq Keys /\ UNCHANGED <<conf, told, events>>
    BY <1>0, <1>10 DEF Move, TypeOK
  <2>. QED
    BY <1>0, <2>5, <2>9, <2>10 DEF TypeOK
<1>11. ASSUME UNCHANGED vars PROVE TypeOK'
  BY <1>0, <1>11 DEF vars, TypeOK
<1>. QED
  BY <1>1, <1>2, <1>3, <1>4, <1>5, <1>6, <1>7, <1>8, <1>9, <1>10, <1>11 DEF Next

(***************************************************************************)
(* A row is written by a re-sealing only as the new secret's copy of the   *)
(* same key, over a sound copy of the old one.                             *)
(***************************************************************************)
LEMMA MoveGoesToNew ==
    ASSUME VaultAssumption, TypeOK, NEW j \in Jobs,
           NEW outcome \in {"ok", "applied", "rolled_back"}, Move(j, outcome)
    PROVE  /\ NextRow(j) \in Keys
           /\ conf[jobs[j].worker].current = New
           /\ \/ UNCHANGED <<rows, late>>
              \/ /\ rows[NextRow(j)].copy.key = NextRow(j)
                 /\ rows[NextRow(j)].copy.secret = Old
                 /\ rows[NextRow(j)].copy.format \in {"v1", "v2"}
                 /\ ~rows[NextRow(j)].copy.damaged
                 /\ rows' = [rows EXCEPT ![NextRow(j)].copy = Sealed(New, NextRow(j))]
                 /\ late' = late \ {NextRow(j)}
<1>. DEFINE k == NextRow(j)
            c == conf[jobs[j].worker]
            copy == jobs[j].todo[k]
            won == StillAsObserved(j, k) /\ outcome # "rolled_back"
<1>1. k \in Keys /\ copy \in Copies
  BY NextRowIsOwn DEF Move, Running
<1>2. c \in Environments
  BY DEF TypeOK, JobTypes
<1>3. Inspect(c, k, copy) = "previous"
  BY DEF Move
<1>4. /\ c = During
      /\ copy.format \in {"v1", "v2"} /\ copy.secret = Old
      /\ copy.key = k /\ ~copy.damaged
  BY <1>1, <1>2, <1>3, PreviousIsSound
<1>5. c.current = New /\ New # Old
  BY <1>4, VaultAssumption DEF During, VaultAssumption
<1>6. CASE won
  <2>1. rows[k].copy = copy
    BY <1>6 DEF StillAsObserved
  <2>2. rows' = [rows EXCEPT ![k].copy = Sealed(New, k)] /\ late' = late \ {k}
    BY <1>4, <1>5, <1>6 DEF Move
  <2>. QED
    BY <1>1, <1>4, <1>5, <2>1, <2>2
<1>7. CASE ~won
  BY <1>1, <1>5, <1>7 DEF Move
<1>. QED
  BY <1>6, <1>7

(***************************************************************************)
(* Once told, no step strands a copy.                                      *)
(***************************************************************************)
Unstranded(k) ==
    Tried(During, rows[k].copy) \in {"current", "previous"} /\ rows[k].copy.key = k
    => Opens(New, rows[k].copy)

\* A copy sealed under the new secret opens under it.
LEMMA NewOpens ==
    ASSUME VaultAssumption, NEW k \in Keys
    PROVE  Opens(New, Sealed(New, k))
BY DEF VaultAssumption, Opens, Sealed

\* What the survey under both secrets found current opens under the new one.
LEMMA CurrentOpens ==
    ASSUME VaultAssumption, NEW copy \in Copies, Tried(During, copy) = "current"
    PROVE  Opens(New, copy)
<1>. DEFINE off == During.current = NoSecret
            now == copy.format \in {"v1", "v2"} /\ Opens(During.current, copy)
            before == copy.format \in {"v1", "v2"} /\ Opens(Previous(During), copy)
<1>1. Tried(During, copy) = IF copy = NoCopy THEN "none" ELSE IF off THEN "off"
                            ELSE IF now THEN "current" ELSE IF before THEN "previous" ELSE "lost"
  BY DEF Tried
<1>2. now
  <2>. HIDE DEF off, now, before
  <2>. QED
    BY <1>1
<1>. QED
  BY <1>2 DEF During

\* NoneStranded, one step on: a survey, a key issued, a row changed or moved.
LEMMA NoneIsStranded ==
    ASSUME VaultAssumption, IInv, [Next]_vars
    PROVE  NoneStranded'
<1>0. /\ TypeOK /\ NoneStranded
      /\ \A k \in Stored : rows[k].copy \in Copies
  BY DEF IInv, TypeOK, Stored
<1>. SUFFICES ASSUME told', NEW k \in Stored', k \notin late'
              PROVE  Unstranded(k)'
  BY DEF NoneStranded, Unstranded
<1>k. k \in Keys
  BY DEF Stored
<1>u. ASSUME UNCHANGED <<rows, told>>, k \notin late PROVE Unstranded(k)'
  BY <1>0, <1>u DEF NoneStranded, Unstranded, Stored, Present
<1>1. ASSUME NEW w \in Workers, Survey(w) PROVE Unstranded(k)'
  <2>1. PreviousUnused(conf[w]) /\ rows' = rows
    BY <1>1 DEF Survey
  <2>2. conf[w] = During
    <3>1. conf[w] \in Environments
      BY <1>0 DEF TypeOK
    <3>. QED
      BY <2>1, <3>1 DEF PreviousUnused, Environments, Before, During, After, SwitchedOff
  <2>3. k \in Stored /\ k \notin States(During, "previous")
    BY <2>1, <2>2 DEF PreviousUnused, Stored, Present
  <2>4. ASSUME Tried(During, rows[k].copy) = "previous", rows[k].copy.key = k PROVE FALSE
    BY <2>3, <2>4 DEF States, Inspect
  <2>5. Unstranded(k)
    BY <1>0, <2>3, <2>4, CurrentOpens DEF Unstranded
  <2>. QED
    BY <2>1, <2>5 DEF Unstranded
<1>2. ASSUME NEW w \in Workers, NEW c \in Environments, Restart(w, c) PROVE Unstranded(k)'
  BY <1>2, <1>u DEF Restart
<1>3. ASSUME NEW w \in Workers, NEW i \in Keys, Issue(w, i) PROVE Unstranded(k)'
  <2>. DEFINE s == conf[w].current
  <2>1. s \in {Old, New, NoSecret} /\ UNCHANGED told
    <3>1. s \in {Old, New, NoSecret}
      BY <1>0 DEF TypeOK, Environments, Before, During, After, SwitchedOff
    <3>. QED
      BY <1>3, <3>1 DEF Issue
  <2>2. CASE k = i
    <3>1. rows'[k].copy = Seal(s, k)
      BY <1>0, <1>3, <1>k, <2>2 DEF Issue, TypeOK
    <3>2. s # Old
      BY <1>3, <2>2 DEF Issue
    <3>3. s # NoSecret
      BY <3>1 DEF Stored, Seal
    <3>4. rows'[k].copy = Sealed(New, k)
      BY <2>1, <3>1, <3>2, <3>3 DEF Seal
    <3>. QED
      BY <1>k, <3>4, NewOpens DEF Unstranded, Opens
  <2>3. CASE k # i
    <3>1. rows'[k] = rows[k] /\ late \subseteq late'
      BY <1>0, <1>3, <1>k, <2>3 DEF Issue, TypeOK
    <3>2. k \in Stored \ late /\ told
      BY <1>k, <2>1, <3>1 DEF Stored, Present
    <3>. QED
      BY <1>0, <3>1, <3>2 DEF NoneStranded, Unstranded
  <2>. QED
    BY <2>2, <2>3
<1>4. ASSUME NEW i \in Keys, Revoke(i) PROVE Unstranded(k)'
  <2>1. rows'[k].copy = rows[k].copy /\ rows'[k].there = rows[k].there /\ UNCHANGED <<told, late>>
    BY <1>0, <1>4, <1>k DEF Revoke, TypeOK
  <2>2. k \in Stored \ late /\ told
    BY <1>k, <2>1 DEF Stored, Present
  <2>. QED
    BY <1>0, <2>1, <2>2 DEF NoneStranded, Unstranded
<1>5. ASSUME NEW i \in Keys, Purge(i) PROVE Unstranded(k)'
  <2>1. k # i
    BY <1>0, <1>5, <1>k DEF Purge, TypeOK, Stored, Present
  <2>2. rows'[k] = rows[k] /\ late' = late \ {i} /\ UNCHANGED told
    BY <1>0, <1>5, <1>k, <2>1 DEF Purge, TypeOK
  <2>3. k \in Stored \ late /\ told
    BY <1>k, <2>1, <2>2 DEF Stored, Present
  <2>. QED
    BY <1>0, <2>2, <2>3 DEF NoneStranded, Unstranded
<1>6. ASSUME NEW i \in Keys, Accident(i) PROVE Unstranded(k)'
  <2>1. k # i /\ k \notin late /\ UNCHANGED told
    BY <1>6 DEF Accident
  <2>2. rows'[k] = rows[k]
    BY <1>0, <1>6, <1>k, <2>1 DEF Accident, TypeOK
  <2>3. k \in Stored \ late /\ told
    BY <1>k, <2>1, <2>2 DEF Stored, Present
  <2>. QED
    BY <1>0, <2>2, <2>3 DEF NoneStranded, Unstranded
<1>7. ASSUME NEW j \in Jobs, NEW w \in Workers, Begin(j, w) PROVE Unstranded(k)'
  BY <1>7, <1>u DEF Begin
<1>8. ASSUME NEW j \in Jobs, Skip(j) PROVE Unstranded(k)'
  BY <1>8, <1>u DEF Skip
<1>9. ASSUME NEW j \in Jobs, Record(j) PROVE Unstranded(k)'
  BY <1>9, <1>u DEF Record
<1>10. ASSUME NEW j \in Jobs, NEW outcome \in {"ok", "applied", "rolled_back"}, Move(j, outcome)
       PROVE Unstranded(k)'
  <2>1. UNCHANGED told
    BY <1>10 DEF Move
  <2>2. CASE UNCHANGED <<rows, late>>
    BY <1>u, <2>1, <2>2
  <2>3. CASE /\ NextRow(j) \in Keys
             /\ rows' = [rows EXCEPT ![NextRow(j)].copy = Sealed(New, NextRow(j))]
             /\ late' = late \ {NextRow(j)}
    <3>1. CASE k = NextRow(j)
      <4>1. rows'[k].copy = Sealed(New, k)
        BY <1>0, <1>k, <2>3, <3>1 DEF TypeOK
      <4>. QED
        BY <1>k, <4>1, NewOpens DEF Unstranded, Opens
    <3>2. CASE k # NextRow(j)
      <4>1. rows'[k] = rows[k]
        BY <1>0, <1>k, <2>3, <3>2 DEF TypeOK
      <4>2. k \in Stored \ late /\ told
        BY <1>k, <2>1, <2>3, <3>2, <4>1 DEF Stored, Present
      <4>. QED
        BY <1>0, <4>1, <4>2 DEF NoneStranded, Unstranded
    <3>. QED
      BY <3>1, <3>2
  <2>. QED
    BY <1>0, <1>10, <2>2, <2>3, MoveGoesToNew
<1>11. ASSUME UNCHANGED vars PROVE Unstranded(k)'
  BY <1>11, <1>u DEF vars
<1>. QED
  BY <1>1, <1>2, <1>3, <1>4, <1>5, <1>6, <1>7, <1>8, <1>9, <1>10, <1>11 DEF Next

(***************************************************************************)
(* Every step keeps the books of the re-sealings.                          *)
(***************************************************************************)
\* A list of rows has at most as many as there are keys.
LEMMA StoredIsSmall == ASSUME VaultAssumption PROVE Cardinality(Stored) \in 0..Last
<1>1. Last \in Nat /\ Stored \in SUBSET (1..Last)
  BY DEF VaultAssumption, Stored, Keys
<1>2. IsFiniteSet(1..Last) /\ Cardinality(1..Last) = Last
  BY <1>1, FS_Interval, 1 \in Int, Last \in Int
<1>3. IsFiniteSet(Stored) /\ Cardinality(Stored) <= Last
  BY <1>1, <1>2, FS_Subset
<1>. QED
  BY <1>1, <1>3, FS_CardinalityType

\* JobKept, one step on: counted with each row that is taken from the list.
LEMMA BooksKept ==
    ASSUME VaultAssumption, IInv, [Next]_vars, NEW i \in Jobs
    PROVE  JobKept(i)'
<1>0. /\ TypeOK /\ JobKept(i) /\ Last \in Nat
      /\ DOMAIN jobs = Jobs /\ jobs[i] \in JobTypes
  BY DEF IInv, TypeOK, VaultAssumption
<1>u. ASSUME jobs'[i] = jobs[i] PROVE JobKept(i)'
  BY <1>0, <1>u DEF JobKept
<1>2. ASSUME NEW w \in Workers, NEW c \in Environments, Restart(w, c) PROVE JobKept(i)'
  <2>1. jobs'[i] \in {jobs[i], [Idle EXCEPT !.status = "killed"]}
    BY <1>0, <1>2 DEF Restart
  <2>2. CASE jobs'[i] = [Idle EXCEPT !.status = "killed"]
    BY <2>2 DEF JobKept, Idle
  <2>. QED
    BY <1>u, <2>1, <2>2
<1>7. ASSUME NEW j \in Jobs, NEW w \in Workers, Begin(j, w) PROVE JobKept(i)'
  <2>1. CASE i = j
    <3>. DEFINE seen == [k \in Stored |-> rows[k].copy]
    <3>1. /\ jobs[i].status = "idle"
          /\ jobs' = [jobs EXCEPT ![i].status = "running", ![i].worker = w, ![i].todo = seen]
      BY <1>7, <2>1 DEF Begin
    <3>2. DOMAIN seen = Stored
      OBVIOUS
    <3>. HIDE DEF seen
    <3>3. /\ jobs'[i].status = "running" /\ jobs'[i].todo = seen
          /\ jobs'[i].moved = jobs[i].moved /\ jobs'[i].resealed = jobs[i].resealed
          /\ jobs'[i].recorded = jobs[i].recorded
      BY <1>0, <3>1 DEF JobTypes
    <3>4. jobs[i].moved = 0 /\ jobs[i].resealed = 0 /\ jobs[i].recorded = -1
      BY <1>0, <3>1 DEF JobKept
    <3>5. Cardinality(DOMAIN seen) \in 0..Last
      BY <3>2, StoredIsSmall
    <3>. QED
      BY <1>0, <3>3, <3>4, <3>5 DEF JobKept
  <2>2. CASE i # j
    BY <1>0, <1>7, <1>u, <2>2 DEF Begin
  <2>. QED
    BY <2>1, <2>2
<1>8. ASSUME NEW j \in Jobs, Skip(j) PROVE JobKept(i)'
  <2>1. CASE i = j
    <3>1. /\ Cardinality(DOMAIN jobs[i].todo) \in Nat \ {0}
          /\ Cardinality(DOMAIN RestOf(i)) = Cardinality(DOMAIN jobs[i].todo) - 1
      BY <1>0, <1>8, <2>1, NextRowIsOwn DEF Skip, Running
    <3>2. /\ jobs[i].status = "running" /\ jobs'[i].status = jobs[i].status
          /\ jobs'[i].todo = RestOf(i)
          /\ jobs'[i].moved = jobs[i].moved /\ jobs'[i].resealed = jobs[i].resealed
          /\ jobs'[i].recorded = jobs[i].recorded
      BY <1>0, <1>8, <2>1 DEF Skip, Running, JobTypes
    <3>3. jobs[i].moved \in Nat
      BY <1>0 DEF JobTypes
    <3>. QED
      BY <1>0, <3>1, <3>2, <3>3 DEF JobKept
  <2>2. CASE i # j
    BY <1>0, <1>8, <1>u, <2>2 DEF Skip
  <2>. QED
    BY <2>1, <2>2
<1>9. ASSUME NEW j \in Jobs, Record(j) PROVE JobKept(i)'
  <2>1. CASE i = j
    <3>1. PICK recorded \in {-1, jobs[i].resealed} :
            jobs' = [jobs EXCEPT ![i].recorded = recorded, ![i].worker = Idle.worker,
                                 ![i].status = IF @ = "running" THEN "done" ELSE "failed"]
      BY <1>9, <2>1 DEF Record
    <3>2. jobs[i].status \in {"running", "interrupted"}
      BY <1>9, <2>1 DEF Record
    <3>3. /\ jobs'[i].recorded = recorded
          /\ jobs'[i].moved = jobs[i].moved /\ jobs'[i].resealed = jobs[i].resealed
          /\ jobs'[i].status = IF jobs[i].status = "running" THEN "done" ELSE "failed"
      BY <1>0, <3>1 DEF JobTypes
    <3>4. CASE jobs[i].status = "running"
      BY <1>0, <3>3, <3>4 DEF JobKept
    <3>5. CASE jobs[i].status = "interrupted"
      BY <1>0, <3>3, <3>5 DEF JobKept
    <3>. QED
      BY <3>2, <3>4, <3>5
  <2>2. CASE i # j
    BY <1>0, <1>9, <1>u, <2>2 DEF Record
  <2>. QED
    BY <2>1, <2>2
<1>10. ASSUME NEW j \in Jobs, NEW outcome \in {"ok", "applied", "rolled_back"}, Move(j, outcome)
       PROVE JobKept(i)'
  <2>1. CASE i = j
    <3>. DEFINE won == StillAsObserved(i, NextRow(i)) /\ outcome # "rolled_back"
                one == IF won THEN 1 ELSE 0
                two == IF won /\ outcome = "ok" THEN 1 ELSE 0
    <3>1. /\ Cardinality(DOMAIN jobs[i].todo) \in Nat \ {0}
          /\ Cardinality(DOMAIN RestOf(i)) = Cardinality(DOMAIN jobs[i].todo) - 1
          /\ jobs[i].status = "running"
      BY <1>0, <1>10, <2>1, NextRowIsOwn DEF Move, Running
    <3>2. jobs' = [jobs EXCEPT ![i].todo = IF outcome = "ok" THEN RestOf(i) ELSE NoRows,
                               ![i].status = IF outcome = "ok" THEN "running" ELSE "interrupted",
                               ![i].moved = @ + one, ![i].resealed = @ + two]
      BY <1>10, <2>1 DEF Move
    <3>3. /\ one \in {0, 1} /\ two \in {0, 1} /\ two <= one
          /\ outcome = "ok" => one = two
      OBVIOUS
    <3>. HIDE DEF one, two
    <3>4. /\ jobs'[i].status = IF outcome = "ok" THEN "running" ELSE "interrupted"
          /\ jobs'[i].todo = IF outcome = "ok" THEN RestOf(i) ELSE NoRows
          /\ jobs'[i].moved = jobs[i].moved + one /\ jobs'[i].resealed = jobs[i].resealed + two
          /\ jobs'[i].recorded = jobs[i].recorded
      BY <1>0, <3>2 DEF JobTypes
    <3>5. /\ jobs[i].moved \in Nat /\ jobs[i].resealed = jobs[i].moved
          /\ jobs[i].recorded = -1
          /\ jobs[i].moved + Cardinality(DOMAIN jobs[i].todo) <= Last
      BY <1>0, <3>1 DEF JobKept, JobTypes
    <3>6. CASE outcome = "ok"
      <4>1. jobs'[i].status = "running" /\ jobs'[i].todo = RestOf(i)
        BY <3>4, <3>6
      <4>. QED
        BY <1>0, <3>1, <3>3, <3>4, <3>5, <3>6, <4>1 DEF JobKept
    <3>7. CASE outcome # "ok"
      <4>1. jobs'[i].status = "interrupted"
        BY <3>4, <3>7
      <4>. QED
        BY <3>3, <3>4, <3>5, <4>1 DEF JobKept
    <3>. QED
      BY <3>6, <3>7
  <2>2. CASE i # j
    BY <1>0, <1>10, <1>u, <2>2 DEF Move
  <2>. QED
    BY <2>1, <2>2
<1>11. ASSUME UNCHANGED jobs PROVE JobKept(i)'
  BY <1>11, <1>u
<1>. QED
  BY <1>2, <1>7, <1>8, <1>9, <1>10, <1>11
     DEF Next, vars, Survey, Issue, Revoke, Purge, Accident

(***************************************************************************)
(* The invariant holds of every reachable state.                           *)
(***************************************************************************)
THEOREM VaultInvariance == Spec => []IInv
<1>1. Init => IInv
  BY InitIInv, VaultAssumption
<1>2. IInv /\ [Next]_vars => IInv'
  BY TypesKept, NoneIsStranded, BooksKept, VaultAssumption DEF IInv
<1>. QED
  BY <1>1, <1>2, PTL DEF Spec

(***************************************************************************)
(* CopiesKept of the vault: no sound copy is stranded once the operator    *)
(* was told that the old secret is not needed (NoneStranded), a key is     *)
(* shown only under its own row (ShowsItsOwn), and what a re-sealing       *)
(* recorded is what it moved (RecordedIsMoved).                            *)
(***************************************************************************)
THEOREM CopiesAreKept == Spec => []CopiesKept
<1>1. IInv => ShowsItsOwn
  <2>. SUFFICES ASSUME NEW w \in Workers, NEW k \in Keys PROVE Shows(w, k) \subseteq {k}
    BY DEF ShowsItsOwn
  <2>1. CASE Inspect(conf[w], k, rows[k].copy) \in {"current", "previous"}
    <3>1. rows[k].copy.key = k
      BY <2>1 DEF Inspect
    <3>. QED
      BY <3>1 DEF Shows
  <2>2. CASE Inspect(conf[w], k, rows[k].copy) \notin {"current", "previous"}
    BY <2>2 DEF Shows
  <2>. QED
    BY <2>1, <2>2
<1>2. IInv => RecordedIsMoved
  <2>. SUFFICES ASSUME IInv, NEW j \in Jobs, jobs[j].recorded # -1
                PROVE  /\ jobs[j].recorded <= jobs[j].moved
                       /\ jobs[j].moved - jobs[j].recorded
                             <= (IF jobs[j].status = "done" THEN 0 ELSE 1)
    BY DEF RecordedIsMoved
  <2>1. jobs[j] \in JobTypes /\ JobKept(j)
    BY DEF IInv, TypeOK
  <2>2. /\ jobs[j].moved \in Int /\ jobs[j].recorded \in Int
        /\ jobs[j].status \in {"done", "failed"}
    BY <2>1, VaultAssumption DEF JobTypes, JobKept, VaultAssumption
  <2>. QED
    BY <2>1, <2>2 DEF JobKept
<1>3. IInv => CopiesKept
  BY <1>1, <1>2 DEF IInv, CopiesKept
<1>. QED
  BY <1>3, VaultInvariance, PTL

(***************************************************************************)
(* OnlySoundCopiesMove: what is damaged, mixed up or of a newer format is  *)
(* never written over by a re-sealing, and what moves keeps its key.       *)
(***************************************************************************)
THEOREM MovesAreSound == Spec => OnlySoundCopiesMove
<1>1. IInv /\ [Next]_vars =>
        [\A k \in Keys :
            /\ Present(k) /\ rows'[k].there
            /\ rows[k].copy # NoCopy /\ rows'[k].copy # rows[k].copy
            /\ events' = events
            => /\ rows[k].copy.key = k /\ ~rows[k].copy.damaged /\ rows[k].copy.format # "newer"
               /\ rows'[k].copy = Sealed(rows'[k].copy.secret, k)
               /\ rows'[k].copy.secret # rows[k].copy.secret]_vars
  <2>. SUFFICES ASSUME IInv, Next, NEW k \in Keys,
                       rows'[k].copy # rows[k].copy, events' = events
                PROVE  /\ rows[k].copy.key = k /\ ~rows[k].copy.damaged
                       /\ rows[k].copy.format # "newer"
                       /\ rows'[k].copy = Sealed(rows'[k].copy.secret, k)
                       /\ rows'[k].copy.secret # rows[k].copy.secret
    OBVIOUS
  <2>1. TypeOK /\ events \in Int /\ k \in DOMAIN rows
    BY VaultAssumption DEF IInv, TypeOK, VaultAssumption
  <2>2. ~Event
    BY <2>1 DEF Event
  <2>3. rows' # rows
    OBVIOUS
  <2>4. PICK j \in Jobs, outcome \in {"ok", "applied", "rolled_back"} : Move(j, outcome)
    BY <2>2, <2>3 DEF Next, Survey, Restart, Issue, Revoke, Purge, Accident, Begin, Skip, Record
  <2>5. /\ rows[NextRow(j)].copy.key = NextRow(j)
        /\ rows[NextRow(j)].copy.secret = Old
        /\ rows[NextRow(j)].copy.format \in {"v1", "v2"}
        /\ ~rows[NextRow(j)].copy.damaged
        /\ rows' = [rows EXCEPT ![NextRow(j)].copy = Sealed(New, NextRow(j))]
    BY <2>1, <2>3, <2>4, MoveGoesToNew, VaultAssumption
  <2>6. k = NextRow(j)
    BY <2>1, <2>5
  <2>7. rows'[k].copy = Sealed(New, k)
    BY <2>1, <2>5, <2>6 DEF TypeOK
  <2>8. rows'[k].copy.secret = New /\ New # Old
    BY <2>7, VaultAssumption DEF Sealed, VaultAssumption
  <2>. QED
    BY <2>5, <2>6, <2>7, <2>8
<1>. QED
  BY <1>1, VaultInvariance, PTL DEF Spec, OnlySoundCopiesMove

-----------------------------------------------------------------------------
(***************************************************************************)
(* Accounts.  A session that works stands on the password its account has  *)
(* because sessions and rows read are of epochs the account has had        *)
(* (SessionsKept), which holds until an epoch is written over a later one. *)
(* An administrator remains because whoever gives one up counted others    *)
(* who are still held when it is written (Judged), or who are the same     *)
(* still (raced, on SQLite).  And who makes the first administrator and    *)
(* met nobody made the only one (MakersMeet).                              *)
(***************************************************************************)

\* A row of the table of users, a session, and what a request may be doing.
Rows == [role : {"admin", "manager", "user"}, status : {"active", "suspended"},
         pw : A!Passwords, epoch : Nat, created : Nat]
Sessions == [user : Names, epoch : Nat, pw : A!Passwords \ {NoPassword}]

\* Requests that make an administrator, that choose a password, that read a row.
Makes == {"setup", "bootstrap"}
Chooses == Makes \cup {"repair", "password", "reset"}
Updates == {"update", "judged"}
Reads == {"login", "logout", "password", "reset"} \cup Updates

\* Where a request may stand.
Questions ==
    [op : {"free", "done"} \cup Chooses \cup Reads, user : Names, row : Rows,
     pw : A!Passwords, change : A!Changes \cup {<<>>}, others : SUBSET Names, alone : BOOLEAN]

\* The tables and the flags, each session and printed password of an account that is there.
TablesTyped ==
    /\ engine \in Engines /\ rewound \in BOOLEAN /\ raced \in BOOLEAN
    /\ DOMAIN users \subseteq Names /\ users \in [DOMAIN users -> Rows]
    /\ tokens \subseteq Sessions /\ \A t \in tokens : t.user \in DOMAIN users
    /\ printed \subseteq Names \X Requests /\ \A p \in printed : p[1] \in DOMAIN users
    /\ unasked \subseteq DOMAIN users

\* A request that reads a row reads one that is there, a password is named after the request
\* that chose it, and an update has a change to make.
Fits(r) ==
    /\ reqs[r].op \in Reads \cup {"repair"} => reqs[r].user \in DOMAIN users
    /\ reqs[r].op \in Chooses => reqs[r].pw = r
    /\ reqs[r].op \in Updates => reqs[r].change \in A!Changes

\* The types.
Typed == TablesTyped /\ reqs \in [Requests -> Questions] /\ \A r \in Requests : Fits(r)

\* The requests that have been answered.
Ended == {r \in Requests : reqs[r].op = "done"}

\* No epoch, of an account or read of one, is above their number.
Epochs ==
    /\ \A n \in DOMAIN users : users[n].epoch <= Cardinality(Ended)
    /\ \A r \in Requests : reqs[r].row.epoch <= Cardinality(Ended)

\* A session is of an epoch of its account, and at this epoch stands on the password that the
\* account has; who has a session has a password.
TokenKept(t) ==
    /\ t.epoch <= users[t.user].epoch
    /\ t.epoch = users[t.user].epoch => users[t.user].pw = t.pw
    /\ users[t.user].pw # NoPassword

\* A row that was read is of an epoch of its account too.
ReadKept(r) ==
    LET q == reqs[r] IN
    q.op \in Reads =>
        /\ q.row.epoch <= users[q.user].epoch
        /\ q.row.epoch = users[q.user].epoch => q.row.pw \in {NoPassword, users[q.user].pw}
        /\ q.row.pw # NoPassword => users[q.user].pw # NoPassword

\* All of them.
SessionsKept == (\A t \in tokens : TokenKept(t)) /\ \A r \in Requests : ReadKept(r)

\* Who was allowed to give up an administrator counted others, and on PostgreSQL holds them.
Judged ==
    \A r \in Requests : reqs[r].op = "judged" /\ A!GivesUp(reqs[r]) =>
        /\ reqs[r].others # {}
        /\ engine = "postgresql" => reqs[r].others \subseteq A!ActiveAdmins \ {reqs[r].user}

\* Until something was judged on rows that had changed: administrators include an active one,
\* and an update, or an account made without being asked, means that there are some.
Administered ==
    /\ ~raced /\ A!Admins # {} => A!ActiveAdmins # {}
    /\ ~raced /\ (\E r \in Requests : reqs[r].op \in Updates) => A!Admins # {}
    /\ ~raced /\ unasked # {} => A!Admins # {}

\* Who makes the first administrator and met nobody is the only one at it.
MakersMeet ==
    \A r \in Requests : reqs[r].op \in Makes /\ reqs[r].alone =>
        /\ A!Makers = {r}
        /\ ~raced => A!Admins = {}

\* The invariant.
AccountsInv ==
    /\ Typed /\ Epochs
    /\ SessionsKept \/ rewound
    /\ A!PrintedPasswordWorks
    /\ Judged /\ Administered /\ MakersMeet /\ A!OneUnasked

\* Whatever is read of a table by name.
LEMMA RowsTyped ==
    ASSUME Typed, NEW n \in DOMAIN users
    PROVE  /\ users[n] \in Rows /\ n \in Names
           /\ users[n].role \in {"admin", "manager", "user"}
           /\ users[n].status \in {"active", "suspended"}
           /\ users[n].pw \in A!Passwords /\ users[n].epoch \in Nat
BY DEF Typed, TablesTyped, Rows

\* The number of a new account.
LEMMA NewNumber ==
    ASSUME Typed
    PROVE  A!NewCreated \in Nat
<1>1. IsFiniteSet(DOMAIN users)
  BY AccountsAssumption, FS_Subset DEF Typed, TablesTyped
<1>2. Cardinality(DOMAIN users) \in Nat
  BY <1>1, FS_CardinalityType
<1>3. A!Cardinality(DOMAIN users) = Cardinality(DOMAIN users)
  BY Zenon DEF A!Cardinality, Cardinality
<1>. QED
  BY <1>2, <1>3 DEF A!NewCreated, A!Accounts

\* An account that is made.
LEMMA Enrolled ==
    ASSUME Typed, NEW n \in Names \ DOMAIN users, NEW p \in Requests,
           users' = A!With(n, A!Row("admin", "active", p, A!NewCreated))
    PROVE  /\ DOMAIN users' = DOMAIN users \cup {n} /\ users' \in [DOMAIN users' -> Rows]
           /\ users'[n].role = "admin" /\ users'[n].status = "active"
           /\ users'[n].pw = p /\ users'[n].epoch = 0
           /\ \A m \in DOMAIN users : users'[m] = users[m]
<1>1. A!Row("admin", "active", p, A!NewCreated) \in Rows
  BY NewNumber DEF A!Row, Rows, A!Passwords
<1>2. users \in [DOMAIN users -> Rows]
  BY DEF Typed, TablesTyped
<1>. QED
  BY <1>1, <1>2 DEF A!With, A!Accounts, A!Row

\* What of a row is written where an epoch or a password is.
Rewritten(n, p, e) ==
    /\ DOMAIN users' = DOMAIN users /\ users' \in [DOMAIN users' -> Rows]
    /\ users'[n].role = users[n].role /\ users'[n].status = users[n].status
    /\ users'[n].pw = p /\ users'[n].epoch = e
    /\ \A m \in DOMAIN users \ {n} : users'[m] = users[m]

\* A password.
LEMMA NewPassword ==
    ASSUME Typed, NEW n \in DOMAIN users, NEW p \in A!Passwords,
           users' = [users EXCEPT ![n].pw = p]
    PROVE  Rewritten(n, p, users[n].epoch)
<1>1. users \in [DOMAIN users -> Rows] /\ users[n] \in Rows
  BY DEF Typed, TablesTyped
<1>. QED
  BY <1>1 DEF Rows, Rewritten

\* An epoch.
LEMMA NewEpoch ==
    ASSUME Typed, NEW n \in DOMAIN users, NEW e \in Nat, users' = [users EXCEPT ![n].epoch = e]
    PROVE  Rewritten(n, users[n].pw, e)
<1>1. users \in [DOMAIN users -> Rows] /\ users[n] \in Rows
  BY DEF Typed, TablesTyped
<1>. QED
  BY <1>1 DEF Rows, Rewritten

\* Both.
LEMMA NewBoth ==
    ASSUME Typed, NEW n \in DOMAIN users, NEW p \in A!Passwords, NEW e \in Nat,
           users' = [users EXCEPT ![n].pw = p, ![n].epoch = e]
    PROVE  Rewritten(n, p, e)
<1>1. users \in [DOMAIN users -> Rows] /\ users[n] \in Rows
  BY DEF Typed, TablesTyped
<1>. DEFINE row == [users[n] EXCEPT !.pw = p, !.epoch = e]
<1>2. row \in Rows /\ row.role = users[n].role /\ row.status = users[n].status
      /\ row.pw = p /\ row.epoch = e
  BY <1>1 DEF Rows
<1>3. users' = [users EXCEPT ![n] = row]
  BY <1>1 DEF Rows
<1>. HIDE DEF row
<1>. QED
  BY <1>1, <1>2, <1>3 DEF Rewritten

\* A role or a status that is written.
LEMMA Promoted ==
    ASSUME Typed, NEW n \in DOMAIN users, NEW change \in A!Changes,
           users' = [users EXCEPT ![n][change[1]] = change[2]]
    PROVE  /\ DOMAIN users' = DOMAIN users /\ users' \in [DOMAIN users' -> Rows]
           /\ users'[n].role = IF change[1] = "role" THEN change[2] ELSE users[n].role
           /\ users'[n].status = IF change[1] = "status" THEN change[2] ELSE users[n].status
           /\ users'[n].pw = users[n].pw /\ users'[n].epoch = users[n].epoch
           /\ \A m \in DOMAIN users \ {n} : users'[m] = users[m]
<1>1. users \in [DOMAIN users -> Rows] /\ users[n] \in Rows
  BY DEF Typed, TablesTyped
<1>2. CASE change[1] = "role"
  <2>1. change[2] \in {"admin", "manager"} /\ users' = [users EXCEPT ![n]["role"] = change[2]]
    BY <1>2 DEF A!Changes
  <2>. QED
    BY <1>1, <1>2, <2>1 DEF Rows
<1>3. CASE change[1] = "status"
  <2>1. change[2] \in {"active", "suspended"} /\ users' = [users EXCEPT ![n]["status"] = change[2]]
    BY <1>3 DEF A!Changes
  <2>. QED
    BY <1>1, <1>3, <2>1 DEF Rows
<1>. QED
  BY <1>2, <1>3 DEF A!Changes

\* The oldest administrator is one.
LEMMA OldestIsOne ==
    ASSUME Typed, A!Admins # {}
    PROVE  A!Oldest \in A!Admins
<1>. DEFINE T == {users[n].created : n \in A!Admins}
<1>1. \A n \in A!Admins : users[n].created \in Nat
  BY DEF A!Admins, A!Accounts, Typed, TablesTyped, Rows
<1>2. T \subseteq Nat /\ T # {}
  BY <1>1
<1>3. \E x \in T : \A y \in T : ~(<<y, x>> \in OpToRel(<, Nat))
  <2>. HIDE DEF T
  <2>. QED
    BY <1>2, NatLessThanWellFounded, WFMin
<1>4. PICK n \in A!Admins : \A y \in T : ~(<<y, users[n].created>> \in OpToRel(<, Nat))
  BY <1>3
<1>5. \A m \in A!Admins : users[n].created <= users[m].created
  <2>. SUFFICES ASSUME NEW m \in A!Admins, users[m].created < users[n].created
                PROVE  FALSE
    BY <1>1
  <2>1. <<users[m].created, users[n].created>> \in OpToRel(<, Nat)
    BY <1>1 DEF OpToRel
  <2>. QED
    BY <1>4, <2>1
<1>. QED
  BY <1>5 DEF A!Oldest

-----------------------------------------------------------------------------
(* What a step does to the requests. *)

\* A request that is not in use, spelt out.
Unused == [op |-> "free", user |-> AdminName, row |-> A!Row("user", "active", NoPassword, 0),
           pw |-> NoPassword, change |-> <<>>, others |-> {}, alone |-> TRUE]

\* A request that is free, or over, is well typed, and so are the rows it holds.
LEMMA FreeTyped ==
    /\ A!Free \in Questions /\ A!Free = Unused
    /\ [A!Free EXCEPT !.op = "done"] \in Questions
    /\ A!Free.row.epoch = 0
<1>1. A!Row("user", "active", NoPassword, 0) \in Rows
  BY DEF A!Row, Rows, A!Passwords
<1>2. A!Free = Unused
  BY DEF A!Free, Unused
<1>3. Unused \in Questions
  BY <1>1, AccountsAssumption DEF Unused, Questions, A!Passwords
<1>4. [A!Free EXCEPT !.op = "done"] \in Questions
  BY <1>2, <1>3 DEF Questions
<1>. QED
  BY <1>2, <1>3, <1>4 DEF Unused, A!Row

\* Another maker of accounts that a request meets is not alone any more.
Meets(r) ==
    \A q \in Requests \ {r} :
        \/ reqs'[q] = reqs[q]
        \/ reqs[q].op \in Makes /\ reqs'[q] = [reqs[q] EXCEPT !.alone = FALSE]

\* Whatever the others do, requests stay typed when the one that moves does.
LEMMA RequestsTyped ==
    ASSUME Typed, DOMAIN users \subseteq DOMAIN users', NEW r \in Requests,
           reqs' = [q \in Requests |-> reqs'[q]], Meets(r),
           reqs'[r] \in Questions, Fits(r)'
    PROVE  reqs' \in [Requests -> Questions] /\ \A q \in Requests : Fits(q)'
<1>1. ASSUME NEW q \in Requests \ {r}
      PROVE  reqs'[q] \in Questions /\ Fits(q)'
  <2>1. reqs[q] \in Questions /\ Fits(q)
    BY DEF Typed
  <2>2. CASE reqs'[q] = reqs[q]
    BY <2>1, <2>2 DEF Fits
  <2>3. CASE reqs'[q] = [reqs[q] EXCEPT !.alone = FALSE]
    <3>1. /\ reqs'[q] \in Questions /\ reqs'[q].op = reqs[q].op /\ reqs'[q].user = reqs[q].user
          /\ reqs'[q].pw = reqs[q].pw /\ reqs'[q].change = reqs[q].change
      BY <2>1, <2>3 DEF Questions
    <3>. QED
      BY <2>1, <3>1 DEF Fits
  <2>. QED
    BY <2>2, <2>3 DEF Meets
<1>. QED
  BY <1>1

\* A request that is answered.
LEMMA FinishTyped ==
    ASSUME Typed, DOMAIN users \subseteq DOMAIN users', NEW r \in Requests, A!Finish(r)
    PROVE  /\ reqs' \in [Requests -> Questions] /\ \A q \in Requests : Fits(q)'
           /\ reqs'[r].op = "done" /\ reqs'[r].row.epoch = 0
           /\ \A q \in Requests \ {r} : reqs'[q] = reqs[q]
<1>1. reqs \in [Requests -> Questions]
  BY DEF Typed
<1>2. reqs' = [reqs EXCEPT ![r] = [A!Free EXCEPT !.op = "done"]]
  BY DEF A!Finish
<1>3. /\ reqs'[r] = [A!Free EXCEPT !.op = "done"]
      /\ \A q \in Requests \ {r} : reqs'[q] = reqs[q]
      /\ reqs' = [q \in Requests |-> reqs'[q]]
  BY <1>1, <1>2
<1>4. reqs'[r] \in Questions /\ reqs'[r].op = "done" /\ reqs'[r].row.epoch = 0
  BY <1>3, FreeTyped DEF Unused
<1>5. Fits(r)' /\ Meets(r)
  BY <1>3, <1>4 DEF Fits, Meets, Reads, Chooses, Makes, Updates
<1>. QED
  BY <1>3, <1>4, <1>5, RequestsTyped

\* A request that begins.
LEMMA StartTyped ==
    ASSUME Typed, UNCHANGED users, NEW r \in Requests, NEW q \in Questions, A!Start(r, q),
           q.op \in Reads \cup {"repair"} => q.user \in DOMAIN users,
           q.op \in Chooses => q.pw = r,
           q.op \in Updates => q.change \in A!Changes
    PROVE  /\ reqs' \in [Requests -> Questions] /\ \A p \in Requests : Fits(p)'
           /\ reqs[r].op = "free" /\ reqs'[r] = q
           /\ \A p \in Requests \ {r} : reqs'[p] = reqs[p]
<1>1. reqs \in [Requests -> Questions]
  BY DEF Typed
<1>2. reqs' = [reqs EXCEPT ![r] = q] /\ reqs[r] = A!Free
  BY DEF A!Start, A!Starts
<1>3. reqs[r].op = "free"
  <2>1. A!Free.op = "free"
    BY FreeTyped DEF Unused
  <2>. QED
    BY <1>2, <2>1
<1>4. /\ reqs'[r] = q
      /\ \A p \in Requests \ {r} : reqs'[p] = reqs[p]
      /\ reqs' = [p \in Requests |-> reqs'[p]]
  BY <1>1, <1>2
<1>5. Fits(r)' /\ Meets(r)
  BY <1>4 DEF Fits, Meets
<1>. QED
  BY <1>3, <1>4, <1>5, RequestsTyped

\* The questions that read a row.
LEMMA ReadTyped ==
    ASSUME Typed, NEW n \in DOMAIN users, NEW op \in Reads, NEW p \in A!Passwords,
           NEW change \in A!Changes
    PROVE  /\ [A!Free EXCEPT !.op = op, !.user = n, !.row = users[n]] \in Questions
           /\ [A!Free EXCEPT !.op = op, !.user = n, !.row = users[n], !.pw = p] \in Questions
           /\ [A!Free EXCEPT !.op = op, !.user = n, !.row = users[n], !.change = change]
                 \in Questions
<1>1. users[n] \in Rows /\ n \in Names
  BY RowsTyped
<1>2. A!Free = Unused /\ Unused \in Questions
  BY FreeTyped
<1>4. op \in {"free", "done"} \cup Chooses \cup Reads
  OBVIOUS
<1>5. [Unused EXCEPT !.op = op, !.user = n, !.row = users[n]] \in Questions
  BY <1>1, <1>2, <1>4 DEF Questions
<1>6. [Unused EXCEPT !.op = op, !.user = n, !.row = users[n], !.pw = p] \in Questions
  BY <1>1, <1>2, <1>4 DEF Questions
<1>7. [Unused EXCEPT !.op = op, !.user = n, !.row = users[n], !.change = change] \in Questions
  BY <1>1, <1>2, <1>4 DEF Questions
<1>. QED
  BY <1>2, <1>5, <1>6, <1>7
\* A request that is about to make an administrator, or to give one a password.
Make(r, op, n) ==
    [A!Free EXCEPT !.op = op, !.user = n, !.pw = r, !.alone = (A!Makers = {})]

\* The requests once it is made.
Made(r, op, n) ==
    reqs' = [q \in Requests |->
               IF q = r THEN Make(r, op, n)
               ELSE IF q \in A!Makers THEN [reqs[q] EXCEPT !.alone = FALSE] ELSE reqs[q]]

\* A request that makes an administrator, or gives one a password, is well-formed.
LEMMA MakeTyped ==
    ASSUME Typed, UNCHANGED users, NEW r \in Requests, A!Starts(r),
           NEW op \in Makes \cup {"repair"}, NEW n \in Names,
           op = "repair" => n \in DOMAIN users,
           Made(r, op, n)
    PROVE  /\ reqs' \in [Requests -> Questions] /\ \A p \in Requests : Fits(p)'
           /\ reqs[r].op = "free" /\ reqs'[r].op = op /\ reqs'[r].alone = (A!Makers = {})
           /\ reqs'[r].row.epoch = 0
           /\ \A q \in Requests \ {r} : q \notin A!Makers => reqs'[q] = reqs[q]
           /\ \A q \in A!Makers \ {r} :
                 /\ reqs'[q].op = reqs[q].op /\ ~reqs'[q].alone
                 /\ reqs'[q].row = reqs[q].row /\ reqs'[q].user = reqs[q].user
           /\ Meets(r)
<1>1. reqs \in [Requests -> Questions] /\ reqs[r] = A!Free
  BY DEF Typed, A!Starts
<1>2. reqs[r].op = "free"
  <2>1. A!Free.op = "free"
    BY FreeTyped DEF Unused
  <2>. QED
    BY <1>1, <2>1
<1>3. /\ Make(r, op, n) \in Questions
      /\ Make(r, op, n).op = op /\ Make(r, op, n).user = n /\ Make(r, op, n).pw = r
      /\ Make(r, op, n).alone = (A!Makers = {}) /\ Make(r, op, n).row.epoch = 0
  <2>1. (A!Makers = {}) \in BOOLEAN /\ r \in A!Passwords
    BY DEF A!Passwords
  <2>2. A!Free = Unused /\ Unused \in Questions /\ Unused.row.epoch = 0
    BY FreeTyped
  <2>. DEFINE single == (A!Makers = {})
  <2>. HIDE DEF single
  <2>3. Make(r, op, n) = [Unused EXCEPT !.op = op, !.user = n, !.pw = r, !.alone = single]
    BY <2>2 DEF Make, single
  <2>4. single \in BOOLEAN
    BY <2>1 DEF single
  <2>5. op \in {"free", "done"} \cup Chooses \cup Reads
    BY DEF Chooses
  <2>6. /\ Make(r, op, n) \in Questions
        /\ Make(r, op, n).op = op /\ Make(r, op, n).user = n /\ Make(r, op, n).pw = r
        /\ Make(r, op, n).alone = single /\ Make(r, op, n).row = Unused.row
    BY <2>1, <2>2, <2>3, <2>4, <2>5 DEF Questions
  <2>. QED
    BY <2>2, <2>6 DEF single
<1>4. reqs'[r] = Make(r, op, n) /\ reqs' = [q \in Requests |-> reqs'[q]]
  BY DEF Made
<1>5. ASSUME NEW q \in Requests \ {r}
      PROVE  /\ q \notin A!Makers => reqs'[q] = reqs[q]
             /\ q \in A!Makers => reqs'[q] = [reqs[q] EXCEPT !.alone = FALSE]
  BY DEF Made
<1>6. Meets(r)
  BY <1>5 DEF Meets, A!Makers, Makes
<1>7. Fits(r)'
  BY <1>3, <1>4 DEF Fits, Makes, Reads, Updates
<1>8. ASSUME NEW q \in A!Makers \ {r}
      PROVE  /\ reqs'[q].op = reqs[q].op /\ ~reqs'[q].alone
             /\ reqs'[q].row = reqs[q].row /\ reqs'[q].user = reqs[q].user
  <2>1. q \in Requests /\ reqs[q] \in Questions
    BY <1>1 DEF A!Makers
  <2>. QED
    BY <1>5, <2>1 DEF Questions
<1>9. reqs'[r] \in Questions
  BY <1>3, <1>4
<1>10. reqs' \in [Requests -> Questions] /\ \A p \in Requests : Fits(p)'
  BY <1>4, <1>6, <1>7, <1>9, RequestsTyped
<1>. QED
  BY <1>2, <1>3, <1>4, <1>5, <1>6, <1>8, <1>10

\* An update that is judged, and goes on.
LEMMA JudgeTyped ==
    ASSUME Typed, UNCHANGED users, NEW r \in Requests, reqs[r].op = "update",
           NEW others \in SUBSET Names,
           \/ reqs' = [reqs EXCEPT ![r].op = "judged"] /\ others = reqs[r].others
           \/ reqs' = [reqs EXCEPT ![r].op = "judged", ![r].others = others]
    PROVE  /\ reqs' \in [Requests -> Questions] /\ \A p \in Requests : Fits(p)'
           /\ reqs'[r].op = "judged" /\ reqs'[r].others = others
           /\ reqs'[r].row = reqs[r].row /\ reqs'[r].user = reqs[r].user
           /\ reqs'[r].change = reqs[r].change
           /\ \A q \in Requests \ {r} : reqs'[q] = reqs[q]
<1>. DEFINE new == [reqs[r] EXCEPT !.op = "judged", !.others = others]
<1>1. reqs \in [Requests -> Questions] /\ reqs[r] \in Questions /\ Fits(r)
  BY DEF Typed
<1>2. "judged" \in {"free", "done"} \cup Chooses \cup Reads
  BY DEF Reads, Updates
<1>3. /\ new \in Questions /\ new.op = "judged" /\ new.others = others
      /\ new.row = reqs[r].row /\ new.user = reqs[r].user /\ new.change = reqs[r].change
      /\ new.pw = reqs[r].pw
  BY <1>1, <1>2 DEF Questions
<1>4. reqs' = [reqs EXCEPT ![r] = new]
  <2>1. CASE reqs' = [reqs EXCEPT ![r].op = "judged", ![r].others = others]
    BY <1>1, <2>1 DEF Questions
  <2>2. CASE reqs' = [reqs EXCEPT ![r].op = "judged"] /\ others = reqs[r].others
    <3>1. new = [reqs[r] EXCEPT !.op = "judged"]
      BY <1>1, <2>2 DEF Questions
    <3>. QED
      BY <1>1, <2>2, <3>1
  <2>. QED
    BY <2>1, <2>2
<1>. HIDE DEF new
<1>5. /\ reqs'[r] = new /\ reqs' = [q \in Requests |-> reqs'[q]]
      /\ \A q \in Requests \ {r} : reqs'[q] = reqs[q]
  BY <1>1, <1>4
<1>6. Fits(r)'
  BY <1>1, <1>3, <1>5 DEF Fits, Reads, Updates, Chooses, Makes
<1>7. Meets(r)
  BY <1>5 DEF Meets
<1>8. reqs' \in [Requests -> Questions] /\ \A p \in Requests : Fits(p)'
  BY <1>3, <1>5, <1>6, <1>7, RequestsTyped
<1>. QED
  BY <1>3, <1>5, <1>8
-----------------------------------------------------------------------------
(* The types. *)

\* The tables stay as they are.
Untouched == UNCHANGED <<engine, users, tokens, printed, changed, rewound, raced, unasked>>

\* A request that reads a row before it goes away.
Begins(r) ==
    \/ \E n \in Names : A!ResetPassword(r, n)
    \/ \E n \in Names, p \in A!Passwords : A!Login(r, n, p)
    \/ \E t \in tokens : A!Logout(r, t) \/ A!ChangePassword(r, t)
    \/ \E t \in tokens, n \in Names, change \in A!Changes : A!UpdateUser(r, t, n, change)

\* What it holds then is the row as it is.
LEMMA BeginsTyped ==
    ASSUME Typed, NEW r \in Requests, Begins(r)
    PROVE  /\ Typed' /\ Untouched
           /\ reqs[r].op = "free" /\ reqs'[r].op \in Reads \ {"judged"}
           /\ reqs'[r].user \in DOMAIN users /\ reqs'[r].row = users[reqs'[r].user]
           /\ reqs'[r].op = "update" => A!ActiveAdmins # {}
           /\ \A q \in Requests \ {r} : reqs'[q] = reqs[q]
<1>. DEFINE Reading(q) ==
              /\ q \in Questions /\ q.op \in Reads \ {"judged"}
              /\ q.user \in DOMAIN users /\ q.row = users[q.user]
              /\ q.op \in Chooses => q.pw = r
              /\ q.op \in Updates => q.change \in A!Changes
              /\ q.op = "update" => A!ActiveAdmins # {}
<1>0. /\ A!Free = Unused /\ Unused \in Questions
      /\ <<"role", "admin">> \in A!Changes /\ NoPassword \in A!Passwords /\ r \in A!Passwords
  BY FreeTyped DEF A!Changes, A!Passwords
<1>1. \E q : Reading(q) /\ A!Start(r, q) /\ Untouched
  <2>1. ASSUME NEW n \in DOMAIN users, NEW op \in {"logout"}
        PROVE  Reading([A!Free EXCEPT !.op = op, !.user = n, !.row = users[n]])
    <3>1. [A!Free EXCEPT !.op = op, !.user = n, !.row = users[n]] \in Questions
      BY <1>0, ReadTyped DEF Reads
    <3>. QED
      BY <1>0, <3>1 DEF Unused, Reads, Chooses, Makes, Updates
  <2>2. ASSUME NEW n \in DOMAIN users, NEW op \in {"login", "password", "reset"},
               NEW p \in A!Passwords, op # "login" => p = r
        PROVE  Reading([A!Free EXCEPT !.op = op, !.user = n, !.row = users[n], !.pw = p])
    <3>1. [A!Free EXCEPT !.op = op, !.user = n, !.row = users[n], !.pw = p] \in Questions
      BY <1>0, ReadTyped DEF Reads
    <3>. QED
      BY <1>0, <2>2, <3>1 DEF Unused, Reads, Chooses, Makes, Updates
  <2>3. ASSUME NEW n \in DOMAIN users, NEW change \in A!Changes, A!ActiveAdmins # {}
        PROVE  Reading([A!Free EXCEPT !.op = "update", !.user = n, !.row = users[n],
                                      !.change = change])
    <3>1. [A!Free EXCEPT !.op = "update", !.user = n, !.row = users[n], !.change = change]
             \in Questions
      BY <1>0, ReadTyped DEF Reads, Updates
    <3>. QED
      BY <1>0, <2>3, <3>1 DEF Unused, Reads, Chooses, Makes, Updates
  <2>. HIDE DEF Reading
  <2>4. ASSUME NEW n \in Names, A!ResetPassword(r, n)
        PROVE  \E q : Reading(q) /\ A!Start(r, q) /\ Untouched
    BY <1>0, <2>2, <2>4 DEF A!ResetPassword, A!Accounts, Untouched
  <2>5. ASSUME NEW n \in Names, NEW p \in A!Passwords, A!Login(r, n, p)
        PROVE  \E q : Reading(q) /\ A!Start(r, q) /\ Untouched
    BY <2>2, <2>5 DEF A!Login, A!Accounts, Untouched
  <2>6. ASSUME NEW t \in tokens, A!Logout(r, t)
        PROVE  \E q : Reading(q) /\ A!Start(r, q) /\ Untouched
    BY <2>1, <2>6 DEF A!Logout, A!Accounts, Untouched
  <2>7. ASSUME NEW t \in tokens, A!ChangePassword(r, t)
        PROVE  \E q : Reading(q) /\ A!Start(r, q) /\ Untouched
    <3>1. t.user \in DOMAIN users
      BY <2>7 DEF A!ChangePassword, A!Live, A!Accounts
    <3>2. Reading([A!Free EXCEPT !.op = "password", !.user = t.user, !.row = users[t.user],
                                 !.pw = r])
      BY <1>0, <2>2, <3>1
    <3>. QED
      BY <2>7, <3>2 DEF A!ChangePassword, Untouched
  <2>8. ASSUME NEW t \in tokens, NEW n \in Names, NEW change \in A!Changes,
               A!UpdateUser(r, t, n, change)
        PROVE  \E q : Reading(q) /\ A!Start(r, q) /\ Untouched
    <3>1. t.user \in A!ActiveAdmins /\ n \in DOMAIN users
      BY <2>8 DEF A!UpdateUser, A!Live, A!ActiveAdmins, A!Accounts
    <3>2. A!ActiveAdmins # {}
      BY <3>1
    <3>. QED
      BY <2>3, <2>8, <3>1, <3>2 DEF A!UpdateUser, Untouched
  <2>. QED
    BY <2>4, <2>5, <2>6, <2>7, <2>8 DEF Begins
<1>2. PICK q : Reading(q) /\ A!Start(r, q) /\ Untouched
  BY <1>1
<1>3. /\ reqs' \in [Requests -> Questions] /\ \A p \in Requests : Fits(p)'
      /\ reqs[r].op = "free" /\ reqs'[r] = q
      /\ \A p \in Requests \ {r} : reqs'[p] = reqs[p]
  <2>1. /\ q.op \in Reads \cup {"repair"} => q.user \in DOMAIN users
        /\ q.op \in Chooses => q.pw = r
        /\ q.op \in Updates => q.change \in A!Changes
        /\ UNCHANGED users /\ q \in Questions
    BY <1>2 DEF Untouched
  <2>. QED
    BY <1>2, <2>1, StartTyped
<1>4. TablesTyped'
  BY <1>2 DEF Untouched, Typed, TablesTyped
<1>. QED
  BY <1>2, <1>3, <1>4 DEF Typed

\* A request that finds nobody to administer, or nobody with a password.
Prepares(r) == (\E n \in Names : A!Setup(r, n)) \/ A!Bootstrap(r)

\* What such a step leaves behind.
LEMMA PreparesTyped ==
    ASSUME Typed, NEW r \in Requests, Prepares(r)
    PROVE  /\ Typed' /\ Untouched
           /\ reqs[r].op = "free" /\ reqs'[r].op \in Makes \cup {"repair"}
           /\ reqs'[r].op \in Makes => A!Admins = {}
           /\ reqs'[r].alone = (A!Makers = {}) /\ reqs'[r].row.epoch = 0
           /\ \A q \in Requests \ {r} : q \notin A!Makers => reqs'[q] = reqs[q]
           /\ \A q \in A!Makers \ {r} :
                 /\ reqs'[q].op = reqs[q].op /\ ~reqs'[q].alone
                 /\ reqs'[q].row = reqs[q].row /\ reqs'[q].user = reqs[q].user
<1>. DEFINE Making(op, n) ==
              /\ op \in Makes \cup {"repair"} /\ n \in Names
              /\ op = "repair" => n \in DOMAIN users
              /\ op \in Makes => A!Admins = {}
              /\ A!Starts(r) /\ Made(r, op, n)
<1>1. Untouched
  BY DEF Prepares, A!Setup, A!Bootstrap, Untouched
<1>2. \E op, n : Making(op, n)
  <2>1. ASSUME NEW n \in Names, A!Setup(r, n)
        PROVE  Making("setup", n)
    <3>1. A!Admins = {}
      BY <2>1 DEF A!Setup, A!AdminExists, A!Admins, A!Accounts
    <3>. QED
      BY <2>1, <3>1 DEF A!Setup, Make, Made, Makes
  <2>2. CASE A!Bootstrap(r) /\ A!Admins = {}
    <3>1. AdminName \in Names
      BY AccountsAssumption
    <3>2. Making("bootstrap", AdminName)
      BY <2>2, <3>1 DEF A!Bootstrap, Make, Made, Makes
    <3>. QED
      BY <3>2
  <2>3. CASE A!Bootstrap(r) /\ A!Admins # {}
    <3>1. A!Oldest \in DOMAIN users /\ A!Oldest \in Names
      BY <2>3, OldestIsOne, RowsTyped DEF A!Admins, A!Accounts
    <3>2. Making("repair", A!Oldest)
      BY <2>3, <3>1 DEF A!Bootstrap, Make, Made, Makes
    <3>. QED
      BY <3>2
  <2>. QED
    BY <2>1, <2>2, <2>3 DEF Prepares
<1>3. PICK op, n : Making(op, n)
  BY <1>2
<1>4. /\ reqs' \in [Requests -> Questions] /\ \A p \in Requests : Fits(p)'
      /\ reqs[r].op = "free" /\ reqs'[r].op = op /\ reqs'[r].alone = (A!Makers = {})
      /\ reqs'[r].row.epoch = 0
      /\ \A q \in Requests \ {r} : q \notin A!Makers => reqs'[q] = reqs[q]
      /\ \A q \in A!Makers \ {r} :
            /\ reqs'[q].op = reqs[q].op /\ ~reqs'[q].alone
            /\ reqs'[q].row = reqs[q].row /\ reqs'[q].user = reqs[q].user
  <2>1. UNCHANGED users
    BY <1>1 DEF Untouched
  <2>2. /\ A!Starts(r) /\ op \in Makes \cup {"repair"} /\ n \in Names
        /\ op = "repair" => n \in DOMAIN users
        /\ Made(r, op, n)
    BY <1>3
  <2>. HIDE DEF Making
  <2>. QED
    BY <2>1, <2>2, MakeTyped
<1>5. TablesTyped'
  BY <1>1 DEF Untouched, Typed, TablesTyped
<1>. QED
  BY <1>1, <1>3, <1>4, <1>5 DEF Typed
\* A request that is answered, and nothing is said of the others.
Closes(r) ==
    /\ reqs'[r].op = "done" /\ reqs'[r].row.epoch = 0
    /\ \A q \in Requests \ {r} : reqs'[q] = reqs[q]

\* An account that is made, unless its name is taken.
Enrols(r) == A!SetupCommit(r) \/ A!BootstrapCommit(r)

\* What it does to the tables.
LEMMA EnrolsTyped ==
    ASSUME Typed, NEW r \in Requests, Enrols(r)
    PROVE  /\ Typed' /\ Closes(r) /\ UNCHANGED <<engine, changed, rewound, raced>>
           /\ reqs[r].op \in Makes
           /\ \/ UNCHANGED <<users, tokens, printed, unasked>>
              \/ /\ reqs[r].user \in Names \ DOMAIN users
                 /\ users' = A!With(reqs[r].user, A!Row("admin", "active", r, A!NewCreated))
                 /\ tokens' \subseteq tokens \cup {A!Signed(reqs[r].user, 0, r)}
                 /\ printed' \subseteq printed \cup {<<reqs[r].user, r>>}
                 /\ unasked' = IF reqs[r].alone THEN unasked \cup {reqs[r].user} ELSE unasked
<1>1. /\ reqs[r].op \in Makes /\ A!Finish(r) /\ UNCHANGED <<engine, changed, rewound, raced>>
  BY DEF Enrols, A!SetupCommit, A!BootstrapCommit, Makes
<1>2. reqs[r].user \in Names /\ reqs[r].pw = r
  BY <1>1 DEF Typed, Fits, Chooses, Questions
<1>3. CASE reqs[r].user \in DOMAIN users
  <2>1. UNCHANGED <<users, tokens, printed, unasked>>
    BY <1>3 DEF Enrols, A!SetupCommit, A!BootstrapCommit, A!Accounts
  <2>2. DOMAIN users \subseteq DOMAIN users'
    BY <2>1
  <2>3. TablesTyped'
    BY <1>1, <2>1 DEF Typed, TablesTyped
  <2>. QED
    BY <1>1, <2>1, <2>2, <2>3, FinishTyped DEF Closes, Typed
<1>4. CASE reqs[r].user \notin DOMAIN users
  <2>. DEFINE n == reqs[r].user
  <2>1. /\ users' = A!With(n, A!Row("admin", "active", r, A!NewCreated))
        /\ tokens' \subseteq tokens \cup {A!Signed(n, 0, r)}
        /\ printed' \subseteq printed \cup {<<n, r>>}
        /\ unasked' = IF reqs[r].alone THEN unasked \cup {n} ELSE unasked
    BY <1>2, <1>4 DEF Enrols, A!SetupCommit, A!BootstrapCommit, A!Accounts
  <2>2. n \in Names \ DOMAIN users
    BY <1>2, <1>4
  <2>. HIDE DEF n
  <2>3. /\ DOMAIN users' = DOMAIN users \cup {n} /\ users' \in [DOMAIN users' -> Rows]
    BY <2>1, <2>2, Enrolled
  <2>4. A!Signed(n, 0, r) \in Sessions /\ A!Signed(n, 0, r).user = n
    BY <2>2, AccountsAssumption DEF A!Signed, Sessions, A!Passwords
  <2>5. tokens' \subseteq Sessions /\ \A t \in tokens' : t.user \in DOMAIN users'
    BY <2>1, <2>3, <2>4 DEF Typed, TablesTyped
  <2>6. printed' \subseteq Names \X Requests /\ \A p \in printed' : p[1] \in DOMAIN users'
    BY <2>1, <2>2, <2>3 DEF Typed, TablesTyped
  <2>7. TablesTyped'
    BY <1>1, <2>1, <2>2, <2>3, <2>5, <2>6 DEF Typed, TablesTyped
  <2>8. DOMAIN users \subseteq DOMAIN users'
    BY <2>3
  <2>. QED
    BY <1>1, <2>1, <2>2, <2>7, <2>8, FinishTyped DEF Closes, Typed, n
<1>. QED
  BY <1>3, <1>4

\* A password for an administrator who has none.
LEMMA RepairTyped ==
    ASSUME Typed, NEW r \in Requests, A!Repair(r)
    PROVE  /\ Typed' /\ Closes(r) /\ reqs[r].op = "repair" /\ reqs[r].user \in DOMAIN users
           /\ UNCHANGED <<engine, tokens, changed, rewound, raced, unasked>>
           /\ \/ UNCHANGED <<users, printed>>
              \/ /\ users[reqs[r].user].pw = NoPassword
                 /\ users' = [users EXCEPT ![reqs[r].user].pw = r]
                 /\ printed' = printed \cup {<<reqs[r].user, r>>}
<1>. DEFINE n == reqs[r].user
<1>1. /\ reqs[r].op = "repair" /\ A!Finish(r)
      /\ UNCHANGED <<engine, tokens, changed, rewound, raced, unasked>>
  BY DEF A!Repair
<1>2. n \in Names /\ n \in DOMAIN users /\ reqs[r].pw = r /\ r \in A!Passwords
  BY <1>1 DEF Typed, Fits, Chooses, Questions, A!Passwords
<1>3. \/ UNCHANGED <<users, printed>>
      \/ /\ users[n].pw = NoPassword
         /\ users' = [users EXCEPT ![n].pw = r] /\ printed' = printed \cup {<<n, r>>}
  BY <1>2 DEF A!Repair, A!StillWithout
<1>. HIDE DEF n
<1>4. DOMAIN users' = DOMAIN users /\ users' \in [DOMAIN users' -> Rows]
  <2>1. CASE UNCHANGED <<users, printed>>
    BY <2>1 DEF Typed, TablesTyped
  <2>2. CASE users' = [users EXCEPT ![n].pw = r]
    BY <1>2, <2>2, NewPassword DEF Rewritten
  <2>. QED
    BY <1>3, <2>1, <2>2
<1>5. TablesTyped'
  BY <1>1, <1>2, <1>3, <1>4 DEF Typed, TablesTyped
<1>6. DOMAIN users \subseteq DOMAIN users'
  BY <1>4
<1>. QED
  BY <1>1, <1>2, <1>3, <1>5, <1>6, FinishTyped DEF Closes, Typed, n

\* A login that is answered.
LEMMA LoginTyped ==
    ASSUME Typed, NEW r \in Requests, A!LoginAnswer(r)
    PROVE  /\ Typed' /\ Closes(r) /\ reqs[r].op = "login" /\ reqs[r].user \in DOMAIN users
           /\ UNCHANGED <<engine, users, printed, changed, rewound, raced, unasked>>
           /\ \/ tokens' = tokens
              \/ /\ reqs[r].row.pw # NoPassword
                 /\ tokens' = tokens \cup
                       {A!Signed(reqs[r].user, reqs[r].row.epoch, reqs[r].row.pw)}
<1>. DEFINE q == reqs[r]
            t == A!Signed(q.user, q.row.epoch, q.row.pw)
<1>1. /\ q.op = "login" /\ A!Finish(r)
      /\ UNCHANGED <<engine, users, printed, changed, rewound, raced, unasked>>
      /\ tokens' = tokens \/ (q.row.pw # NoPassword /\ tokens' = tokens \cup {t})
  BY DEF A!LoginAnswer
<1>2. /\ q.user \in Names /\ q.user \in DOMAIN users
      /\ q.row \in Rows
  BY <1>1 DEF Typed, Fits, Reads, Questions
<1>3. q.row.pw # NoPassword => t \in Sessions /\ t.user = q.user
  BY <1>2 DEF A!Signed, Sessions, Rows
<1>4. TablesTyped'
  BY <1>1, <1>2, <1>3 DEF Typed, TablesTyped
<1>5. DOMAIN users \subseteq DOMAIN users'
  BY <1>1
<1>. QED
  BY <1>1, <1>2, <1>4, <1>5, FinishTyped DEF Closes, Typed
\* The end of sessions, with another password or without: what is written is the row that was
\* read, one epoch later.
Writes(r) == A!LogoutCommit(r) \/ A!PasswordCommit(r)

\* What it does to the row and the sessions.
LEMMA WritesTyped ==
    ASSUME Typed, NEW r \in Requests, Writes(r)
    PROVE  LET n == reqs[r].user
               e == reqs[r].row.epoch
           IN  /\ Typed' /\ Closes(r) /\ reqs[r].op \in Reads /\ n \in DOMAIN users
               /\ UNCHANGED <<engine, printed, raced, unasked>>
               /\ rewound' = (rewound \/ users[n].epoch # e)
               /\ changed \subseteq changed'
               /\ DOMAIN users' = DOMAIN users
               /\ users'[n].role = users[n].role /\ users'[n].status = users[n].status
               /\ users'[n].epoch = e + 1
               /\ \A m \in DOMAIN users \ {n} : users'[m] = users[m]
               /\ \/ tokens' = tokens /\ users'[n].pw = users[n].pw
                  \/ /\ users'[n].pw = r /\ n \in changed'
                     /\ tokens' \subseteq tokens \cup {A!Signed(n, e + 1, r)}
<1>. DEFINE n == reqs[r].user
            e == reqs[r].row.epoch
<1>1. /\ reqs[r].op \in {"logout", "password", "reset"} /\ A!Finish(r)
      /\ UNCHANGED <<engine, printed, raced, unasked>>
      /\ rewound' = (rewound \/ users[n].epoch # e)
      /\ changed \subseteq changed'
  BY DEF Writes, A!LogoutCommit, A!PasswordCommit, A!Stale
<1>2. /\ n \in Names /\ n \in DOMAIN users /\ e \in Nat /\ e + 1 \in Nat
      /\ reqs[r].op # "logout" => reqs[r].pw = r
      /\ r \in A!Passwords \ {NoPassword}
  BY <1>1, AccountsAssumption DEF Typed, Fits, Reads, Chooses, Questions, Rows, A!Passwords
<1>3. \/ tokens' = tokens /\ users' = [users EXCEPT ![n].epoch = e + 1]
      \/ /\ users' = [users EXCEPT ![n].pw = r, ![n].epoch = e + 1]
         /\ n \in changed' /\ tokens' \subseteq tokens \cup {A!Signed(n, e + 1, r)}
  BY <1>1, <1>2 DEF Writes, A!LogoutCommit, A!PasswordCommit, A!NextEpoch
<1>. HIDE DEF n, e
<1>4. /\ DOMAIN users' = DOMAIN users /\ users' \in [DOMAIN users' -> Rows]
      /\ users'[n].role = users[n].role /\ users'[n].status = users[n].status
      /\ users'[n].epoch = e + 1
      /\ \A m \in DOMAIN users \ {n} : users'[m] = users[m]
      /\ \/ tokens' = tokens /\ users'[n].pw = users[n].pw
         \/ /\ users'[n].pw = r /\ n \in changed'
            /\ tokens' \subseteq tokens \cup {A!Signed(n, e + 1, r)}
  <2>1. CASE tokens' = tokens /\ users' = [users EXCEPT ![n].epoch = e + 1]
    <3>1. Rewritten(n, users[n].pw, e + 1)
      BY <1>2, <2>1, NewEpoch
    <3>. QED
      BY <2>1, <3>1 DEF Rewritten
  <2>2. CASE /\ users' = [users EXCEPT ![n].pw = r, ![n].epoch = e + 1]
             /\ n \in changed' /\ tokens' \subseteq tokens \cup {A!Signed(n, e + 1, r)}
    <3>1. Rewritten(n, r, e + 1)
      BY <1>2, <2>2, NewBoth
    <3>. QED
      BY <2>2, <3>1 DEF Rewritten
  <2>. QED
    BY <1>3, <2>1, <2>2
<1>5. A!Signed(n, e + 1, r) \in Sessions /\ A!Signed(n, e + 1, r).user = n
  BY <1>2 DEF A!Signed, Sessions
<1>6. rewound' \in BOOLEAN
  BY <1>1
<1>7. tokens' \subseteq Sessions /\ \A t \in tokens' : t.user \in DOMAIN users'
  BY <1>2, <1>4, <1>5 DEF Typed, TablesTyped
<1>8. TablesTyped'
  BY <1>1, <1>4, <1>6, <1>7 DEF Typed, TablesTyped
<1>9. DOMAIN users \subseteq DOMAIN users'
  BY <1>4
<1>10. Typed' /\ Closes(r)
  BY <1>1, <1>8, <1>9, FinishTyped DEF Closes, Typed
<1>11. reqs[r].op \in Reads
  BY <1>1 DEF Reads
<1>. QED
  BY <1>1, <1>2, <1>4, <1>10, <1>11 DEF n, e

\* A change of a role or a status that is judged: refused, or to be committed.
LEMMA JudgesTyped ==
    ASSUME Typed, NEW r \in Requests, A!Judge(r)
    PROVE  /\ Typed' /\ Untouched /\ reqs[r].op = "update"
           /\ \/ Closes(r)
              \/ /\ reqs'[r].op = "judged" /\ reqs'[r].row = reqs[r].row
                 /\ reqs'[r].user = reqs[r].user /\ reqs'[r].change = reqs[r].change
                 /\ \A q \in Requests \ {r} : reqs'[q] = reqs[q]
                 /\ A!GivesUp(reqs[r]) =>
                       /\ reqs'[r].others = A!ActiveAdmins \ {reqs[r].user}
                       /\ reqs'[r].others # {}
<1>. DEFINE others == A!ActiveAdmins \ {reqs[r].user}
<1>1. Untouched /\ reqs[r].op = "update" /\ UNCHANGED users /\ DOMAIN users \subseteq DOMAIN users'
  BY DEF A!Judge, Untouched
<1>2. TablesTyped'
  BY <1>1 DEF Untouched, Typed, TablesTyped
<1>3. CASE A!Finish(r)
  BY <1>1, <1>2, <1>3, FinishTyped DEF Closes, Typed
<1>4. CASE ~A!GivesUp(reqs[r]) /\ reqs' = [reqs EXCEPT ![r].op = "judged"]
  <2>1. reqs[r].others \in SUBSET Names
    BY DEF Typed, Questions
  <2>. QED
    BY <1>1, <1>2, <1>4, <2>1, JudgeTyped DEF Typed
<1>5. CASE others # {} /\ reqs' = [reqs EXCEPT ![r].op = "judged", ![r].others = others]
  <2>1. others \in SUBSET Names
    BY DEF A!ActiveAdmins, A!Accounts, Typed, TablesTyped
  <2>. HIDE DEF others
  <2>2. /\ reqs' \in [Requests -> Questions] /\ \A p \in Requests : Fits(p)'
        /\ reqs'[r].op = "judged" /\ reqs'[r].others = others
        /\ reqs'[r].row = reqs[r].row /\ reqs'[r].user = reqs[r].user
        /\ reqs'[r].change = reqs[r].change
        /\ \A q \in Requests \ {r} : reqs'[q] = reqs[q]
    BY <1>1, <1>5, <2>1, JudgeTyped
  <2>. QED
    BY <1>1, <1>2, <1>5, <2>2 DEF Typed, others
<1>. QED
  BY <1>3, <1>4, <1>5 DEF A!Judge, A!Others

\* And committed: the column is written if it differs from what was read.
LEMMA UpdateTyped ==
    ASSUME Typed, NEW r \in Requests, A!UpdateCommit(r)
    PROVE  LET n == reqs[r].user
               q == reqs[r]
           IN  /\ Typed' /\ Closes(r) /\ q.op = "judged" /\ n \in DOMAIN users
               /\ n \notin A!HeldByOthers(r)
               /\ UNCHANGED <<engine, tokens, printed, changed, rewound, unasked>>
               /\ raced \/ users[n].role # q.row.role \/ users[n].status # q.row.status
                        \/ (engine = "sqlite" /\ q.others # {}
                                /\ A!ActiveAdmins \ {n} # q.others) => raced'
               /\ DOMAIN users' = DOMAIN users
               /\ users'[n].pw = users[n].pw /\ users'[n].epoch = users[n].epoch
               /\ \A m \in DOMAIN users \ {n} : users'[m] = users[m]
               /\ q.change \in A!Changes
               /\ IF q.row[q.change[1]] = q.change[2] THEN users' = users
                  ELSE /\ users'[n].role =
                             IF q.change[1] = "role" THEN q.change[2] ELSE users[n].role
                       /\ users'[n].status =
                             IF q.change[1] = "status" THEN q.change[2] ELSE users[n].status
<1>. DEFINE n == reqs[r].user
            q == reqs[r]
<1>1. /\ q.op = "judged" /\ A!Finish(r) /\ n \notin A!HeldByOthers(r)
      /\ UNCHANGED <<engine, tokens, printed, changed, rewound, unasked>>
  BY DEF A!UpdateCommit
<1>2. /\ raced \/ users[n].role # q.row.role \/ users[n].status # q.row.status
               \/ (engine = "sqlite" /\ q.others # {} /\ A!ActiveAdmins \ {n} # q.others)
           => raced'
      /\ raced' \in BOOLEAN
  BY DEF A!UpdateCommit
<1>3. n \in DOMAIN users /\ q.change \in A!Changes
  BY <1>1 DEF Typed, Fits, Reads, Updates
<1>4. IF q.row[q.change[1]] = q.change[2] THEN users' = users
      ELSE users' = [users EXCEPT ![n][q.change[1]] = q.change[2]]
  BY DEF A!UpdateCommit, A!Field
<1>5. /\ DOMAIN users' = DOMAIN users /\ users' \in [DOMAIN users' -> Rows]
      /\ users'[n].pw = users[n].pw /\ users'[n].epoch = users[n].epoch
      /\ \A m \in DOMAIN users \ {n} : users'[m] = users[m]
      /\ IF q.row[q.change[1]] = q.change[2] THEN users' = users
         ELSE /\ users'[n].role =
                    IF q.change[1] = "role" THEN q.change[2] ELSE users[n].role
              /\ users'[n].status =
                    IF q.change[1] = "status" THEN q.change[2] ELSE users[n].status
  <2>. HIDE DEF n
  <2>1. CASE q.row[q.change[1]] = q.change[2]
    <3>1. users' = users
      BY <1>4, <2>1
    <3>. QED
      BY <2>1, <3>1 DEF Typed, TablesTyped
  <2>2. CASE q.row[q.change[1]] # q.change[2]
    <3>. DEFINE change == q.change
    <3>1. users' = [users EXCEPT ![n][change[1]] = change[2]] /\ change \in A!Changes
      BY <1>3, <1>4, <2>2
    <3>. HIDE DEF change
    <3>2. /\ DOMAIN users' = DOMAIN users /\ users' \in [DOMAIN users' -> Rows]
          /\ users'[n].role = IF change[1] = "role" THEN change[2] ELSE users[n].role
          /\ users'[n].status = IF change[1] = "status" THEN change[2] ELSE users[n].status
          /\ users'[n].pw = users[n].pw /\ users'[n].epoch = users[n].epoch
          /\ \A m \in DOMAIN users \ {n} : users'[m] = users[m]
      BY <1>3, <3>1, Promoted
    <3>. QED
      BY <2>2, <3>2 DEF change
  <2>. QED
    BY <2>1, <2>2
<1>6. TablesTyped'
  BY <1>1, <1>2, <1>5 DEF Typed, TablesTyped
<1>7. DOMAIN users \subseteq DOMAIN users'
  BY <1>5
<1>8. Typed' /\ Closes(r)
  BY <1>1, <1>6, <1>7, FinishTyped DEF Closes, Typed
<1>. QED
  BY <1>1, <1>2, <1>3, <1>5, <1>8 DEF n, q

\* A request that the database aborts.
LEMMA AbortTyped ==
    ASSUME Typed, NEW r \in Requests, A!Abort(r)
    PROVE  Typed' /\ Closes(r) /\ Untouched /\ reqs[r].op \notin {"free", "done"}
<1>1. Untouched /\ A!Finish(r) /\ DOMAIN users \subseteq DOMAIN users'
      /\ reqs[r].op \notin {"free", "done"}
  BY DEF A!Abort, A!Open, Untouched
<1>2. TablesTyped'
  BY <1>1 DEF Untouched, Typed, TablesTyped
<1>. QED
  BY <1>1, <1>2, FinishTyped DEF Closes, Typed

\* The steps of a request.
Steps(r) ==
    \/ Begins(r) \/ Prepares(r) \/ Enrols(r) \/ A!Repair(r) \/ A!LoginAnswer(r)
    \/ Writes(r) \/ A!Judge(r) \/ A!UpdateCommit(r) \/ A!Abort(r)

\* The steps there are.
LEMMA StepsAre ==
    ASSUME A!Next
    PROVE  \E r \in Requests : Steps(r)
BY DEF A!Next, Begins, Prepares, Enrols, Writes, Steps

\* Whatever happens, the types stay.
LEMMA AccountsTyped ==
    ASSUME Typed, A!Next
    PROVE  Typed'
<1>1. PICK r \in Requests : Steps(r)
  BY StepsAre
<1>2. Writes(r) => Typed'
  BY WritesTyped
<1>3. A!UpdateCommit(r) => Typed'
  BY UpdateTyped
<1>. QED
  BY <1>1, <1>2, <1>3, BeginsTyped, PreparesTyped, EnrolsTyped, RepairTyped, LoginTyped,
     JudgesTyped, AbortTyped DEF Steps

-----------------------------------------------------------------------------
(* The epochs: no account has had its sessions ended more often than       *)
(* requests were answered.                                                 *)

\* Requests are finitely many.
LEMMA EndedCount ==
    ASSUME NEW S \in SUBSET Requests
    PROVE  IsFiniteSet(S) /\ Cardinality(S) \in Nat /\ Cardinality(S) <= Cardinality(Requests)
<1>1. IsFiniteSet(Requests)
  BY AccountsAssumption
<1>. QED
  BY <1>1, FS_Subset, FS_CardinalityType

\* An answer is one more.
LEMMA OneMoreEnded ==
    ASSUME Typed, NEW r \in Requests, Closes(r), reqs[r].op # "done"
    PROVE  /\ Cardinality(Ended) \in Nat /\ Cardinality(Ended') = Cardinality(Ended) + 1
<1>1. Ended \in SUBSET Requests /\ r \notin Ended /\ Ended' = Ended \cup {r}
  BY DEF Ended, Closes
<1>2. IsFiniteSet(Ended) /\ Cardinality(Ended) \in Nat
  BY <1>1, EndedCount
<1>. QED
  BY <1>1, <1>2, FS_AddElement

\* An answer that writes an epoch, at most one later than any there is.
LEMMA EpochsWritten ==
    ASSUME Typed, Epochs, NEW r \in Requests, Closes(r), reqs[r].op # "done",
           \A n \in DOMAIN users' : users'[n].epoch <= Cardinality(Ended) + 1
    PROVE  Epochs'
<1>1. Cardinality(Ended) \in Nat /\ Cardinality(Ended') = Cardinality(Ended) + 1
  BY OneMoreEnded
<1>2. ASSUME NEW q \in Requests
      PROVE  reqs'[q].row.epoch <= Cardinality(Ended')
  <2>1. CASE q = r
    BY <1>1, <2>1 DEF Closes
  <2>2. CASE q # r
    <3>1. reqs'[q].row.epoch = reqs[q].row.epoch /\ reqs[q].row.epoch <= Cardinality(Ended)
      BY <2>2 DEF Closes, Epochs
    <3>2. reqs[q].row.epoch \in Nat
      BY DEF Typed, Questions, Rows
    <3>. QED
      BY <1>1, <3>1, <3>2
  <2>. QED
    BY <2>1, <2>2
<1>3. \A n \in DOMAIN users' : users'[n].epoch <= Cardinality(Ended')
  BY <1>1
<1>. QED
  BY <1>2, <1>3 DEF Epochs

\* And one that writes none.
LEMMA EpochsAnswered ==
    ASSUME Typed, Epochs, NEW r \in Requests, Closes(r), reqs[r].op # "done",
           \A n \in DOMAIN users' :
              \/ users'[n].epoch = 0
              \/ n \in DOMAIN users /\ users'[n].epoch = users[n].epoch
    PROVE  Epochs'
<1>1. Cardinality(Ended) \in Nat
  BY OneMoreEnded
<1>2. ASSUME NEW n \in DOMAIN users'
      PROVE  users'[n].epoch <= Cardinality(Ended) + 1
  <2>1. CASE users'[n].epoch = 0
    BY <1>1, <2>1
  <2>2. CASE n \in DOMAIN users /\ users'[n].epoch = users[n].epoch
    <3>1. users[n].epoch \in Nat /\ users[n].epoch <= Cardinality(Ended)
      BY <2>2, RowsTyped DEF Epochs
    <3>. QED
      BY <1>1, <2>2, <3>1
  <2>. QED
    BY <2>1, <2>2
<1>. QED
  BY <1>2, EpochsWritten

\* Every step keeps the epochs below the number of answers.
LEMMA EpochsStep ==
    ASSUME Typed, Typed', Epochs, NEW r \in Requests, Steps(r)
    PROVE  Epochs'
<1>1. CASE Begins(r)
  <2>1. Ended' = Ended /\ UNCHANGED users
    BY <1>1, BeginsTyped DEF Ended, Reads, Updates, Untouched
  <2>2. ASSUME NEW q \in Requests
        PROVE  reqs'[q].row.epoch <= Cardinality(Ended)
    BY <1>1, BeginsTyped DEF Epochs
  <2>. QED
    BY <2>1, <2>2 DEF Epochs
<1>2. CASE Prepares(r)
  <2>1. \A q \in Requests : (reqs'[q].op = "done") <=> (reqs[q].op = "done")
    BY <1>2, PreparesTyped DEF Makes, A!Makers
  <2>2. Ended' = Ended /\ UNCHANGED users
    BY <1>2, <2>1, PreparesTyped DEF Ended, Untouched
  <2>3. Cardinality(Ended) \in Nat
    BY EndedCount DEF Ended
  <2>4. ASSUME NEW q \in Requests
        PROVE  reqs'[q].row.epoch <= Cardinality(Ended)
    <3>1. CASE q = r
      BY <1>2, <2>3, <3>1, PreparesTyped
    <3>2. CASE q # r
      <4>1. reqs'[q].row = reqs[q].row
        BY <1>2, <3>2, PreparesTyped
      <4>. QED
        BY <4>1 DEF Epochs
    <3>. QED
      BY <3>1, <3>2
  <2>. QED
    BY <2>2, <2>4 DEF Epochs
<1>3. CASE Enrols(r)
  <2>1. Closes(r) /\ reqs[r].op # "done"
    BY <1>3, EnrolsTyped DEF Makes
  <2>2. CASE UNCHANGED users
    BY <2>1, <2>2, EpochsAnswered
  <2>3. CASE /\ reqs[r].user \in Names \ DOMAIN users
             /\ users' = A!With(reqs[r].user, A!Row("admin", "active", r, A!NewCreated))
    <3>1. \A n \in DOMAIN users' :
             \/ users'[n].epoch = 0
             \/ n \in DOMAIN users /\ users'[n].epoch = users[n].epoch
      BY <2>3, Enrolled
    <3>. QED
      BY <2>1, <3>1, EpochsAnswered
  <2>. QED
    BY <1>3, <2>2, <2>3, EnrolsTyped
<1>4. CASE A!Repair(r)
  <2>1. Closes(r) /\ reqs[r].op # "done" /\ reqs[r].user \in DOMAIN users
    BY <1>4, RepairTyped
  <2>2. CASE UNCHANGED users
    BY <2>1, <2>2, EpochsAnswered
  <2>3. CASE users' = [users EXCEPT ![reqs[r].user].pw = r]
    <3>1. r \in A!Passwords
      BY DEF A!Passwords
    <3>2. Rewritten(reqs[r].user, r, users[reqs[r].user].epoch)
      BY <2>1, <2>3, <3>1, NewPassword
    <3>3. \A n \in DOMAIN users' : n \in DOMAIN users /\ users'[n].epoch = users[n].epoch
      BY <2>1, <3>2 DEF Rewritten
    <3>. QED
      BY <2>1, <3>3, EpochsAnswered
  <2>. QED
    BY <1>4, <2>2, <2>3, RepairTyped
<1>5. CASE A!LoginAnswer(r)
  <2>1. Closes(r) /\ reqs[r].op # "done" /\ UNCHANGED users
    BY <1>5, LoginTyped
  <2>. QED
    BY <2>1, EpochsAnswered
<1>6. CASE Writes(r)
  <2>. DEFINE n == reqs[r].user
              e == reqs[r].row.epoch
  <2>1. /\ Closes(r) /\ reqs[r].op \in Reads /\ n \in DOMAIN users
        /\ DOMAIN users' = DOMAIN users /\ users'[n].epoch = e + 1
        /\ \A m \in DOMAIN users \ {n} : users'[m] = users[m]
    BY <1>6, WritesTyped
  <2>2. reqs[r].op # "done" /\ e \in Nat /\ e <= Cardinality(Ended)
    BY <2>1 DEF Reads, Updates, Typed, Questions, Rows, Epochs
  <2>3. Cardinality(Ended) \in Nat
    BY EndedCount DEF Ended
  <2>. HIDE DEF e, n
  <2>4. ASSUME NEW m \in DOMAIN users'
        PROVE  users'[m].epoch <= Cardinality(Ended) + 1
    <3>1. CASE m = n
      BY <2>1, <2>2, <2>3, <3>1
    <3>2. CASE m # n
      <4>1. m \in DOMAIN users /\ users'[m] = users[m]
        BY <2>1, <3>2
      <4>2. users[m].epoch \in Nat /\ users[m].epoch <= Cardinality(Ended)
        BY <4>1, RowsTyped DEF Epochs
      <4>. QED
        BY <2>3, <4>1, <4>2
    <3>. QED
      BY <3>1, <3>2
  <2>. QED
    BY <2>1, <2>2, <2>4, EpochsWritten
<1>7. CASE A!Judge(r)
  <2>1. reqs[r].op = "update" /\ UNCHANGED users
    BY <1>7, JudgesTyped DEF Untouched
  <2>2. CASE Closes(r)
    BY <2>1, <2>2, EpochsAnswered
  <2>3. CASE /\ reqs'[r].op = "judged" /\ reqs'[r].row = reqs[r].row
             /\ \A q \in Requests \ {r} : reqs'[q] = reqs[q]
    <3>1. Ended' = Ended
      BY <2>1, <2>3 DEF Ended
    <3>2. \A q \in Requests : reqs'[q].row = reqs[q].row
      BY <2>3
    <3>. QED
      BY <2>1, <3>1, <3>2 DEF Epochs
  <2>. QED
    BY <1>7, <2>2, <2>3, JudgesTyped
<1>8. CASE A!UpdateCommit(r)
  <2>. DEFINE n == reqs[r].user
  <2>1. /\ Closes(r) /\ reqs[r].op # "done" /\ n \in DOMAIN users
        /\ DOMAIN users' = DOMAIN users /\ users'[n].epoch = users[n].epoch
        /\ \A m \in DOMAIN users \ {n} : users'[m] = users[m]
    BY <1>8, UpdateTyped
  <2>2. \A m \in DOMAIN users' : m \in DOMAIN users /\ users'[m].epoch = users[m].epoch
    BY <2>1
  <2>. QED
    BY <2>1, <2>2, EpochsAnswered
<1>9. CASE A!Abort(r)
  <2>1. Closes(r) /\ reqs[r].op # "done" /\ UNCHANGED users
    BY <1>9, AbortTyped DEF Untouched
  <2>. QED
    BY <2>1, EpochsAnswered
<1>. QED
  BY <1>1, <1>2, <1>3, <1>4, <1>5, <1>6, <1>7, <1>8, <1>9 DEF Steps
-----------------------------------------------------------------------------
(* The sessions: none at the epoch of its account with another password.   *)

\* Where neither epochs nor passwords change, sessions and rows stay what they were.
SameSecrets ==
    /\ DOMAIN users \subseteq DOMAIN users'
    /\ \A n \in DOMAIN users : users'[n].epoch = users[n].epoch /\ users'[n].pw = users[n].pw

\* Then the sessions stay true, and so does what a request has read.
LEMMA SecretsSame ==
    ASSUME Typed, SessionsKept, SameSecrets
    PROVE  /\ \A t \in tokens : TokenKept(t)'
           /\ \A q \in Requests : reqs'[q] = reqs[q] => ReadKept(q)'
<1>1. ASSUME NEW t \in tokens
      PROVE  TokenKept(t)'
  <2>1. t.user \in DOMAIN users
    BY DEF Typed, TablesTyped
  <2>. QED
    BY <2>1 DEF SessionsKept, TokenKept, SameSecrets
<1>2. ASSUME NEW q \in Requests, reqs'[q] = reqs[q]
      PROVE  ReadKept(q)'
  <2>1. ReadKept(q) /\ (reqs[q].op \in Reads => reqs[q].user \in DOMAIN users)
    BY DEF SessionsKept, Typed, Fits
  <2>. QED
    BY <1>2, <2>1 DEF ReadKept, SameSecrets
<1>. QED
  BY <1>1, <1>2

\* An answer takes the row with it.
LEMMA ClosedReadsNothing ==
    ASSUME NEW r \in Requests, Closes(r)
    PROVE  ReadKept(r)'
BY DEF Closes, ReadKept, Reads, Updates

\* What a request read is judged by the row that its account has now.
LEMMA ReadStays ==
    ASSUME NEW q, reqs'[q].op = reqs[q].op, reqs'[q].row = reqs[q].row,
           reqs'[q].user = reqs[q].user,
           NEW e, NEW p, NEW n, e = reqs[q].row.epoch, p = reqs[q].row.pw, n = reqs[q].user,
           reqs[q].op \in Reads =>
              /\ e <= users'[n].epoch
              /\ e = users'[n].epoch => p = NoPassword \/ p = users'[n].pw
              /\ p # NoPassword => users'[n].pw # NoPassword
    PROVE  ReadKept(q)'
BY DEF ReadKept

\* What it was judged by before.
LEMMA ReadWas ==
    ASSUME NEW q, ReadKept(q),
           NEW e, NEW p, NEW n, e = reqs[q].row.epoch, p = reqs[q].row.pw, n = reqs[q].user,
           reqs[q].op \in Reads
    PROVE  /\ e <= users[n].epoch
           /\ e = users[n].epoch => p = NoPassword \/ p = users[n].pw
           /\ p # NoPassword => users[n].pw # NoPassword
BY DEF ReadKept

\* Every step but one that writes an epoch over another keeps the sessions true.
LEMMA SessionsStep ==
    ASSUME Typed, Typed', SessionsKept, ~rewound', NEW r \in Requests, Steps(r)
    PROVE  SessionsKept'
<1>1. CASE Begins(r)
  <2>1. /\ UNCHANGED <<users, tokens>> /\ reqs'[r].user \in DOMAIN users
        /\ reqs'[r].row = users[reqs'[r].user]
        /\ \A q \in Requests \ {r} : reqs'[q] = reqs[q]
    BY <1>1, BeginsTyped DEF Untouched
  <2>2. users[reqs'[r].user].epoch \in Nat
    BY <2>1, RowsTyped
  <2>3. ReadKept(r)'
    BY <2>1, <2>2 DEF ReadKept
  <2>4. SameSecrets
    BY <2>1 DEF SameSecrets
  <2>. QED
    BY <2>1, <2>3, <2>4, SecretsSame DEF SessionsKept
<1>2. CASE Prepares(r)
  <2>1. /\ UNCHANGED <<users, tokens>> /\ reqs'[r].op \in Makes \cup {"repair"}
        /\ \A q \in Requests \ {r} : q \notin A!Makers => reqs'[q] = reqs[q]
        /\ \A q \in A!Makers \ {r} : reqs'[q].op = reqs[q].op
    BY <1>2, PreparesTyped DEF Untouched
  <2>2. SameSecrets
    BY <2>1 DEF SameSecrets
  <2>3. ASSUME NEW q \in Requests
        PROVE  ReadKept(q)'
    <3>1. CASE q = r
      BY <2>1, <3>1 DEF ReadKept, Reads, Makes, Updates
    <3>2. CASE q # r /\ q \in A!Makers
      BY <2>1, <3>2 DEF ReadKept, Reads, A!Makers, Updates
    <3>3. CASE q # r /\ q \notin A!Makers
      BY <2>1, <2>2, <3>3, SecretsSame
    <3>. QED
      BY <3>1, <3>2, <3>3
  <2>. QED
    BY <2>1, <2>2, <2>3, SecretsSame DEF SessionsKept
<1>3. CASE Enrols(r)
  <2>. DEFINE n == reqs[r].user
  <2>1. Closes(r)
    BY <1>3, EnrolsTyped
  <2>2. CASE UNCHANGED <<users, tokens>>
    <3>1. SameSecrets
      BY <2>2 DEF SameSecrets
    <3>. QED
      BY <2>1, <2>2, <3>1, SecretsSame, ClosedReadsNothing DEF SessionsKept, Closes
  <2>3. CASE /\ n \in Names \ DOMAIN users
             /\ users' = A!With(n, A!Row("admin", "active", r, A!NewCreated))
             /\ tokens' \subseteq tokens \cup {A!Signed(n, 0, r)}
    <3>. HIDE DEF n
    <3>1. /\ DOMAIN users' = DOMAIN users \cup {n} /\ users'[n].pw = r /\ users'[n].epoch = 0
          /\ \A m \in DOMAIN users : users'[m] = users[m]
      BY <2>3, Enrolled
    <3>2. SameSecrets
      BY <3>1 DEF SameSecrets
    <3>3. \A t \in {A!Signed(n, 0, r)} : TokenKept(t)'
      BY <3>1, AccountsAssumption DEF TokenKept, A!Signed
    <3>4. \A t \in tokens' : TokenKept(t)'
      BY <2>3, <3>2, <3>3, SecretsSame
    <3>5. \A q \in Requests : ReadKept(q)'
      BY <2>1, <3>2, SecretsSame, ClosedReadsNothing DEF Closes
    <3>. QED
      BY <3>4, <3>5 DEF SessionsKept
  <2>. QED
    BY <1>3, <2>2, <2>3, EnrolsTyped
<1>4. CASE A!Repair(r)
  <2>. DEFINE n == reqs[r].user
  <2>1. Closes(r) /\ n \in DOMAIN users /\ UNCHANGED tokens
    BY <1>4, RepairTyped
  <2>2. CASE UNCHANGED users
    <3>1. SameSecrets
      BY <2>2 DEF SameSecrets
    <3>. QED
      BY <2>1, <3>1, SecretsSame, ClosedReadsNothing DEF SessionsKept, Closes
  <2>3. CASE users[n].pw = NoPassword /\ users' = [users EXCEPT ![n].pw = r]
    <3>. HIDE DEF n
    <3>1. r \in A!Passwords /\ r # NoPassword
      BY AccountsAssumption DEF A!Passwords
    <3>2. /\ DOMAIN users' = DOMAIN users /\ users'[n].pw = r
          /\ users'[n].epoch = users[n].epoch
          /\ \A m \in DOMAIN users \ {n} : users'[m] = users[m]
      BY <2>1, <2>3, <3>1, NewPassword DEF Rewritten
    <3>3. ASSUME NEW t \in tokens
          PROVE  TokenKept(t)'
      <4>1. TokenKept(t) /\ t.user \in DOMAIN users
        BY DEF SessionsKept, Typed, TablesTyped
      <4>2. t.user # n
        BY <2>3, <4>1 DEF TokenKept
      <4>. QED
        BY <3>2, <4>1, <4>2 DEF TokenKept
    <3>4. ASSUME NEW q \in Requests \ {r}
          PROVE  ReadKept(q)'
      <4>1. /\ reqs'[q] = reqs[q] /\ ReadKept(q)
            /\ reqs[q].op \in Reads => reqs[q].user \in DOMAIN users
        BY <2>1 DEF Closes, SessionsKept, Typed, Fits
      <4>. DEFINE e == reqs[q].row.epoch
                  p == reqs[q].row.pw
                  m == reqs[q].user
      <4>2. reqs[q].op \in Reads =>
               /\ e <= users[m].epoch
               /\ e = users[m].epoch => p = NoPassword \/ p = users[m].pw
               /\ p # NoPassword => users[m].pw # NoPassword
        BY <4>1, ReadWas
      <4>3. /\ reqs'[q].op = reqs[q].op /\ reqs'[q].row = reqs[q].row
            /\ reqs'[q].user = reqs[q].user /\ e = reqs[q].row.epoch /\ p = reqs[q].row.pw
            /\ m = reqs[q].user /\ (reqs[q].op \in Reads => m \in DOMAIN users)
        BY <4>1
      <4>. HIDE DEF e, p, m
      <4>4. reqs[q].op \in Reads =>
               /\ e <= users'[m].epoch
               /\ e = users'[m].epoch => p = NoPassword \/ p = users'[m].pw
               /\ p # NoPassword => users'[m].pw # NoPassword
        <5>1. CASE m = n
          BY <2>3, <3>1, <3>2, <4>2, <5>1
        <5>2. CASE m # n
          BY <3>2, <4>2, <4>3, <5>2
        <5>. QED
          BY <5>1, <5>2
      <4>. QED
        BY <4>3, <4>4, ReadStays
    <3>. QED
      BY <2>1, <3>3, <3>4, ClosedReadsNothing DEF SessionsKept
  <2>. QED
    BY <1>4, <2>2, <2>3, RepairTyped
<1>5. CASE A!LoginAnswer(r)
  <2>. DEFINE t == A!Signed(reqs[r].user, reqs[r].row.epoch, reqs[r].row.pw)
  <2>1. /\ Closes(r) /\ UNCHANGED users /\ reqs[r].op \in Reads
        /\ tokens' = tokens \/ (reqs[r].row.pw # NoPassword /\ tokens' = tokens \cup {t})
    BY <1>5, LoginTyped DEF Reads
  <2>2. SameSecrets
    BY <2>1 DEF SameSecrets
  <2>3. reqs[r].row.pw # NoPassword => \A k \in {t} : TokenKept(k)'
    <3>. DEFINE e == reqs[r].row.epoch
                p == reqs[r].row.pw
                n == reqs[r].user
    <3>1. ReadKept(r)
      BY DEF SessionsKept
    <3>2. /\ e <= users[n].epoch
          /\ e = users[n].epoch => p = NoPassword \/ p = users[n].pw
          /\ p # NoPassword => users[n].pw # NoPassword
      BY <2>1, <3>1, ReadWas
    <3>3. t.user = n /\ t.epoch = e /\ t.pw = p /\ users' = users /\ p = reqs[r].row.pw
      BY <2>1 DEF A!Signed
    <3>. HIDE DEF e, p, n, t
    <3>. QED
      BY <3>2, <3>3 DEF TokenKept
  <2>. HIDE DEF t
  <2>4. \A k \in tokens' : TokenKept(k)'
    BY <2>1, <2>2, <2>3, SecretsSame
  <2>. QED
    BY <2>1, <2>2, <2>4, SecretsSame, ClosedReadsNothing DEF SessionsKept, Closes
<1>6. CASE Writes(r)
  <2>. DEFINE n == reqs[r].user
              e == reqs[r].row.epoch
  <2>1. /\ Closes(r) /\ n \in DOMAIN users /\ users[n].epoch = e
        /\ DOMAIN users' = DOMAIN users /\ users'[n].epoch = e + 1
        /\ \A m \in DOMAIN users \ {n} : users'[m] = users[m]
        /\ \/ tokens' = tokens /\ users'[n].pw = users[n].pw
           \/ users'[n].pw = r /\ tokens' \subseteq tokens \cup {A!Signed(n, e + 1, r)}
    BY <1>6, WritesTyped
  <2>2. e \in Nat /\ r # NoPassword
    BY <2>1, RowsTyped, AccountsAssumption
  <2>. HIDE DEF e, n
  <2>3. users[n].pw # NoPassword => users'[n].pw # NoPassword
    BY <2>1, <2>2
  <2>4. ASSUME NEW t \in tokens
        PROVE  TokenKept(t)'
    <3>1. TokenKept(t) /\ t.user \in DOMAIN users /\ t.epoch \in Nat
      BY DEF SessionsKept, Typed, TablesTyped, Sessions
    <3>2. CASE t.user = n
      <4>1. t.epoch <= e /\ users[n].pw # NoPassword
        BY <2>1, <3>1, <3>2 DEF TokenKept
      <4>2. t.epoch <= e + 1 /\ t.epoch # e + 1
        BY <2>2, <3>1, <4>1
      <4>. QED
        BY <2>1, <2>3, <3>2, <4>1, <4>2 DEF TokenKept
    <3>3. CASE t.user # n
      BY <2>1, <3>1, <3>3 DEF TokenKept
    <3>. QED
      BY <3>2, <3>3
  <2>5. users'[n].pw = r => \A t \in {A!Signed(n, e + 1, r)} : TokenKept(t)'
    BY <2>1, <2>2 DEF TokenKept, A!Signed
  <2>6. \A t \in tokens' : TokenKept(t)'
    BY <2>1, <2>4, <2>5
  <2>7. ASSUME NEW q \in Requests \ {r}
        PROVE  ReadKept(q)'
    <3>1. /\ reqs'[q] = reqs[q] /\ ReadKept(q)
          /\ reqs[q].op \in Reads => reqs[q].user \in DOMAIN users
          /\ reqs[q].row.epoch \in Nat
      BY <2>1 DEF Closes, SessionsKept, Typed, Fits, Questions, Rows
    <3>. DEFINE f == reqs[q].row.epoch
                p == reqs[q].row.pw
                m == reqs[q].user
    <3>2. reqs[q].op \in Reads =>
             /\ f <= users[m].epoch
             /\ f = users[m].epoch => p = NoPassword \/ p = users[m].pw
             /\ p # NoPassword => users[m].pw # NoPassword
      BY <3>1, ReadWas
    <3>3. /\ reqs'[q].op = reqs[q].op /\ reqs'[q].row = reqs[q].row
          /\ reqs'[q].user = reqs[q].user /\ f = reqs[q].row.epoch /\ p = reqs[q].row.pw
          /\ m = reqs[q].user /\ (reqs[q].op \in Reads => m \in DOMAIN users) /\ f \in Nat
      BY <3>1
    <3>. HIDE DEF f, p, m
    <3>4. reqs[q].op \in Reads =>
             /\ f <= users'[m].epoch
             /\ f = users'[m].epoch => p = NoPassword \/ p = users'[m].pw
             /\ p # NoPassword => users'[m].pw # NoPassword
      <4>1. CASE m = n
        <5>1. f <= e => f <= e + 1 /\ f # e + 1
          BY <2>2, <3>3
        <5>. QED
          BY <2>1, <2>3, <3>2, <4>1, <5>1
      <4>2. CASE m # n
        BY <2>1, <3>2, <3>3, <4>2
      <4>. QED
        BY <4>1, <4>2
    <3>. QED
      BY <3>3, <3>4, ReadStays
  <2>. QED
    BY <2>1, <2>6, <2>7, ClosedReadsNothing DEF SessionsKept
<1>7. CASE A!Judge(r)
  <2>1. UNCHANGED <<users, tokens>> /\ reqs[r].op = "update"
    BY <1>7, JudgesTyped DEF Untouched
  <2>2. SameSecrets
    BY <2>1 DEF SameSecrets
  <2>3. CASE Closes(r)
    BY <2>1, <2>2, <2>3, SecretsSame, ClosedReadsNothing DEF SessionsKept, Closes
  <2>4. CASE /\ reqs'[r].op = "judged" /\ reqs'[r].row = reqs[r].row
             /\ reqs'[r].user = reqs[r].user
             /\ \A q \in Requests \ {r} : reqs'[q] = reqs[q]
    <3>1. ReadKept(r)'
      <4>. DEFINE e == reqs[r].row.epoch
                  p == reqs[r].row.pw
                  m == reqs[r].user
      <4>1. ReadKept(r) /\ reqs[r].op \in Reads
        BY <2>1 DEF SessionsKept, Reads, Updates
      <4>2. /\ e <= users[m].epoch
            /\ e = users[m].epoch => p = NoPassword \/ p = users[m].pw
            /\ p # NoPassword => users[m].pw # NoPassword
        BY <4>1, ReadWas
      <4>3. /\ reqs'[r].row.epoch = e /\ reqs'[r].row.pw = p /\ reqs'[r].user = m
            /\ users' = users
        BY <2>1, <2>4
      <4>. HIDE DEF e, p, m
      <4>. QED
        BY <4>2, <4>3 DEF ReadKept
    <3>. QED
      BY <2>1, <2>2, <2>4, <3>1, SecretsSame DEF SessionsKept
  <2>. QED
    BY <1>7, <2>3, <2>4, JudgesTyped
<1>8. CASE A!UpdateCommit(r)
  <2>. DEFINE n == reqs[r].user
  <2>1. /\ Closes(r) /\ UNCHANGED tokens
        /\ DOMAIN users' = DOMAIN users
        /\ users'[n].pw = users[n].pw /\ users'[n].epoch = users[n].epoch
        /\ \A m \in DOMAIN users \ {n} : users'[m] = users[m]
    BY <1>8, UpdateTyped
  <2>2. SameSecrets
    BY <2>1 DEF SameSecrets
  <2>. QED
    BY <2>1, <2>2, SecretsSame, ClosedReadsNothing DEF SessionsKept, Closes
<1>9. CASE A!Abort(r)
  <2>1. Closes(r) /\ UNCHANGED <<users, tokens>>
    BY <1>9, AbortTyped DEF Untouched
  <2>2. SameSecrets
    BY <2>1 DEF SameSecrets
  <2>. QED
    BY <2>1, <2>2, SecretsSame, ClosedReadsNothing DEF SessionsKept, Closes
<1>. QED
  BY <1>1, <1>2, <1>3, <1>4, <1>5, <1>6, <1>7, <1>8, <1>9 DEF Steps
-----------------------------------------------------------------------------
(* The passwords printed in the log.                                        *)

\* A printed password opens its account, or its owner has changed it.
LEMMA PrintedStep ==
    ASSUME Typed, A!PrintedPasswordWorks, NEW r \in Requests, Steps(r)
    PROVE  A!PrintedPasswordWorks'
<1>. DEFINE n == reqs[r].user
            Kept(p) == /\ p \in printed /\ p[1] \in DOMAIN users' /\ p[1] \in DOMAIN users
                       /\ p[1] \in changed => p[1] \in changed'
                       /\ users'[p[1]].pw = users[p[1]].pw \/ p[1] \in changed'
            Fresh(p) == p[1] \in DOMAIN users' /\ users'[p[1]].pw = p[2]
<1>1. SUFFICES \A p \in printed' : Kept(p) \/ Fresh(p)
  BY DEF A!PrintedPasswordWorks, A!Accounts
<1>2. \A p \in printed : p[1] \in DOMAIN users /\ p[2] \in Requests
  BY DEF Typed, TablesTyped
<1>3. CASE UNCHANGED <<users, printed, changed>>
  BY <1>2, <1>3
<1>4. CASE Enrols(r)
  <2>1. UNCHANGED changed
    BY <1>4, EnrolsTyped
  <2>2. CASE UNCHANGED <<users, printed>>
    BY <1>3, <2>1, <2>2
  <2>3. CASE /\ n \in Names \ DOMAIN users
             /\ users' = A!With(n, A!Row("admin", "active", r, A!NewCreated))
             /\ printed' \subseteq printed \cup {<<n, r>>}
    <3>1. /\ DOMAIN users' = DOMAIN users \cup {n} /\ users'[n].pw = r
          /\ \A m \in DOMAIN users : users'[m] = users[m]
      BY <2>3, Enrolled
    <3>2. \A p \in printed : Kept(p)
      BY <1>2, <2>1, <3>1
    <3>3. Fresh(<<n, r>>)
      BY <3>1
    <3>. QED
      BY <2>3, <3>2, <3>3
  <2>. QED
    BY <1>4, <2>2, <2>3, EnrolsTyped
<1>5. CASE A!Repair(r)
  <2>1. UNCHANGED changed /\ n \in DOMAIN users
    BY <1>5, RepairTyped
  <2>2. CASE UNCHANGED <<users, printed>>
    BY <1>3, <2>1, <2>2
  <2>3. CASE /\ users[n].pw = NoPassword /\ users' = [users EXCEPT ![n].pw = r]
             /\ printed' = printed \cup {<<n, r>>}
    <3>1. r \in A!Passwords
      BY DEF A!Passwords
    <3>2. /\ DOMAIN users' = DOMAIN users /\ users'[n].pw = r
          /\ \A m \in DOMAIN users \ {n} : users'[m] = users[m]
      BY <2>1, <2>3, <3>1, NewPassword DEF Rewritten
    <3>3. ASSUME NEW p \in printed
          PROVE  Kept(p)
      <4>1. p[1] = n => p[1] \in changed
        BY <1>2, <2>3, AccountsAssumption DEF A!PrintedPasswordWorks
      <4>. QED
        BY <1>2, <2>1, <3>2, <4>1
    <3>4. Fresh(<<n, r>>)
      BY <2>1, <3>2
    <3>. QED
      BY <2>3, <3>3, <3>4
  <2>. QED
    BY <1>5, <2>2, <2>3, RepairTyped
<1>6. CASE Writes(r)
  <2>1. /\ UNCHANGED printed /\ changed \subseteq changed' /\ DOMAIN users' = DOMAIN users
        /\ \A m \in DOMAIN users \ {n} : users'[m] = users[m]
        /\ users'[n].pw = users[n].pw \/ n \in changed'
    BY <1>6, WritesTyped
  <2>. QED
    BY <1>2, <2>1
<1>7. CASE A!UpdateCommit(r)
  <2>1. /\ UNCHANGED <<printed, changed>> /\ DOMAIN users' = DOMAIN users
        /\ users'[n].pw = users[n].pw /\ \A m \in DOMAIN users \ {n} : users'[m] = users[m]
    BY <1>7, UpdateTyped
  <2>. QED
    BY <1>2, <2>1
<1>8. CASE Begins(r) \/ Prepares(r) \/ A!LoginAnswer(r) \/ A!Judge(r) \/ A!Abort(r)
  BY <1>3, <1>8, BeginsTyped, PreparesTyped, LoginTyped, JudgesTyped, AbortTyped DEF Untouched
<1>. QED
  BY <1>4, <1>5, <1>6, <1>7, <1>8 DEF Steps

-----------------------------------------------------------------------------
(* The administrators.                                                      *)

\* No role and no status changes.
SameRoles ==
    /\ DOMAIN users' = DOMAIN users
    /\ \A n \in DOMAIN users : users'[n].role = users[n].role /\ users'[n].status = users[n].status

\* Administrators are told from the roles and the statuses.
LEMMA RolesSame ==
    ASSUME SameRoles
    PROVE  A!Admins' = A!Admins /\ A!ActiveAdmins' = A!ActiveAdmins
BY DEF SameRoles, A!Admins, A!ActiveAdmins, A!Accounts

\* Only an update changes a role or a status, and only two steps make an account.
LEMMA RolesStay ==
    ASSUME Typed, NEW r \in Requests, Steps(r), ~A!UpdateCommit(r)
    PROVE  \/ SameRoles
           \/ /\ Enrols(r) /\ A!ActiveAdmins' # {}
              /\ A!ActiveAdmins \subseteq A!ActiveAdmins'
<1>. DEFINE n == reqs[r].user
<1>1. CASE UNCHANGED users
  BY <1>1 DEF SameRoles
<1>2. CASE Begins(r) \/ Prepares(r) \/ A!LoginAnswer(r) \/ A!Judge(r) \/ A!Abort(r)
  BY <1>1, <1>2, BeginsTyped, PreparesTyped, LoginTyped, JudgesTyped, AbortTyped DEF Untouched
<1>3. CASE Enrols(r)
  <2>1. CASE /\ n \in Names \ DOMAIN users
             /\ users' = A!With(n, A!Row("admin", "active", r, A!NewCreated))
    <3>1. /\ DOMAIN users' = DOMAIN users \cup {n}
          /\ users'[n].role = "admin" /\ users'[n].status = "active"
          /\ \A m \in DOMAIN users : users'[m] = users[m]
      BY <2>1, Enrolled
    <3>2. A!ActiveAdmins \subseteq A!ActiveAdmins' /\ n \in A!ActiveAdmins'
      BY <3>1 DEF A!ActiveAdmins, A!Accounts
    <3>. QED
      BY <1>3, <3>2
  <2>. QED
    BY <1>1, <1>3, <2>1, EnrolsTyped
<1>4. CASE A!Repair(r)
  <2>1. n \in DOMAIN users
    BY <1>4, RepairTyped
  <2>2. CASE users' = [users EXCEPT ![n].pw = r]
    <3>1. r \in A!Passwords
      BY DEF A!Passwords
    <3>2. Rewritten(n, r, users[n].epoch)
      BY <2>1, <2>2, <3>1, NewPassword
    <3>. QED
      BY <3>2 DEF Rewritten, SameRoles
  <2>. QED
    BY <1>1, <1>4, <2>2, RepairTyped
<1>5. CASE Writes(r)
  <2>1. /\ DOMAIN users' = DOMAIN users
        /\ users'[n].role = users[n].role /\ users'[n].status = users[n].status
        /\ \A m \in DOMAIN users \ {n} : users'[m] = users[m]
    BY <1>5, WritesTyped
  <2>. QED
    BY <2>1 DEF SameRoles
<1>. QED
  BY <1>2, <1>3, <1>4, <1>5 DEF Steps

\* A request that has been judged was judged before, or is judged now.
LEMMA JudgedBefore ==
    ASSUME Typed, NEW r \in Requests, Steps(r), NEW q \in Requests, reqs'[q].op = "judged"
    PROVE  \/ reqs'[q] = reqs[q] /\ q # r
           \/ q = r /\ A!Judge(r)
<1>1. Begins(r) => reqs'[r].op # "judged" /\ \A p \in Requests \ {r} : reqs'[p] = reqs[p]
  BY BeginsTyped
<1>2. Prepares(r) => /\ reqs'[r].op \in Makes \cup {"repair"}
                     /\ \A p \in Requests \ {r} : p \notin A!Makers => reqs'[p] = reqs[p]
                     /\ \A p \in A!Makers \ {r} : reqs'[p].op = reqs[p].op
  BY PreparesTyped
<1>3. Writes(r) \/ A!UpdateCommit(r) => Closes(r)
  BY WritesTyped, UpdateTyped
<1>4. Enrols(r) \/ A!Repair(r) \/ A!LoginAnswer(r) \/ A!Abort(r) => Closes(r)
  BY EnrolsTyped, RepairTyped, LoginTyped, AbortTyped
<1>5. A!Judge(r) => \A p \in Requests \ {r} : reqs'[p] = reqs[p]
  BY JudgesTyped DEF Closes
<1>6. Closes(r) => reqs'[q] = reqs[q] /\ q # r
  BY DEF Closes
<1>7. Prepares(r) => reqs'[q] = reqs[q] /\ q # r
  BY <1>2 DEF A!Makers, Makes
<1>. QED
  BY <1>1, <1>3, <1>4, <1>5, <1>6, <1>7 DEF Steps

\* Where an update is committed that another request's lock is waited for, the
\* administrators that were counted stay active.
LEMMA JudgedStep ==
    ASSUME Typed, Judged, NEW r \in Requests, Steps(r)
    PROVE  Judged'
<1>. SUFFICES ASSUME NEW q \in Requests, reqs'[q].op = "judged", A!GivesUp(reqs'[q])
              PROVE  /\ reqs'[q].others # {}
                     /\ engine' = "postgresql" =>
                           reqs'[q].others \subseteq A!ActiveAdmins' \ {reqs'[q].user}
  BY DEF Judged, A!GivesUp, A!Changed, A!Field
<1>0. engine' = engine
  <2>1. UNCHANGED engine \/ ~(Writes(r) \/ A!UpdateCommit(r))
    BY WritesTyped, UpdateTyped
  <2>. QED
    BY <2>1, BeginsTyped, PreparesTyped, EnrolsTyped, RepairTyped, LoginTyped,
       JudgesTyped, AbortTyped DEF Steps, Untouched
<1>1. CASE q = r /\ A!Judge(r)
  <2>1. /\ users' = users /\ reqs'[r].user = reqs[r].user
        /\ A!GivesUp(reqs[r]) => /\ reqs'[r].others = A!ActiveAdmins \ {reqs[r].user}
                                 /\ reqs'[r].others # {}
        /\ reqs'[r].row = reqs[r].row /\ reqs'[r].change = reqs[r].change
    BY <1>1, JudgesTyped DEF Untouched, Closes
  <2>2. A!GivesUp(reqs[r])
    BY <1>1, <2>1 DEF A!GivesUp, A!Changed, A!Field
  <2>3. A!ActiveAdmins' = A!ActiveAdmins
    BY <2>1, RolesSame DEF SameRoles
  <2>. QED
    BY <1>1, <2>1, <2>2, <2>3
<1>2. CASE reqs'[q] = reqs[q] /\ q # r
  <2>1. /\ reqs[q].others # {}
        /\ engine = "postgresql" => reqs[q].others \subseteq A!ActiveAdmins \ {reqs[q].user}
    BY <1>2 DEF Judged
  <2>2. CASE ~A!UpdateCommit(r)
    <3>1. A!ActiveAdmins \subseteq A!ActiveAdmins'
      BY <2>2, RolesStay, RolesSame
    <3>. QED
      BY <1>0, <1>2, <2>1, <3>1
  <2>3. CASE A!UpdateCommit(r) /\ engine = "postgresql"
    <3>1. /\ reqs[r].user \notin A!HeldByOthers(r) /\ DOMAIN users' = DOMAIN users
          /\ \A m \in DOMAIN users \ {reqs[r].user} : users'[m] = users[m]
      BY <2>3, UpdateTyped
    <3>2. reqs[q].others \subseteq A!HeldByOthers(r)
      BY <1>2, <2>3 DEF A!HeldByOthers, A!Held
    <3>3. A!ActiveAdmins \ {reqs[r].user} \subseteq A!ActiveAdmins'
      BY <3>1 DEF A!ActiveAdmins, A!Accounts
    <3>. QED
      BY <1>0, <1>2, <2>1, <3>1, <3>2, <3>3
  <2>. QED
    BY <1>0, <1>2, <2>1, <2>2, <2>3
<1>. QED
  BY <1>1, <1>2, JudgedBefore
\* Whoever gives up an administrator leaves one who is active, unless it was judged on rows
\* that have changed since.
LEMMA AdministratorStays ==
    ASSUME Typed, Judged, Administered, NEW r \in Requests, A!UpdateCommit(r), ~raced'
    PROVE  A!ActiveAdmins # {} /\ A!ActiveAdmins' # {}
<1>. DEFINE n == reqs[r].user
            q == reqs[r]
            change == reqs[r].change
            others == A!ActiveAdmins \ {n}
<1>1. /\ q.op = "judged" /\ n \in DOMAIN users /\ DOMAIN users' = DOMAIN users
      /\ \A m \in DOMAIN users \ {n} : users'[m] = users[m]
      /\ change \in A!Changes
      /\ raced \/ users[n].role # q.row.role \/ users[n].status # q.row.status
               \/ (engine = "sqlite" /\ q.others # {} /\ others # q.others) => raced'
      /\ IF q.row[change[1]] = change[2] THEN users' = users
         ELSE /\ users'[n].role = IF change[1] = "role" THEN change[2] ELSE users[n].role
              /\ users'[n].status = IF change[1] = "status" THEN change[2] ELSE users[n].status
  BY UpdateTyped
<1>2. /\ ~raced /\ users[n].role = q.row.role /\ users[n].status = q.row.status
      /\ engine = "sqlite" /\ q.others # {} => others = q.others
  BY <1>1
<1>3. A!ActiveAdmins # {}
  <2>1. A!Admins # {}
    BY <1>1, <1>2 DEF Administered, Updates
  <2>. QED
    BY <1>2, <2>1 DEF Administered
<1>4. others \subseteq A!ActiveAdmins'
  BY <1>1 DEF A!ActiveAdmins, A!Accounts
<1>5. CASE A!GivesUp(q)
  <2>1. q.others # {} /\ (engine = "postgresql" => q.others \subseteq others)
    BY <1>1, <1>5 DEF Judged
  <2>2. engine \in {"postgresql", "sqlite"}
    BY AccountsAssumption DEF Typed, TablesTyped
  <2>3. others # {}
    BY <1>2, <2>1, <2>2
  <2>. QED
    BY <1>3, <1>4, <2>3
<1>6. CASE ~A!GivesUp(q)
  <2>1. CASE users' = users
    BY <1>3, <2>1, RolesSame DEF SameRoles
  <2>2. CASE n \notin A!ActiveAdmins
    BY <1>3, <1>4, <2>2
  <2>3. CASE n \in A!ActiveAdmins /\ q.row[change[1]] # change[2]
    <3>1. q.row.role = "admin" /\ q.row.status = "active"
      BY <1>2, <2>3 DEF A!ActiveAdmins
    <3>2. q.row \in Rows
      BY DEF Typed, Questions
    <3>3. A!Changed(q).role = "admin" /\ A!Changed(q).status = "active"
      BY <1>6, <3>1 DEF A!GivesUp
    <3>4. change[2] = IF change[1] = "role" THEN "admin" ELSE "active"
      BY <1>1, <3>2, <3>3 DEF A!Changed, A!Field, A!Changes, Rows
    <3>5. users'[n].role = "admin" /\ users'[n].status = "active"
      BY <1>1, <1>2, <2>3, <3>1, <3>4 DEF A!Changes
    <3>. QED
      BY <1>1, <1>3, <3>5 DEF A!ActiveAdmins, A!Accounts
  <2>. QED
    BY <1>1, <2>1, <2>2, <2>3
<1>. QED
  BY <1>5, <1>6

\* What was raced stays raced, and who was made without being asked is still told of.
LEMMA RacedStays ==
    ASSUME Typed, NEW r \in Requests, Steps(r)
    PROVE  /\ raced => raced'
           /\ rewound => rewound'
           /\ ~Enrols(r) => unasked' = unasked
<1>1. Writes(r) => UNCHANGED <<raced, unasked>> /\ (rewound => rewound')
  BY WritesTyped
<1>2. A!UpdateCommit(r) => UNCHANGED <<rewound, unasked>> /\ (raced => raced')
  BY UpdateTyped
<1>3. Begins(r) \/ Prepares(r) => UNCHANGED <<rewound, raced, unasked>>
  BY BeginsTyped, PreparesTyped DEF Untouched
<1>4. A!Judge(r) \/ A!Abort(r) => UNCHANGED <<rewound, raced, unasked>>
  BY JudgesTyped, AbortTyped DEF Untouched
<1>5. A!Repair(r) \/ A!LoginAnswer(r) => UNCHANGED <<rewound, raced, unasked>>
  BY RepairTyped, LoginTyped
<1>6. Enrols(r) => UNCHANGED <<rewound, raced>>
  BY EnrolsTyped
<1>. QED
  BY <1>1, <1>2, <1>3, <1>4, <1>5, <1>6 DEF Steps

\* An update that is under way was asked for by an administrator.
LEMMA UpdatesBefore ==
    ASSUME Typed, NEW r \in Requests, Steps(r), NEW q \in Requests, reqs'[q].op \in Updates
    PROVE  reqs[q].op \in Updates \/ A!ActiveAdmins # {}
<1>1. Begins(r) => /\ reqs'[r].op = "update" => A!ActiveAdmins # {}
                  /\ reqs'[r].op # "judged"
                  /\ \A p \in Requests \ {r} : reqs'[p] = reqs[p]
  BY BeginsTyped
<1>2. Prepares(r) => /\ reqs'[r].op \in Makes \cup {"repair"}
                     /\ \A p \in Requests \ {r} : p \notin A!Makers => reqs'[p] = reqs[p]
                     /\ \A p \in A!Makers \ {r} : reqs'[p].op = reqs[p].op
  BY PreparesTyped
<1>3. Writes(r) \/ A!UpdateCommit(r) => Closes(r)
  BY WritesTyped, UpdateTyped
<1>4. Enrols(r) \/ A!Repair(r) \/ A!LoginAnswer(r) \/ A!Abort(r) => Closes(r)
  BY EnrolsTyped, RepairTyped, LoginTyped, AbortTyped
<1>5. A!Judge(r) => /\ reqs[r].op = "update"
                    /\ \A p \in Requests \ {r} : reqs'[p] = reqs[p]
  BY JudgesTyped DEF Closes
<1>6. Closes(r) => reqs[q].op \in Updates
  BY DEF Closes, Updates
<1>7. Prepares(r) => reqs[q].op \in Updates
  BY <1>2 DEF A!Makers, Makes, Updates
<1>8. A!Judge(r) => reqs[q].op \in Updates
  BY <1>5 DEF Updates
<1>9. Begins(r) => reqs[q].op \in Updates \/ A!ActiveAdmins # {}
  BY <1>1 DEF Updates
<1>. QED
  BY <1>3, <1>4, <1>6, <1>7, <1>8, <1>9 DEF Steps

\* Someone can still administer.
LEMMA AdministeredStep ==
    ASSUME Typed, Judged, Administered, NEW r \in Requests, Steps(r)
    PROVE  Administered'
<1>. SUFFICES ASSUME ~raced'
              PROVE  /\ A!Admins' # {} => A!ActiveAdmins' # {}
                     /\ (\E q \in Requests : reqs'[q].op \in Updates) => A!Admins' # {}
                     /\ unasked' # {} => A!Admins' # {}
  BY DEF Administered, Updates
<1>1. A!ActiveAdmins \subseteq A!Admins /\ A!ActiveAdmins' \subseteq A!Admins'
  BY DEF A!ActiveAdmins, A!Admins
<1>2. ~raced
  BY RacedStays
<1>3. CASE A!UpdateCommit(r)
  BY <1>1, <1>3, AdministratorStays
<1>4. CASE ~A!UpdateCommit(r) /\ SameRoles
  <2>1. A!Admins' = A!Admins /\ A!ActiveAdmins' = A!ActiveAdmins
    BY <1>4, RolesSame
  <2>2. A!Admins # {} => A!ActiveAdmins # {}
    BY <1>2 DEF Administered
  <2>3. (\E q \in Requests : reqs'[q].op \in Updates) => A!Admins # {}
    BY <1>1, <1>2, UpdatesBefore DEF Administered
  <2>4. unasked' # {} => A!Admins # {}
    <3>1. CASE ~Enrols(r)
      BY <1>2, <3>1, RacedStays DEF Administered
    <3>2. CASE Enrols(r)
      <4>1. \/ unasked' = unasked
            \/ /\ reqs[r].user \in Names \ DOMAIN users
               /\ users' = A!With(reqs[r].user, A!Row("admin", "active", r, A!NewCreated))
        BY <3>2, EnrolsTyped
      <4>2. DOMAIN users' = DOMAIN users
        BY <1>4 DEF SameRoles
      <4>3. unasked' = unasked
        BY <4>1, <4>2, Enrolled
      <4>. QED
        BY <1>2, <4>3 DEF Administered
    <3>. QED
      BY <3>1, <3>2
  <2>. QED
    BY <2>1, <2>2, <2>3, <2>4
<1>5. CASE ~A!UpdateCommit(r) /\ A!ActiveAdmins' # {}
  BY <1>1, <1>5
<1>. QED
  BY <1>3, <1>4, <1>5, RolesStay

\* Who makes an administrator alone is the only one at it, and nobody administers yet.
LEMMA MakersMeetStep ==
    ASSUME Typed, Administered, MakersMeet, NEW r \in Requests, Steps(r)
    PROVE  MakersMeet'
<1>0. \A q \in Requests : q \in A!Makers <=> reqs[q].op \in Makes
  BY DEF A!Makers, Makes
<1>1. A!Makers' = {q \in Requests : reqs'[q].op \in Makes}
  BY DEF A!Makers, Makes
<1>. SUFFICES ASSUME NEW q \in Requests, reqs'[q].op \in Makes, reqs'[q].alone
              PROVE  A!Makers' = {q} /\ (~raced' => A!Admins' = {})
  BY DEF MakersMeet, Makes
<1>2. CASE Prepares(r)
  <2>1. /\ users' = users /\ raced' = raced /\ reqs[r].op = "free"
        /\ reqs'[r].op \in Makes => A!Admins = {}
        /\ reqs'[r].alone = (A!Makers = {})
        /\ \A p \in Requests \ {r} : p \notin A!Makers => reqs'[p] = reqs[p]
        /\ \A p \in A!Makers \ {r} : ~reqs'[p].alone
    BY <1>2, PreparesTyped DEF Untouched
  <2>2. q = r
    BY <1>0, <2>1
  <2>3. A!Makers = {}
    BY <2>1, <2>2
  <2>4. A!Makers' = {r}
    BY <1>0, <1>1, <2>1, <2>2, <2>3
  <2>5. A!Admins' = A!Admins
    BY <2>1, RolesSame DEF SameRoles
  <2>. QED
    BY <2>1, <2>2, <2>4, <2>5
<1>3. CASE ~Prepares(r)
  <2>1. /\ reqs'[r].op \notin Makes
        /\ \A p \in Requests \ {r} : reqs'[p] = reqs[p]
    <3>1. Begins(r) => /\ reqs'[r].op \in Reads \ {"judged"}
                      /\ \A p \in Requests \ {r} : reqs'[p] = reqs[p]
      BY BeginsTyped
    <3>2. Writes(r) \/ A!UpdateCommit(r) => Closes(r)
      BY WritesTyped, UpdateTyped
    <3>3. Enrols(r) \/ A!Repair(r) \/ A!LoginAnswer(r) \/ A!Abort(r) => Closes(r)
      BY EnrolsTyped, RepairTyped, LoginTyped, AbortTyped
    <3>4. A!Judge(r) => /\ reqs'[r].op \in {"done", "judged"}
                        /\ \A p \in Requests \ {r} : reqs'[p] = reqs[p]
      BY JudgesTyped DEF Closes
    <3>5. Closes(r) => /\ reqs'[r].op = "done"
                       /\ \A p \in Requests \ {r} : reqs'[p] = reqs[p]
      BY DEF Closes
    <3>. QED
      BY <1>3, <3>1, <3>2, <3>3, <3>4, <3>5 DEF Steps, Makes, Reads, Updates
  <2>2. q # r /\ reqs[q].op \in Makes /\ reqs[q].alone
    BY <2>1
  <2>3. A!Makers = {q} /\ (~raced => A!Admins = {})
    BY <2>2 DEF MakersMeet
  <2>4. A!Makers' = {q}
    BY <1>0, <1>1, <2>1, <2>2, <2>3
  <2>5. ~raced' => A!Admins' = {}
    <3>. SUFFICES ASSUME ~raced' PROVE A!Admins' = {}
      OBVIOUS
    <3>1. ~raced /\ A!Admins = {}
      BY <2>3, RacedStays
    <3>2. ~A!UpdateCommit(r)
      <4>1. A!UpdateCommit(r) => reqs[r].op = "judged"
        BY UpdateTyped
      <4>. QED
        BY <3>1, <4>1 DEF Administered, Updates
    <3>3. ~Enrols(r)
      <4>1. Enrols(r) => reqs[r].op \in Makes
        BY EnrolsTyped
      <4>. QED
        BY <1>0, <2>2, <2>3, <4>1
    <3>4. SameRoles
      BY <3>2, <3>3, RolesStay
    <3>. QED
      BY <3>1, <3>4, RolesSame
  <2>. QED
    BY <2>4, <2>5
<1>. QED
  BY <1>2, <1>3

\* Without an administrator's say there is one account at most.
LEMMA OneUnaskedStep ==
    ASSUME Typed, Administered, MakersMeet, A!OneUnasked, NEW r \in Requests, Steps(r)
    PROVE  A!OneUnasked'
<1>0. \A S : A!Cardinality(S) = Cardinality(S)
  BY Zenon DEF A!Cardinality, Cardinality
<1>. SUFFICES ASSUME ~raced'
              PROVE  A!Cardinality(unasked') <= 1
  BY DEF A!OneUnasked
<1>1. ~raced
  BY RacedStays
<1>2. CASE unasked' = unasked
  BY <1>1, <1>2 DEF A!OneUnasked
<1>3. CASE Enrols(r) /\ unasked' # unasked
  <2>1. /\ reqs[r].alone /\ unasked' = unasked \cup {reqs[r].user}
        /\ reqs[r].op \in Makes
    BY <1>3, EnrolsTyped
  <2>2. A!Admins = {}
    BY <1>1, <2>1 DEF MakersMeet
  <2>3. unasked = {}
    BY <1>1, <2>2 DEF Administered
  <2>4. Cardinality({reqs[r].user}) = 1
    BY FS_Singleton
  <2>. QED
    BY <1>0, <2>1, <2>3, <2>4
<1>. QED
  BY <1>2, <1>3, RacedStays

-----------------------------------------------------------------------------
(* The invariant.                                                           *)

\* A gateway starts with it.
LEMMA AccountsStart ==
    ASSUME A!Init
    PROVE  AccountsInv
<1>1. /\ engine \in Engines /\ users \in Initial
      /\ tokens = {A!Signed(n, 0, "initial") :
                      n \in {m \in DOMAIN users : users[m].pw # NoPassword}}
      /\ reqs = [r \in Requests |-> A!Free]
      /\ printed = {} /\ changed = {} /\ unasked = {} /\ rewound = FALSE /\ raced = FALSE
  BY DEF A!Init, A!Accounts
<1>2. StartsWith(users)
  BY <1>1, AccountsAssumption
<1>3. \A n \in DOMAIN users :
         /\ n \in Names /\ users[n] \in Rows /\ users[n].epoch = 0
         /\ users[n].pw \in {NoPassword, "initial"}
         /\ users[n] = [role |-> users[n].role, status |-> users[n].status,
                        pw |-> users[n].pw, epoch |-> 0, created |-> users[n].created]
  BY <1>2 DEF StartsWith, Rows, A!Passwords
<1>4. users \in [DOMAIN users -> Rows] /\ DOMAIN users \subseteq Names
  BY <1>2, <1>3 DEF StartsWith
<1>5. \A t \in tokens : /\ t \in Sessions /\ t.user \in DOMAIN users /\ t.epoch = 0
                        /\ t.pw = "initial" /\ users[t.user].pw # NoPassword
  BY <1>1, <1>3, AccountsAssumption DEF A!Signed, Sessions, A!Passwords
<1>6. TablesTyped
  BY <1>1, <1>4, <1>5 DEF TablesTyped
<1>7. \A r \in Requests : reqs[r].op = "free" /\ reqs[r].row.epoch = 0 /\ reqs[r] \in Questions
  BY <1>1, FreeTyped DEF Unused
<1>8. Typed
  BY <1>1, <1>6, <1>7 DEF Typed, Fits, Reads, Chooses, Makes, Updates
<1>9. Epochs
  <2>1. Cardinality(Ended) \in Nat
    BY EndedCount DEF Ended
  <2>. QED
    BY <1>3, <1>7, <2>1 DEF Epochs
<1>10. SessionsKept
  <2>1. \A t \in tokens : TokenKept(t)
    BY <1>3, <1>5 DEF TokenKept
  <2>2. \A r \in Requests : ReadKept(r)
    BY <1>7 DEF ReadKept, Reads, Updates
  <2>. QED
    BY <2>1, <2>2 DEF SessionsKept
<1>11. A!PrintedPasswordWorks
  BY <1>1 DEF A!PrintedPasswordWorks
<1>12. Judged /\ MakersMeet
  BY <1>7 DEF Judged, MakersMeet, Makes
<1>13. Administered
  BY <1>1, <1>2, <1>7 DEF Administered, StartsWith, A!Admins, A!ActiveAdmins, A!Accounts, Updates
<1>14. A!OneUnasked
  <2>1. A!Cardinality(unasked) = Cardinality(unasked)
    BY Zenon DEF A!Cardinality, Cardinality
  <2>. QED
    BY <1>1, <2>1, FS_EmptySet DEF A!OneUnasked
<1>. QED
  BY <1>8, <1>9, <1>10, <1>11, <1>12, <1>13, <1>14 DEF AccountsInv

\* Every step keeps it.
LEMMA AccountsKept ==
    ASSUME AccountsInv, A!Next
    PROVE  AccountsInv'
<1>1. PICK r \in Requests : Steps(r)
  BY StepsAre
<1>2. Typed'
  BY AccountsTyped DEF AccountsInv
<1>3. Epochs'
  BY <1>1, <1>2, EpochsStep DEF AccountsInv
<1>4. SessionsKept' \/ rewound'
  <2>1. CASE ~rewound'
    <3>1. SessionsKept
      BY <1>1, <2>1, RacedStays DEF AccountsInv
    <3>. QED
      BY <1>1, <1>2, <2>1, <3>1, SessionsStep DEF AccountsInv
  <2>. QED
    BY <2>1
<1>5. A!PrintedPasswordWorks'
  BY <1>1, PrintedStep DEF AccountsInv
<1>6. Judged' /\ Administered'
  BY <1>1, JudgedStep, AdministeredStep DEF AccountsInv
<1>7. MakersMeet' /\ A!OneUnasked'
  BY <1>1, MakersMeetStep, OneUnaskedStep DEF AccountsInv
<1>. QED
  BY <1>2, <1>3, <1>4, <1>5, <1>6, <1>7 DEF AccountsInv

\* Where the accounts stand still, it stands.
LEMMA AccountsStand ==
    ASSUME AccountsInv, UNCHANGED accounts
    PROVE  AccountsInv'
<1>1. UNCHANGED <<engine, users, tokens, reqs, printed, changed, rewound, raced, unasked>>
  BY DEF accounts
<1>2. Typed'
  BY <1>1 DEF AccountsInv, Typed, TablesTyped, Fits
<1>3. Epochs'
  BY <1>1 DEF AccountsInv, Epochs, Ended
<1>4. SessionsKept' \/ rewound'
  BY <1>1 DEF AccountsInv, SessionsKept, TokenKept, ReadKept
<1>5. A!PrintedPasswordWorks'
  BY <1>1 DEF AccountsInv, A!PrintedPasswordWorks, A!Accounts
<1>6. Judged'
  BY <1>1 DEF AccountsInv, Judged, A!ActiveAdmins, A!Accounts, A!GivesUp, A!Changed, A!Field
<1>7. Administered' /\ MakersMeet'
  BY <1>1 DEF AccountsInv, Administered, MakersMeet, A!ActiveAdmins, A!Admins, A!Accounts, A!Makers
<1>8. A!OneUnasked'
  BY <1>1 DEF AccountsInv, A!OneUnasked
<1>. QED
  BY <1>2, <1>3, <1>4, <1>5, <1>6, <1>7, <1>8 DEF AccountsInv

\* The invariant of the accounts holds in every reachable state.
THEOREM AccountsInvariance == SpecBoth => []AccountsInv
<1>1. InitBoth => AccountsInv
  BY AccountsStart DEF InitBoth
<1>2. AccountsInv /\ [NextBoth]_all => AccountsInv'
  BY AccountsKept, AccountsStand DEF NextBoth, all
<1>. QED
  BY <1>1, <1>2, PTL DEF SpecBoth

\* No account's epoch passes the number of requests.
LEMMA EpochsEnd ==
    ASSUME AccountsInv
    PROVE  A!TypeOK
<1>0. A!Cardinality(Requests) = Cardinality(Requests)
  BY Zenon DEF A!Cardinality, Cardinality
<1>1. /\ Cardinality(Ended) \in Nat /\ Cardinality(Requests) \in Nat
      /\ Cardinality(Ended) <= Cardinality(Requests)
  BY EndedCount, AccountsAssumption, FS_CardinalityType DEF Ended
<1>2. \A n \in DOMAIN users :
         /\ n \in Names /\ users[n].role \in {"admin", "manager", "user"}
         /\ users[n].status \in {"active", "suspended"} /\ users[n].pw \in A!Passwords
         /\ users[n].epoch \in Nat
  BY RowsTyped DEF AccountsInv
<1>3. \A n \in DOMAIN users : users[n].epoch \in 0..A!Cardinality(Requests)
  BY <1>0, <1>1, <1>2 DEF AccountsInv, Epochs
<1>4. \A t \in tokens : t.user \in DOMAIN users /\ t.pw \in A!Passwords \ {NoPassword}
  BY DEF AccountsInv, Typed, TablesTyped, Sessions
<1>5. \A r \in Requests : reqs[r].user \in Names /\ reqs[r].pw \in A!Passwords
  BY DEF AccountsInv, Typed, Questions
<1>. QED
  BY <1>2, <1>3, <1>4, <1>5 DEF A!TypeOK, A!Accounts

\* Somebody can get in and administer, and nobody got in unasked: AdministrationLasts of the
\* accounts.
THEOREM AdministrationIsKept == SpecBoth => []AdministrationLasts
<1>1. AccountsInv => AdministrationLasts
  BY EpochsEnd DEF AccountsInv, Administered, AdministrationLasts, A!AdministrationLasts,
     A!AnAdministratorRemains
<1>. QED
  BY <1>1, AccountsInvariance, PTL

\* A session that works stands on the password its account has now, unless an epoch was
\* written over one that had moved.
THEOREM SessionsStandOnThePassword == SpecBoth => []UnlessRewound
<1>1. AccountsInv => UnlessRewound
  BY DEF AccountsInv, SessionsKept, TokenKept, UnlessRewound, A!UnlessRewound,
     A!SessionsKnowThePassword, A!Live
<1>. QED
  BY <1>1, AccountsInvariance, PTL
=============================================================================
